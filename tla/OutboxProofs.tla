---------------------------- MODULE OutboxProofs ----------------------------
(***************************************************************************)
(* Proofs about the outbox, for any number of threads, connections and     *)
(* messages and for every limit: no message but a position is lost, none   *)
(* is kept twice, none waits for lack of a flush; and what WebLinkProofs   *)
(* shows of the connection holds of it under the outbox too.               *)
(***************************************************************************)
EXTENDS Outbox, WebLinkProofs, FiniteSetTheorems

-----------------------------------------------------------------------------
\* Sequences.

LEMMA Least ==
  ASSUME NEW T \in SUBSET Nat, T # {}
  PROVE  \E m \in T : \A k \in T : m <= k
<1> DEFINE R == OpToRel(<, Nat)
<1>1. IsWellFoundedOn(R, Nat)
  BY NatLessThanWellFounded
<1>2. \A m, k \in Nat : k < m => <<k, m>> \in R
  BY DEF OpToRel
<1> HIDE DEF R
<1>3. PICK m \in T : \A k \in T : ~(<<k, m>> \in R)
  BY <1>1, WFMin
<1>4. ASSUME NEW k \in T PROVE m <= k
  <2>1. m \in Nat /\ k \in Nat
    OBVIOUS
  <2>2. ~(k < m)
    BY <1>2, <1>3, <2>1
  <2> QED
    BY <2>1, <2>2
<1> QED
  BY <1>4

LEMMA Suffix ==
  ASSUME NEW S, NEW s \in Seq(S), NEW n \in 0 .. Len(s)
  PROVE  /\ SubSeq(s, n + 1, Len(s)) \in Seq(S)
         /\ Len(SubSeq(s, n + 1, Len(s))) = Len(s) - n
         /\ \A k \in 1 .. Len(s) - n : SubSeq(s, n + 1, Len(s))[k] = s[k + n]
OBVIOUS

LEMMA Rest ==
  ASSUME NEW S, NEW s \in Seq(S), s # << >>
  PROVE  /\ Len(s) > 0 /\ Head(s) = s[1] /\ Head(s) \in S
         /\ Tail(s) \in Seq(S) /\ Len(Tail(s)) = Len(s) - 1
         /\ \A k \in 1 .. Len(s) - 1 : Tail(s)[k] = s[k + 1]
OBVIOUS

LEMMA Longer ==
  ASSUME NEW S, NEW s \in Seq(S), NEW x \in S
  PROVE  /\ Append(s, x) \in Seq(S) /\ Len(Append(s, x)) = Len(s) + 1
         /\ \A k \in 1 .. Len(s) : Append(s, x)[k] = s[k]
         /\ Append(s, x)[Len(s) + 1] = x
OBVIOUS

LEMMA InFront ==
  ASSUME NEW S, NEW s \in Seq(S), NEW x \in S
  PROVE  /\ <<x>> \o s \in Seq(S) /\ Len(<<x>> \o s) = Len(s) + 1
         /\ (<<x>> \o s)[1] = x
         /\ \A k \in 2 .. Len(s) + 1 : (<<x>> \o s)[k] = s[k - 1]
OBVIOUS

\* Evict() drops positions only, and no more of them than make room for one message.
LEMMA PositionsEvicted ==
  ASSUME NEW queue \in Seq(Message)
  PROVE  \E n \in 0 .. Len(queue) :
           /\ Evict(queue) = SubSeq(queue, n + 1, Len(queue))
           /\ \A k \in 1 .. n : queue[k].sort = "position"
           /\ n > 0 => Len(queue) - n + 1 >= Limit
<1> DEFINE Stops(n) == Len(queue) - n < Limit \/ queue[n + 1].sort # "position"
           First(n) == Stops(n) /\ \A i \in 0 .. n : Stops(i) => i = n
           T == {n \in 0 .. Len(queue) : Stops(n)}
<1>1. Len(queue) \in T
  BY LimitAssumption
<1>2. PICK m \in T : \A k \in T : m <= k
  <2>1. T \in SUBSET Nat /\ T # {}
    BY <1>1
  <2> HIDE DEF T
  <2> QED
    BY <2>1, Least
<1>3. ASSUME NEW i \in 0 .. m, Stops(i) PROVE i = m
  <2>1. i \in T /\ m \in Nat
    BY <1>3
  <2> QED
    BY <1>2, <2>1
<1>4. \E n \in 0 .. Len(queue) : First(n)
  BY <1>3
<1> DEFINE n == CHOOSE k \in 0 .. Len(queue) : First(k)
<1>5. n \in 0 .. Len(queue) /\ First(n)
  <2> HIDE DEF First
  <2> QED
    BY <1>4
<1>6. Evict(queue) = SubSeq(queue, n + 1, Len(queue))
  BY DEF Evict
<1> HIDE DEF n
<1>7. ASSUME NEW k \in 1 .. n PROVE queue[k].sort = "position"
  <2>1. k - 1 \in 0 .. n /\ k - 1 # n /\ (k - 1) + 1 = k
    BY <1>5
  <2>2. ~Stops(k - 1)
    BY <1>5, <2>1
  <2> QED
    BY <2>1, <2>2
<1>8. ASSUME n > 0 PROVE Len(queue) - n + 1 >= Limit
  <2>1. n - 1 \in 0 .. n /\ n - 1 # n
    BY <1>5, <1>8
  <2>2. ~Stops(n - 1)
    BY <1>5, <2>1
  <2> QED
    BY <1>5, <2>1, <2>2, LimitAssumption
<1> QED
  BY <1>5, <1>6, <1>7, <1>8

-----------------------------------------------------------------------------
\* Where the messages are.

Queued == 1 .. Len(pending_msgs)
Known(m) == m \in Message /\ m.nr <= said[m.sort]

Somewhere(m) ==
  m \in sent \/ (\E i \in Queued : pending_msgs[i] = m) \/ (\E t \in Senders : hand[t] = m)

\* The queue, the hands and what was sent share no message and hold none twice; they hold
\* every result that was said and nothing that was not.
InPlace ==
  /\ pending_msgs \in Seq(Message) /\ said \in [Sorts -> Nat]
  /\ hand \in [Senders -> Message \cup {NoMessage}]
  /\ \A i, j \in Queued : pending_msgs[i] = pending_msgs[j] => i = j
  /\ \A t, u \in Senders : hand[t] = hand[u] /\ hand[t] # NoMessage => t = u
  /\ \A i \in Queued, t \in Senders : pending_msgs[i] # hand[t]
  /\ \A i \in Queued : pending_msgs[i] \notin sent
  /\ \A t \in Senders : hand[t] \notin sent
  /\ \A i \in Queued : Known(pending_msgs[i])
  /\ \A t \in Senders : hand[t] # NoMessage => Known(hand[t])
  /\ \A m \in sent : Known(m)
  /\ \A m \in Message : Known(m) /\ m.sort = "result" => Somewhere(m)

\* A thread has a message in its hand exactly as long as its step says so, and while its
\* send is posted.
Steps ==
  /\ step \in [Senders -> {"idle", "flush", "take", "send", "sending", "back"}]
  /\ sender \in [Threads -> {"idle", "waiting", "marking"}]
  /\ \A t \in Threads : step[t] = "sending" <=> sender[t] # "idle"
  /\ \A t \in Senders : hand[t] # NoMessage <=> step[t] \in {"send", "sending", "back"}

LEMMA MessageSorts ==
  /\ \A m \in Message : m = [sort |-> m.sort, nr |-> m.nr] /\ m.sort \in Sorts /\ m.nr \in Nat \ {0}
  /\ NoMessage \notin Message
BY DEF Message, NoMessage

\* The places when a message is said and room is made for it, ...
LEMMA PlacesSaid ==
  ASSUME InPlace, NEW sort \in Sorts, NEW n \in 0 .. Len(pending_msgs),
         \A k \in 1 .. n : pending_msgs[k].sort = "position",
         said' = [said EXCEPT ![sort] = @ + 1],
         UNCHANGED <<hand, sent>>,
         LET queue == SubSeq(pending_msgs, n + 1, Len(pending_msgs))
         IN  \/ sort = "position" /\ pending_msgs' = queue
             \/ pending_msgs' = Append(queue, [sort |-> sort, nr |-> said[sort] + 1])
  PROVE  InPlace'
<1> DEFINE queue == SubSeq(pending_msgs, n + 1, Len(pending_msgs))
           old == pending_msgs
<1>0. PICK new : new = [sort |-> sort, nr |-> said[sort] + 1]
  OBVIOUS
<1>1. /\ old \in Seq(Message) /\ Len(old) \in Nat /\ said \in [Sorts -> Nat] /\ said[sort] \in Nat
      /\ hand \in [Senders -> Message \cup {NoMessage}]
  BY DEF InPlace
<1>2. new \in Message /\ ~Known(new) /\ new # NoMessage
  BY <1>0, <1>1 DEF Message, Known, NoMessage, Sorts
<1>3. /\ queue \in Seq(Message) /\ Len(queue) = Len(old) - n /\ Len(queue) \in Nat
      /\ \A k \in 1 .. Len(queue) : queue[k] = old[k + n] /\ k + n \in 1 .. Len(old)
  BY <1>1, Suffix
<1>4. said' \in [Sorts -> Nat] /\ \A s \in Sorts : said[s] <= said'[s]
  BY <1>1
<1>5. \A m \in Message : Known(m) => Known(m)'
  BY <1>1, <1>4, MessageSorts DEF Known
<1>6. Known(new)'
  BY <1>0, <1>1, <1>2 DEF Known
<1>7. \A m \in Message : Known(m)' /\ m # new => Known(m)
  <2> SUFFICES ASSUME NEW m \in Message, Known(m)', m # new PROVE Known(m)
    OBVIOUS
  <2>1. m.sort \in Sorts /\ m.nr \in Nat /\ m = [sort |-> m.sort, nr |-> m.nr]
    BY MessageSorts
  <2>2. CASE m.sort # sort
    BY <1>1, <2>1, <2>2 DEF Known
  <2>3. CASE m.sort = sort
    <3>1. m.nr # said[sort] + 1 /\ m.nr <= said[sort] + 1
      BY <1>0, <1>1, <2>1, <2>3 DEF Known
    <3> QED
      BY <1>1, <2>1, <2>3, <3>1 DEF Known
  <2> QED
    BY <2>2, <2>3
<1>8. \/ sort = "position" /\ pending_msgs' = queue
      \/ pending_msgs' = Append(queue, new)
  BY <1>0
<1>9. \A m \in Message : Known(m) /\ m.sort = "result" =>
        \/ m \in sent \/ (\E t \in Senders : hand[t] = m)
        \/ \E k \in 1 .. Len(queue) : queue[k] = m
  <2> SUFFICES ASSUME NEW m \in Message, Known(m), m.sort = "result",
                      m \notin sent, \A t \in Senders : hand[t] # m
               PROVE  \E k \in 1 .. Len(queue) : queue[k] = m
    OBVIOUS
  <2>1. PICK i \in 1 .. Len(old) : old[i] = m
    BY DEF InPlace, Somewhere, Queued
  <2>2. i \notin 1 .. n
    BY <2>1
  <2>3. i - n \in 1 .. Len(queue) /\ (i - n) + n = i
    BY <1>1, <1>3, <2>2
  <2> QED
    BY <1>3, <2>1, <2>3
<1>10. /\ \A i, j \in 1 .. Len(queue) : queue[i] = queue[j] => i = j
       /\ \A i \in 1 .. Len(queue) : Known(queue[i]) /\ queue[i] \notin sent /\ queue[i] \in Message
       /\ \A i \in 1 .. Len(queue), t \in Senders : queue[i] # hand[t]
  <2>1. ASSUME NEW i \in 1 .. Len(queue), NEW j \in 1 .. Len(queue), queue[i] = queue[j]
        PROVE  i = j
    <3>1. i + n = j + n
      BY <1>3, <2>1 DEF InPlace, Queued
    <3> QED
      BY <3>1
  <2>2. \A i \in 1 .. Len(old) : /\ Known(old[i]) /\ old[i] \notin sent /\ old[i] \in Message
                                 /\ \A t \in Senders : old[i] # hand[t]
    BY <1>1 DEF InPlace, Queued
  <2>3. ASSUME NEW i \in 1 .. Len(queue)
        PROVE  /\ Known(queue[i]) /\ queue[i] \notin sent /\ queue[i] \in Message
               /\ \A t \in Senders : queue[i] # hand[t]
    BY <1>3, <2>2
  <2> QED
    BY <2>1, <2>3
<1> HIDE DEF queue
<1>11. CASE sort = "position" /\ pending_msgs' = queue
  <2>1. \A m \in Message : Known(m)' /\ m.sort = "result" => Known(m)
    BY <1>0, <1>7, <1>11
  <2>2. \A m \in Message : Known(m)' /\ m.sort = "result" => Somewhere(m)'
    BY <1>9, <1>11, <2>1 DEF Queued, Somewhere
  <2>3. \A i \in 1 .. Len(pending_msgs') :
           /\ Known(pending_msgs[i])' /\ pending_msgs'[i] \notin sent
           /\ \A t \in Senders : pending_msgs'[i] # hand[t]
    BY <1>5, <1>10, <1>11 DEF Known
  <2>4. /\ \A t \in Senders : hand[t] # NoMessage => Known(hand[t])'
        /\ \A m \in sent : Known(m)'
    BY <1>5 DEF InPlace, Known
  <2> QED
    BY <1>1, <1>3, <1>4, <1>10, <1>11, <2>2, <2>3, <2>4 DEF InPlace, Queued
<1>12. CASE pending_msgs' = Append(queue, new)
  <2>1. /\ pending_msgs' \in Seq(Message) /\ Len(pending_msgs') = Len(queue) + 1
        /\ \A k \in 1 .. Len(queue) : pending_msgs'[k] = queue[k]
        /\ pending_msgs'[Len(queue) + 1] = new
    BY <1>2, <1>3, <1>12, Longer
  <2>2. \A i \in 1 .. Len(pending_msgs') : i \in 1 .. Len(queue) \/ i = Len(queue) + 1
    BY <1>3, <2>1
  <2>3. new \notin sent /\ (\A t \in Senders : hand[t] # new) /\ \A k \in 1 .. Len(queue) : queue[k] # new
    BY <1>2, <1>10 DEF InPlace
  <2>4. \A i, j \in 1 .. Len(pending_msgs') : pending_msgs'[i] = pending_msgs'[j] => i = j
    BY <1>10, <2>1, <2>2, <2>3
  <2>5. \A m \in Message : Known(m)' /\ m.sort = "result" => Somewhere(m)'
    <3> SUFFICES ASSUME NEW m \in Message, Known(m)', m.sort = "result" PROVE Somewhere(m)'
      OBVIOUS
    <3>1. CASE m = new
      <4>1. Len(queue) + 1 \in 1 .. Len(pending_msgs')
        BY <1>3, <2>1
      <4> QED
        BY <2>1, <3>1, <4>1 DEF Somewhere, Queued
    <3>2. CASE m # new
      <4>1. \A k \in 1 .. Len(queue) : k \in 1 .. Len(pending_msgs')
        BY <1>3, <2>1
      <4>2. \/ m \in sent \/ (\E t \in Senders : hand[t] = m)
            \/ \E k \in 1 .. Len(queue) : queue[k] = m
        BY <1>7, <1>9, <3>2
      <4> QED
        BY <2>1, <4>1, <4>2 DEF Somewhere, Queued
    <3> QED
      BY <3>1, <3>2
  <2>6. ASSUME NEW i \in 1 .. Len(pending_msgs')
        PROVE  /\ Known(pending_msgs[i])' /\ pending_msgs'[i] \notin sent
               /\ \A t \in Senders : pending_msgs'[i] # hand[t]
    <3>1. CASE i = Len(queue) + 1
      BY <1>6, <2>1, <2>3, <3>1 DEF Known
    <3>2. CASE i \in 1 .. Len(queue)
      BY <1>5, <1>10, <2>1, <3>2 DEF Known
    <3> QED
      BY <2>2, <3>1, <3>2
  <2>7. /\ \A t \in Senders : hand[t] # NoMessage => Known(hand[t])'
        /\ \A m \in sent : Known(m)'
    BY <1>5 DEF InPlace, Known
  <2> QED
    BY <1>1, <1>4, <2>1, <2>4, <2>5, <2>6, <2>7 DEF InPlace, Queued
<1> QED
  BY <1>8, <1>11, <1>12

\* ... when a thread takes the first one, ...
LEMMA PlacesTaken ==
  ASSUME InPlace, NEW t \in Senders, hand[t] = NoMessage, pending_msgs # << >>,
         hand' = [hand EXCEPT ![t] = Head(pending_msgs)], pending_msgs' = Tail(pending_msgs),
         UNCHANGED <<said, sent>>
  PROVE  InPlace'
<1> DEFINE old == pending_msgs
<1>1. /\ old \in Seq(Message) /\ Len(old) \in Nat /\ Len(old) > 0
      /\ Head(old) = old[1] /\ Tail(old) \in Seq(Message) /\ Len(Tail(old)) = Len(old) - 1
      /\ \A k \in 1 .. Len(old) - 1 : Tail(old)[k] = old[k + 1] /\ k + 1 \in 2 .. Len(old)
  BY Rest DEF InPlace
<1>2. PICK first : first = old[1]
  OBVIOUS
<1>3. /\ first \in Message /\ Known(first) /\ first \notin sent /\ first # NoMessage
      /\ \A u \in Senders : hand[u] # first
      /\ \A k \in 2 .. Len(old) : old[k] # first
  <2>1. 1 \in 1 .. Len(old) /\ \A k \in 2 .. Len(old) : k \in 1 .. Len(old) /\ k # 1
    BY <1>1
  <2>2. first \in Message /\ first # NoMessage
    BY <1>1, <1>2, <2>1, MessageSorts
  <2>3. /\ Known(first) /\ first \notin sent /\ \A u \in Senders : hand[u] # first
    BY <1>2, <2>1 DEF InPlace, Queued
  <2>4. \A k \in 2 .. Len(old) : old[k] # first
    BY <1>2, <2>1 DEF InPlace, Queued
  <2> QED
    BY <2>2, <2>3, <2>4
<1>4. /\ hand' \in [Senders -> Message \cup {NoMessage}] /\ hand'[t] = first
      /\ \A u \in Senders \ {t} : hand'[u] = hand[u]
  BY <1>1, <1>2, <1>3 DEF InPlace
<1>5. ASSUME NEW i \in 1 .. Len(old) - 1
      PROVE  /\ Tail(old)[i] = old[i + 1] /\ Known(old[i + 1]) /\ old[i + 1] \notin sent
             /\ \A u \in Senders : old[i + 1] # hand'[u]
  <2>1. i + 1 \in 2 .. Len(old) /\ i + 1 \in 1 .. Len(old)
    BY <1>1
  <2> QED
    BY <1>1, <1>3, <1>4, <2>1 DEF InPlace, Queued
<1>6. ASSUME NEW i \in 1 .. Len(old) - 1, NEW j \in 1 .. Len(old) - 1, Tail(old)[i] = Tail(old)[j]
      PROVE  i = j
  <2>1. i + 1 \in 1 .. Len(old) /\ j + 1 \in 1 .. Len(old) /\ old[i + 1] = old[j + 1]
    BY <1>1, <1>6
  <2>2. i + 1 = j + 1
    BY <2>1 DEF InPlace, Queued
  <2> QED
    BY <2>2
<1>7. \A m : Known(m)' <=> Known(m)
  BY DEF Known
<1>8. ASSUME NEW m \in Message, Known(m), m.sort = "result" PROVE Somewhere(m)'
  <2>1. CASE m = first
    BY <1>4, <2>1, Zenon DEF Somewhere
  <2>2. ASSUME NEW u \in Senders, hand[u] = m PROVE Somewhere(m)'
    BY <1>4, <2>2, MessageSorts DEF Somewhere
  <2>3. ASSUME NEW i \in 1 .. Len(old), old[i] = m, m # first PROVE Somewhere(m)'
    <3>1. i - 1 \in 1 .. Len(old) - 1 /\ (i - 1) + 1 = i
      BY <1>1, <1>2, <2>3
    <3> QED
      BY <1>1, <1>5, <2>3, <3>1 DEF Somewhere, Queued
  <2>4. CASE m \in sent
    BY <2>4 DEF Somewhere
  <2>5. Somewhere(m)
    BY <1>8 DEF InPlace
  <2> QED
    BY <2>1, <2>2, <2>3, <2>4, <2>5 DEF Somewhere, Queued
<1>9. ASSUME NEW u \in Senders, NEW v \in Senders, hand'[u] = hand'[v], hand'[u] # NoMessage
      PROVE  u = v
  BY <1>3, <1>4, <1>9 DEF InPlace
<1>10. /\ \A u \in Senders : hand'[u] \notin sent
       /\ \A u \in Senders : hand'[u] # NoMessage => Known(hand'[u])
  BY <1>3, <1>4 DEF InPlace
<1>11. \A u \in Senders : hand'[u] # NoMessage => Known(hand[u])'
  BY <1>10 DEF Known
<1>12. \A i \in Queued' : Known(pending_msgs[i])'
  BY <1>1, <1>5 DEF Known, Queued
<1> QED
  BY <1>1, <1>4, <1>5, <1>6, <1>7, <1>8, <1>9, <1>10, <1>11, <1>12 DEF InPlace, Queued

\* ... when it has been sent ...
LEMMA PlacesSent ==
  ASSUME InPlace, NEW t \in Senders, hand[t] # NoMessage,
         hand' = [hand EXCEPT ![t] = NoMessage], sent' = sent \cup {hand[t]},
         UNCHANGED <<said, pending_msgs>>
  PROVE  InPlace'
<1>1. /\ hand' \in [Senders -> Message \cup {NoMessage}] /\ hand'[t] = NoMessage
      /\ \A u \in Senders \ {t} : hand'[u] = hand[u] /\ hand[u] # hand[t]
  BY DEF InPlace
<1>2. hand[t] \in Message /\ Known(hand[t])
  BY DEF InPlace
<1>3. \A m : Known(m)' <=> Known(m)
  BY DEF Known
<1>4. NoMessage \notin sent'
  BY <1>2, MessageSorts DEF InPlace, Known
<1>5. \A m \in Message : Somewhere(m) => Somewhere(m)'
  BY <1>1, MessageSorts DEF Somewhere, Queued
<1>6. \A u \in Senders : hand'[u] # NoMessage => Known(hand[u])'
  BY <1>1 DEF InPlace, Known
<1>7. \A i \in Queued' : Known(pending_msgs[i])'
  BY DEF InPlace, Known, Queued
<1> QED
  BY <1>1, <1>2, <1>3, <1>4, <1>5, <1>6, <1>7, MessageSorts DEF InPlace, Queued

\* ... and when it is put back.
LEMMA PlacesPutBack ==
  ASSUME InPlace, NEW t \in Senders, hand[t] # NoMessage,
         hand' = [hand EXCEPT ![t] = NoMessage], pending_msgs' = <<hand[t]>> \o pending_msgs,
         UNCHANGED <<said, sent>>
  PROVE  InPlace'
<1> DEFINE old == pending_msgs
<1>1. /\ hand' \in [Senders -> Message \cup {NoMessage}] /\ hand'[t] = NoMessage
      /\ \A u \in Senders \ {t} : hand'[u] = hand[u] /\ hand[u] # hand[t]
  BY DEF InPlace
<1>2. PICK first : first = hand[t]
  OBVIOUS
<1>3. /\ first \in Message /\ Known(first) /\ first \notin sent
      /\ \A i \in 1 .. Len(old) : old[i] # first
      /\ \A u \in Senders : hand'[u] # first
  BY <1>1, <1>2, MessageSorts DEF InPlace, Queued
<1>4. /\ old \in Seq(Message) /\ Len(old) \in Nat
      /\ pending_msgs' \in Seq(Message) /\ Len(pending_msgs') = Len(old) + 1
      /\ pending_msgs'[1] = first
      /\ \A k \in 2 .. Len(old) + 1 : pending_msgs'[k] = old[k - 1]
  BY <1>2, <1>3, InFront DEF InPlace
<1>5. \A i \in 1 .. Len(pending_msgs') :
         i = 1 \/ (i \in 2 .. Len(old) + 1 /\ i - 1 \in 1 .. Len(old))
  BY <1>4
<1>6. ASSUME NEW i \in 1 .. Len(pending_msgs')
      PROVE  /\ Known(pending_msgs[i])' /\ pending_msgs'[i] \notin sent
             /\ \A u \in Senders : pending_msgs'[i] # hand'[u]
  <2>1. CASE i = 1
    BY <1>3, <1>4, <2>1 DEF Known
  <2>2. CASE i # 1
    <3>1. i - 1 \in 1 .. Len(old) /\ pending_msgs'[i] = old[i - 1]
      BY <1>4, <1>5, <2>2
    <3>2. /\ Known(old[i - 1]) /\ old[i - 1] \notin sent /\ old[i - 1] \in Message
          /\ \A u \in Senders : old[i - 1] # hand[u]
      BY <1>4, <3>1 DEF InPlace, Queued
    <3> QED
      BY <1>1, <3>1, <3>2, MessageSorts DEF Known
  <2> QED
    BY <2>1, <2>2
<1>7. ASSUME NEW i \in 1 .. Len(pending_msgs'), NEW j \in 1 .. Len(pending_msgs'),
             pending_msgs'[i] = pending_msgs'[j]
      PROVE  i = j
  <2>1. CASE i = 1 \/ j = 1
    BY <1>3, <1>4, <1>5, <1>7, <2>1
  <2>2. CASE i # 1 /\ j # 1
    <3>1. i - 1 \in 1 .. Len(old) /\ j - 1 \in 1 .. Len(old) /\ old[i - 1] = old[j - 1]
      BY <1>4, <1>5, <1>7, <2>2
    <3>2. i - 1 = j - 1
      BY <3>1 DEF InPlace, Queued
    <3> QED
      BY <3>2
  <2> QED
    BY <2>1, <2>2
<1>8. ASSUME NEW m \in Message, Known(m), m.sort = "result" PROVE Somewhere(m)'
  <2>1. CASE m = first
    <3>1. 1 \in 1 .. Len(pending_msgs')
      BY <1>4
    <3> QED
      BY <1>4, <2>1, <3>1 DEF Somewhere, Queued
  <2>2. ASSUME NEW u \in Senders, hand[u] = m, m # first PROVE Somewhere(m)'
    BY <1>1, <1>2, <2>2 DEF Somewhere
  <2>3. ASSUME NEW i \in 1 .. Len(old), old[i] = m PROVE Somewhere(m)'
    <3>1. i + 1 \in 2 .. Len(old) + 1 /\ i + 1 \in 1 .. Len(pending_msgs') /\ (i + 1) - 1 = i
      BY <1>4
    <3> QED
      BY <1>4, <2>3, <3>1 DEF Somewhere, Queued
  <2>4. CASE m \in sent
    BY <2>4 DEF Somewhere
  <2>5. Somewhere(m)
    BY <1>8 DEF InPlace
  <2> QED
    BY <2>1, <2>2, <2>3, <2>4, <2>5 DEF Somewhere, Queued
<1>9. \A m : Known(m)' <=> Known(m)
  BY DEF Known
<1>10. \A u \in Senders : hand'[u] # NoMessage => Known(hand[u])'
  BY <1>1 DEF InPlace, Known
<1>11. \A u, v \in Senders : hand'[u] = hand'[v] /\ hand'[u] # NoMessage => u = v
  BY <1>1 DEF InPlace
<1>12. \A u \in Senders : hand'[u] \notin sent
  BY <1>1, MessageSorts DEF InPlace, Known
<1> QED
  BY <1>1, <1>4, <1>6, <1>7, <1>8, <1>9, <1>10, <1>11, <1>12 DEF InPlace, Queued

-----------------------------------------------------------------------------
\* The invariant of the outbox.

OutboxInv == InPlace /\ Steps

LEMMA OutboxInitially == OutboxInit => OutboxInv
<1> SUFFICES ASSUME OutboxInit PROVE OutboxInv
  OBVIOUS
<1>1. \A m \in Message : ~Known(m)
  <2> SUFFICES ASSUME NEW m \in Message, Known(m) PROVE FALSE
    OBVIOUS
  <2>1. m.sort \in Sorts /\ m.nr \in Nat \ {0}
    BY MessageSorts
  <2> QED
    BY <2>1 DEF OutboxInit, Known
<1>2. InPlace
  BY <1>1 DEF OutboxInit, InPlace, Queued
<1>3. Steps
  BY DEF OutboxInit, LinkInit, Steps, NoMessage, Senders
<1> QED
  BY <1>2, <1>3 DEF OutboxInv

LEMMA InPlaceUnchanged ==
  InPlace /\ UNCHANGED <<pending_msgs, hand, said, sent>> => InPlace'
BY DEF InPlace, Queued, Known, Somewhere

LEMMA AnsweredInPlace ==
  ASSUME InPlace, Steps, NEW t \in Senders, step[t] \in {"send", "sending"}, NEW ok \in BOOLEAN,
         Answered(t, ok), UNCHANGED <<said, pending_msgs>>
  PROVE  InPlace'
<1>1. hand[t] # NoMessage
  BY DEF Steps
<1>2. CASE ok
  BY <1>1, <1>2, PlacesSent DEF Answered
<1>3. CASE ~ok
  BY <1>3, InPlaceUnchanged DEF Answered
<1> QED
  BY <1>2, <1>3

LEMMA OutboxPlaces == OutboxInv /\ [OutboxNext]_outbox_vars => InPlace'
<1> SUFFICES ASSUME InPlace, Steps, [OutboxNext]_outbox_vars PROVE InPlace'
  BY DEF OutboxInv
<1>1. ASSUME NEW t \in Senders, NEW sort \in Sorts, Says(t, sort) PROVE InPlace'
  <2> DEFINE queue == IF sort = "position" THEN Evict(pending_msgs) ELSE pending_msgs
  <2>1. \E n \in 0 .. Len(pending_msgs) :
          /\ queue = SubSeq(pending_msgs, n + 1, Len(pending_msgs))
          /\ \A k \in 1 .. n : pending_msgs[k].sort = "position"
    <3>1. pending_msgs \in Seq(Message)
      BY DEF InPlace
    <3>2. CASE sort = "position"
      BY <3>1, <3>2, PositionsEvicted
    <3>3. CASE sort # "position"
      <4>1. pending_msgs = SubSeq(pending_msgs, 0 + 1, Len(pending_msgs))
        BY <3>1
      <4>2. 0 \in 0 .. Len(pending_msgs) /\ \A k \in 1 .. 0 : pending_msgs[k].sort = "position"
        BY <3>1
      <4>3. queue = pending_msgs
        BY <3>3
      <4> HIDE DEF queue
      <4> QED
        BY <4>1, <4>2, <4>3
    <3> QED
      BY <3>2, <3>3
  <2>2. /\ said' = [said EXCEPT ![sort] = @ + 1] /\ UNCHANGED <<hand, sent>>
        /\ \/ sort = "position" /\ pending_msgs' = queue
           \/ pending_msgs' = Append(queue, [sort |-> sort, nr |-> said[sort] + 1])
    BY <1>1 DEF Says
  <2> HIDE DEF queue
  <2> QED
    BY <2>1, <2>2, PlacesSaid
<1>2. ASSUME NEW t \in Senders, Take(t) PROVE InPlace'
  <2>1. CASE pending_msgs = << >>
    BY <1>2, <2>1, InPlaceUnchanged DEF Take
  <2>2. CASE pending_msgs # << >>
    <3>1. hand[t] = NoMessage
      BY <1>2 DEF Take, Steps
    <3> QED
      BY <1>2, <2>2, <3>1, PlacesTaken DEF Take
  <2> QED
    BY <2>1, <2>2
<1>3. ASSUME NEW t \in Senders, PutBack(t) PROVE InPlace'
  <2>1. hand[t] # NoMessage
    BY <1>3 DEF PutBack, Steps
  <2> QED
    BY <1>3, <2>1, PlacesPutBack DEF PutBack
<1>4. CASE ClientSends
  <2>1. Client \in Senders /\ Accepts \in BOOLEAN
    BY DEF Senders, Accepts
  <2> QED
    BY <1>4, <2>1, AnsweredInPlace DEF ClientSends
<1>5. ASSUME NEW t \in Threads, Answers(t) PROVE InPlace'
  <2>1. t \in Senders /\ Accepts \in BOOLEAN /\ step[t] = "sending"
    BY <1>5 DEF Senders, Accepts, Answers, SendRuns, Steps
  <2> QED
    BY <1>5, <2>1, AnsweredInPlace DEF Answers
<1>6. ASSUME UNCHANGED <<pending_msgs, hand, said, sent>> PROVE InPlace'
  BY <1>6, InPlaceUnchanged
<1> QED
  BY <1>1, <1>2, <1>3, <1>4, <1>5, <1>6 DEF OutboxNext, FlushStep, outbox_vars, box_vars,
     FlushBegins, Posts, GivesUp, Marks, Opens, ClientRuns, ClientTurns

\* Posting, answering, giving up and marking move step and sender together.
LEMMA OutboxSteps == OutboxInv /\ [OutboxNext]_outbox_vars => Steps'
<1> SUFFICES ASSUME InPlace, Steps, [OutboxNext]_outbox_vars PROVE Steps'
  BY DEF OutboxInv
<1> hand \in [Senders -> Message \cup {NoMessage}]
  BY DEF InPlace
<1> Client \notin Threads /\ Client \in Senders /\ \A t \in Threads : t \in Senders
  BY ClientAssumption DEF Senders
<1>1. ASSUME NEW t \in Senders, NEW sort \in Sorts, Says(t, sort) PROVE Steps'
  BY <1>1 DEF Says, Steps, link_vars
<1>2. ASSUME NEW t \in Senders, FlushBegins(t) PROVE Steps'
  BY <1>2 DEF FlushBegins, Steps, link_vars
<1>3. ASSUME NEW t \in Senders, Take(t) PROVE Steps'
  <2>1. UNCHANGED sender /\ step[t] = "take"
    BY <1>3 DEF Take, link_vars
  <2>2. CASE pending_msgs = << >>
    BY <1>3, <2>1, <2>2 DEF Take, Steps
  <2>3. CASE pending_msgs # << >>
    <3>1. Head(pending_msgs) # NoMessage
      BY <2>3, Rest, MessageSorts DEF InPlace
    <3>2. /\ step' = [step EXCEPT ![t] = "send"]
          /\ hand' = [hand EXCEPT ![t] = Head(pending_msgs)]
      BY <1>3, <2>3 DEF Take
    <3> QED
      BY <2>1, <3>1, <3>2 DEF Steps
  <2> QED
    BY <2>2, <2>3
<1>4. ASSUME NEW t \in Senders, PutBack(t) PROVE Steps'
  BY <1>4 DEF PutBack, Steps, link_vars
<1>5. CASE ClientSends
  <2>1. step[Client] = "send" /\ UNCHANGED sender /\ Answered(Client, Accepts)
    BY <1>5 DEF ClientSends
  <2> QED
    BY <2>1 DEF Answered, Steps
<1>6. ASSUME NEW t \in Threads, Posts(t) PROVE Steps'
  <2>1. CASE SendPosted(t) /\ step' = [step EXCEPT ![t] = "sending"]
    BY <1>6, <2>1 DEF Posts, SendPosted, Steps
  <2>2. CASE step' = [step EXCEPT ![t] = "back"] /\ UNCHANGED link_vars
    BY <1>6, <2>2 DEF Posts, Steps, link_vars
  <2> QED
    BY <1>6, <2>1, <2>2 DEF Posts
<1>7. ASSUME NEW t \in Threads, Answers(t) PROVE Steps'
  <2>1. /\ sender[t] = "waiting" /\ sender' = [sender EXCEPT ![t] = "idle"]
        /\ Answered(t, Accepts)
    BY <1>7 DEF Answers, SendRuns
  <2>2. step[t] = "sending"
    BY <2>1 DEF Steps
  <2> QED
    BY <2>1, <2>2 DEF Answered, Steps
<1>8. ASSUME NEW t \in Threads, Marks(t) PROVE Steps'
  BY <1>8 DEF Marks, MarkedDisconnected, Steps
<1>9. ASSUME NEW t \in Threads, GivesUp(t) PROVE Steps'
  BY <1>9 DEF GivesUp, SendTimesOut, box_vars, Steps
<1>10. ASSUME NEW c \in Connections, Opens(c) PROVE Steps'
  BY <1>10 DEF Opens, ClientOpens, Steps
<1>11. ASSUME UNCHANGED <<sender, step, hand>> PROVE Steps'
  BY <1>11 DEF Steps
<1> QED
  BY <1>1, <1>2, <1>3, <1>4, <1>5, <1>6, <1>7, <1>8, <1>9, <1>10, <1>11
  DEF OutboxNext, FlushStep, outbox_vars, box_vars, link_vars, ClientRuns, ClientTurns,
      ConnectionLost, ConnectionLostHandled, PostedStep, Starts, LateSendRuns, CleanupRuns,
      ReconnectTimerFires

-----------------------------------------------------------------------------
\* KeptOnce of Outbox: however the threads that flush overlap, time out and put back.

LEMMA InPlaceOnce == InPlace => KeptOnce
<1> SUFFICES ASSUME InPlace, NEW m \in Said
             PROVE  LET kept == Cardinality(Places(m)) + Cardinality(Holders(m))
                    IN  /\ kept <= IF m \in sent THEN 0 ELSE 1
                        /\ kept = 0 => m \in sent \/ m.sort = "position"
  BY DEF KeptOnce
<1>1. m \in Message /\ Known(m) /\ m # NoMessage /\ m.sort \in Sorts
  <2>1. PICK s \in Sorts : m \in {[sort |-> s, nr |-> n] : n \in 1 .. said[s]}
    BY DEF Said
  <2>2. PICK n \in 1 .. said[s] : m = [sort |-> s, nr |-> n]
    BY <2>1
  <2>3. said[s] \in Nat
    BY DEF InPlace
  <2>4. m \in Message
    BY <2>2, <2>3 DEF Message
  <2> QED
    BY <2>2, <2>3, <2>4, MessageSorts DEF Known
<1>2. /\ Places(m) = {i \in Queued : pending_msgs[i] = m}
      /\ Holders(m) = {t \in Senders : hand[t] = m}
  BY DEF Places, Holders, InPlace, Queued
<1>3. CASE \E i \in Queued : pending_msgs[i] = m
  <2>1. PICK i \in Queued : pending_msgs[i] = m
    BY <1>3
  <2>2. Places(m) = {i} /\ Holders(m) = {}
    BY <1>2, <2>1 DEF InPlace
  <2>3. m \notin sent
    BY <2>1 DEF InPlace
  <2>4. Cardinality(Places(m)) = 1 /\ Cardinality(Holders(m)) = 0
    BY <2>2, FS_EmptySet, FS_Singleton
  <2> QED
    BY <2>3, <2>4
<1>4. CASE \E t \in Senders : hand[t] = m
  <2>1. PICK t \in Senders : hand[t] = m
    BY <1>4
  <2>2. Places(m) = {} /\ Holders(m) = {t}
    BY <1>1, <1>2, <2>1 DEF InPlace
  <2>3. m \notin sent
    BY <2>1 DEF InPlace
  <2>4. Cardinality(Places(m)) = 0 /\ Cardinality(Holders(m)) = 1
    BY <2>2, FS_EmptySet, FS_Singleton
  <2> QED
    BY <2>3, <2>4
<1>5. CASE (\A i \in Queued : pending_msgs[i] # m) /\ \A t \in Senders : hand[t] # m
  <2>1. Places(m) = {} /\ Holders(m) = {}
    BY <1>2, <1>5
  <2>2. Cardinality(Places(m)) = 0 /\ Cardinality(Holders(m)) = 0
    BY <2>1, FS_EmptySet
  <2>3. m \in sent \/ m.sort = "position"
    BY <1>1, <1>5 DEF InPlace, Somewhere, Sorts
  <2> QED
    BY <2>2, <2>3
<1> QED
  BY <1>3, <1>4, <1>5

\* KeptOnce of Outbox: a message that was said is in one place or was sent, and only a
\* position is ever dropped.
THEOREM MessagesKeptOnce == OutboxSpec => []KeptOnce
<1>1. OutboxInv /\ [OutboxNext]_outbox_vars => OutboxInv'
  BY OutboxPlaces, OutboxSteps DEF OutboxInv
<1>2. OutboxInv => KeptOnce
  BY InPlaceOnce DEF OutboxInv
<1> QED
  BY <1>1, <1>2, OutboxInitially, PTL DEF OutboxSpec

-----------------------------------------------------------------------------
\* OnlyPutBackWaits of Outbox.

\* A queue of no messages has nothing to evict and is not full.
LEMMA NothingEvicted == Evict(<< >>) = << >> /\ ~Full(<< >>)
<1>1. << >> \in Seq(Message) /\ Len(<< >>) = 0
  OBVIOUS
<1>2. PICK n \in 0 .. 0 : Evict(<< >>) = SubSeq(<< >>, n + 1, 0)
  BY <1>1, PositionsEvicted
<1>3. SubSeq(<< >>, n + 1, 0) = << >>
  BY <1>1, Suffix
<1> QED
  BY <1>1, <1>2, <1>3, LimitAssumption DEF Full

\* The connection is opened by ClientOpens() alone.
LEMMA OnlyOpens ==
  ASSUME [OutboxNext]_outbox_vars, webserver_connected', ~webserver_connected
  PROVE  \E c \in Connections : Opens(c)
BY DEF OutboxNext, outbox_vars, link_vars, FlushStep, Says, FlushBegins, Take, PutBack,
   ClientSends, send_to_web_now, mark_web_disconnected, Posts, SendPosted, Answers, SendRuns,
   Marks, MarkedDisconnected, GivesUp, SendTimesOut, ClientRuns, ConnectionLost,
   ConnectionLostHandled, ClientTurns, PostedStep, Starts, LateSendRuns, CleanupRuns,
   ReconnectTimerFires

\* OnlyPutBackWaits is inductive: a thread that becomes idle found the queue empty or the
\* robot offline, or has put a message back.
LEMMA WaitsPreserved ==
  OnlyPutBackWaits /\ Steps /\ [OutboxNext]_outbox_vars => OnlyPutBackWaits'
<1> SUFFICES ASSUME OnlyPutBackWaits, Steps, [OutboxNext]_outbox_vars,
                    webserver_connected', \A t \in Senders : step'[t] = "idle",
                    pending_msgs' # << >>
             PROVE  returned'
  BY DEF OnlyPutBackWaits
<1> Client \in Senders /\ \A t \in Threads : t \in Senders
  BY DEF Senders
<1> step \in [Senders -> {"idle", "flush", "take", "send", "sending", "back"}]
  BY DEF Steps
<1>1. webserver_connected
  <2>1. ASSUME NEW c \in Connections, Opens(c) PROVE FALSE
    BY <2>1 DEF Opens
  <2> QED
    BY <2>1, OnlyOpens
<1>2. ASSUME NEW t \in Senders, NEW sort \in Sorts, Says(t, sort) PROVE returned'
  <2>1. UNCHANGED <<step, returned>> /\ pending_msgs # << >>
    BY <1>2, NothingEvicted DEF Says
  <2> QED
    BY <1>1, <2>1 DEF OnlyPutBackWaits
<1>3. ASSUME NEW t \in Senders, FlushBegins(t) PROVE FALSE
  BY <1>1, <1>3 DEF FlushBegins
<1>4. ASSUME NEW t \in Senders, Take(t) PROVE FALSE
  BY <1>4 DEF Take
<1>5. ASSUME NEW t \in Senders, PutBack(t) PROVE returned'
  BY <1>5 DEF PutBack
<1>6. ~ClientSends
  BY DEF ClientSends, Answered
<1>7. ASSUME NEW t \in Threads, Posts(t) \/ Answers(t) \/ Marks(t) PROVE FALSE
  BY <1>7 DEF Posts, Answers, Answered, Marks, SendRuns, Steps
<1>8. ASSUME UNCHANGED <<step, pending_msgs, returned>> PROVE returned'
  BY <1>1, <1>8 DEF OnlyPutBackWaits
<1>9. ASSUME NEW c \in Connections, Opens(c) PROVE FALSE
  BY <1>9 DEF Opens
<1> QED
  BY <1>2, <1>3, <1>4, <1>5, <1>6, <1>7, <1>8, <1>9
  DEF OutboxNext, FlushStep, outbox_vars, box_vars, GivesUp, ClientRuns, ClientTurns

\* OnlyPutBackWaits of Outbox: a message that waits while the robot is connected and at
\* rest was put back; whoever queues it and whoever connects, one of them sees the other.
THEOREM NothingWaits == OutboxSpec => []OnlyPutBackWaits
<1>1. OutboxInv /\ [OutboxNext]_outbox_vars => OutboxInv'
  BY OutboxPlaces, OutboxSteps DEF OutboxInv
<1>2. OutboxInv /\ OnlyPutBackWaits /\ [OutboxNext]_outbox_vars => OnlyPutBackWaits'
  BY WaitsPreserved DEF OutboxInv
<1>3. OutboxInit => OnlyPutBackWaits
  BY DEF OutboxInit, OnlyPutBackWaits
<1> QED
  BY <1>1, <1>2, <1>3, OutboxInitially, PTL DEF OutboxSpec

-----------------------------------------------------------------------------
\* The connection under the outbox: WebLink knows no send on the client thread, Outbox
\* does.  It is harmless, as a send that was posted is.

LEMMA LinkUnderOutbox == Link /\ [OutboxNext]_outbox_vars => Link'
<1> SUFFICES ASSUME Link, [OutboxNext]_outbox_vars PROVE Link'
  OBVIOUS
<1>1. ASSUME [LinkNext]_link_vars PROVE Link'
  BY <1>1, LinkStep
<1>2. CASE ClientSends
  <2>1. send_to_web_now /\ UNCHANGED <<sender, late>>
    BY <1>2 DEF ClientSends
  <2>2. late \in Nat /\ sender \in [Threads -> {"idle", "waiting", "marking"}]
    BY DEF Link, LinkTypeOK
  <2> QED
    BY <2>1, <2>2, Sending
<1>3. ClientSends \/ [LinkNext]_link_vars
  BY DEF OutboxNext, outbox_vars, FlushStep, Says, FlushBegins, Take, PutBack, Posts, Answers,
     Marks, GivesUp, Opens, ClientRuns, ClientTurns, LinkNext, ConnectionStep
<1> QED
  BY <1>1, <1>2, <1>3

\* OneSession, FlagsHaveConnection, OneTimer and NeverStranded of WebLink, as the run of
\* the outbox checks them: with the threads that flush, and with sends on the client thread.
THEOREM LinkHoldsUnderOutbox ==
  OutboxSpec => [](OneSession /\ FlagsHaveConnection /\ OneTimer /\ NeverStranded)
<1>1. OutboxInit => Link
  BY LinkInitially DEF OutboxInit
<1>2. Link => OneSession /\ FlagsHaveConnection /\ OneTimer /\ NeverStranded
  BY DEF Link
<1> QED
  BY <1>1, <1>2, LinkUnderOutbox, PTL DEF OutboxSpec

-----------------------------------------------------------------------------
\* OutboxTypeOK of Outbox, which follows from the invariants above but for the flag.

\* Where a thread is and what it holds belong together, in the code nowhere written down:
\* a thread that sends, waits for its send or is about to put back has a message in its
\* hand, no other has, and a send is posted exactly while its thread is in it.
THEOREM OutboxTypeCorrect == OutboxSpec => []OutboxTypeOK
<1> DEFINE Inv == OutboxInv /\ Link /\ returned \in BOOLEAN
<1>1. OutboxInit => Inv
  <2>1. OutboxInit => LinkInit /\ returned \in BOOLEAN
    BY DEF OutboxInit
  <2> QED
    BY <2>1, OutboxInitially, LinkInitially
<1>2. Inv /\ [OutboxNext]_outbox_vars => Inv'
  <2>1. returned \in BOOLEAN /\ [OutboxNext]_outbox_vars => returned' \in BOOLEAN
    BY DEF OutboxNext, outbox_vars, box_vars, FlushStep, Says, FlushBegins, Take, PutBack,
       ClientSends, Posts, Answers, Marks, GivesUp, Opens, ClientRuns, ClientTurns
  <2> QED
    BY <2>1, OutboxPlaces, OutboxSteps, LinkUnderOutbox DEF OutboxInv
<1>3. Inv => OutboxTypeOK
  <2>1. InPlace => sent \in SUBSET Message
    BY DEF InPlace, Known
  <2> QED
    BY <2>1 DEF OutboxInv, InPlace, Steps, Link, OutboxTypeOK
<1> QED
  BY <1>1, <1>2, <1>3, PTL DEF OutboxSpec

-----------------------------------------------------------------------------
\* The outbox implements MessageStore.

\* A queue of Limit different messages is that many messages kept.
LEMMA QueueCounts ==
  ASSUME NEW S, NEW s \in Seq(S), Len(s) >= Limit,
         \A i, j \in 1 .. Len(s) : s[i] = s[j] => i = j,
         NEW K, \A i \in 1 .. Len(s) : s[i] \in K
  PROVE  Store!AtLeast(K, Limit)
<1>1. Limit \in Nat /\ Len(s) \in Nat /\ \A i \in 1 .. Limit : i \in 1 .. Len(s)
  BY LimitAssumption
<1> DEFINE f == [i \in 1 .. Limit |-> s[i]]
<1>2. f \in [1 .. Limit -> K]
  BY <1>1
<1>3. \A i, j \in 1 .. Limit : f[i] = f[j] => i = j
  BY <1>1
<1> HIDE DEF f
<1> QED
  BY <1>2, <1>3 DEF Store!AtLeast

InHand == {hand[t] : t \in {u \in Senders : hand[u] # NoMessage}}
InQueue(queue) == {queue[i] : i \in 1 .. Len(queue)}

LEMMA KeptPlaces == InPlace => Kept = InQueue(pending_msgs) \cup InHand
BY DEF InPlace, Kept, InQueue, InHand

\* What send_to_cloud() does to the queue, for the store: it keeps the message, gives up
\* positions for it, or gives it up itself, and in both cases the queue stays full.
LEMMA SaysToStore ==
  ASSUME InPlace, InPlace', NEW t \in Senders, NEW sort \in Sorts, Says(t, sort)
  PROVE  Store!Say(sort)
<1> DEFINE old == pending_msgs
           new == [sort |-> sort, nr |-> said[sort] + 1]
           queue == IF sort = "position" THEN Evict(old) ELSE old
           dropped == sort = "position" /\ Full(queue)
<1>1. /\ old \in Seq(Message) /\ Len(old) \in Nat /\ new \in Message /\ ~Known(new)
      /\ new.sort = sort
  <2>1. said[sort] \in Nat
    BY DEF InPlace
  <2>2. new \in Message
    BY <2>1 DEF Message
  <2>3. ~Known(new)
    BY <2>1 DEF Known
  <2> QED
    BY <2>2, <2>3 DEF InPlace
<1>2. PICK n \in 0 .. Len(old) :
        /\ queue = SubSeq(old, n + 1, Len(old))
        /\ \A k \in 1 .. n : old[k].sort = "position"
        /\ n > 0 => sort = "position" /\ Len(old) - n + 1 >= Limit
  <2>1. CASE sort = "position"
    BY <1>1, <2>1, PositionsEvicted
  <2>2. CASE sort # "position"
    <3>1. old = SubSeq(old, 0 + 1, Len(old))
      BY <1>1
    <3>2. 0 \in 0 .. Len(old) /\ (\A k \in 1 .. 0 : old[k].sort = "position") /\ ~(0 > 0)
      BY <1>1
    <3>3. queue = old
      BY <2>2
    <3> HIDE DEF queue, old
    <3> QED
      BY <3>1, <3>2, <3>3
  <2> QED
    BY <2>1, <2>2
<1>3. /\ said' = [said EXCEPT ![sort] = @ + 1] /\ UNCHANGED <<hand, sent>>
      /\ pending_msgs' = IF dropped THEN queue ELSE Append(queue, new)
  BY DEF Says
<1>4. dropped => sort = "position" /\ Len(queue) >= Limit
  BY DEF Full
<1> HIDE DEF queue, dropped
<1>5. /\ queue \in Seq(Message) /\ Len(queue) = Len(old) - n /\ Len(queue) \in Nat
      /\ \A k \in 1 .. Len(queue) : queue[k] = old[k + n] /\ k + n \in 1 .. Len(old)
  BY <1>1, <1>2, Suffix
<1> DEFINE gone == {old[k] : k \in 1 .. n}
           lost == gone \cup IF dropped THEN {new} ELSE {}
<1>6. /\ InQueue(old) = gone \cup InQueue(queue)
      /\ \A m \in gone : m.sort = "position" /\ m \notin InQueue(queue) /\ m \notin InHand
  <2>1. ASSUME NEW i \in 1 .. Len(old) PROVE old[i] \in gone \cup InQueue(queue)
    <3>1. CASE i \in 1 .. n
      BY <3>1
    <3>2. CASE i \notin 1 .. n
      <4>1. i - n \in 1 .. Len(queue) /\ (i - n) + n = i
        BY <1>5, <3>2
      <4> QED
        BY <1>5, <4>1 DEF InQueue
    <3> QED
      BY <3>1, <3>2
  <2>2. \A i \in 1 .. n : i \in 1 .. Len(old)
    BY <1>1
  <2>3. gone \cup InQueue(queue) \subseteq InQueue(old)
    BY <1>5, <2>2 DEF InQueue
  <2>4. ASSUME NEW k \in 1 .. n, NEW i \in 1 .. Len(queue) PROVE old[k] # queue[i]
    <3>1. queue[i] = old[i + n] /\ i + n \in 1 .. Len(old) /\ i + n # k
      BY <1>5
    <3> QED
      BY <2>2, <3>1 DEF InPlace, Queued
  <2>5. ASSUME NEW k \in 1 .. n PROVE old[k].sort = "position" /\ old[k] \notin InHand
    BY <1>2, <2>2 DEF InPlace, Queued, InHand
  <2> QED
    BY <2>1, <2>3, <2>4, <2>5 DEF InQueue
<1>7. new \notin InQueue(old) \cup InHand
  BY <1>1 DEF InPlace, Queued, InQueue, InHand
<1>8. InHand' = InHand
  BY <1>3 DEF InHand
<1>9. InQueue(pending_msgs') = InQueue(queue) \cup IF dropped THEN {} ELSE {new}
  <2>1. CASE dropped
    BY <1>3, <2>1
  <2>2. CASE ~dropped
    <3>1. /\ pending_msgs' \in Seq(Message) /\ Len(pending_msgs') = Len(queue) + 1
          /\ \A k \in 1 .. Len(queue) : pending_msgs'[k] = queue[k]
          /\ pending_msgs'[Len(queue) + 1] = new
      BY <1>1, <1>3, <1>5, <2>2, Longer
    <3>2. \A i : i \in 1 .. Len(queue) + 1 <=> i \in 1 .. Len(queue) \/ i = Len(queue) + 1
      BY <1>5
    <3> HIDE DEF new
    <3>3. InQueue(pending_msgs') \subseteq InQueue(queue) \cup {new}
      BY <3>1, <3>2 DEF InQueue
    <3>4. InQueue(queue) \cup {new} \subseteq InQueue(pending_msgs')
      BY <3>1, <3>2 DEF InQueue
    <3> QED
      BY <2>2, <3>3, <3>4
  <2> QED
    BY <2>1, <2>2
<1>10. Kept = InQueue(old) \cup InHand /\ Kept' = InQueue(pending_msgs') \cup InHand
  <2>1. Kept' = (InQueue(pending_msgs) \cup InHand)'
    BY DEF InPlace, Kept, InQueue, InHand
  <2>2. InQueue(pending_msgs)' = InQueue(pending_msgs')
    BY DEF InQueue
  <2> QED
    BY <1>8, <2>1, <2>2, KeptPlaces
<1>11. Kept' = (Kept \cup {new}) \ lost
  BY <1>6, <1>7, <1>9, <1>10
<1>12. lost \in SUBSET {p \in Kept \cup {new} : p.sort = "position"} /\ (lost # {} => sort = "position")
  <2>1. gone \subseteq Kept /\ \A m \in gone : m.sort = "position"
    BY <1>6, <1>10
  <2>2. gone # {} => sort = "position"
    BY <1>2
  <2>3. dropped => new.sort = "position"
    BY <1>1, <1>4
  <2> QED
    BY <1>4, <2>1, <2>2, <2>3
<1>13. ASSUME lost # {} PROVE Store!AtLeast(Kept', Limit)
  <2>1. Len(pending_msgs') >= Limit
    <3>1. CASE dropped
      BY <1>3, <1>4, <3>1
    <3>2. CASE ~dropped
      <4>1. n > 0
        BY <1>13, <3>2
      <4>2. pending_msgs' = Append(queue, new)
        BY <1>3, <3>2
      <4>3. Len(pending_msgs') = Len(queue) + 1
        BY <1>1, <1>5, <4>2, Longer
      <4> QED
        BY <1>2, <1>5, <4>1, <4>3
    <3> QED
      BY <3>1, <3>2
  <2>2. /\ pending_msgs' \in Seq(Message)
        /\ \A i, j \in 1 .. Len(pending_msgs') : pending_msgs'[i] = pending_msgs'[j] => i = j
    BY DEF InPlace, Queued
  <2>3. \A i \in 1 .. Len(pending_msgs') : pending_msgs'[i] \in Kept'
    BY <1>10 DEF InQueue
  <2> QED
    BY <2>1, <2>2, <2>3, QueueCounts
<1> HIDE DEF lost, new
<1>14. sort # "position" => lost = {}
  BY <1>12
<1> QED
  BY <1>3, <1>11, <1>12, <1>13, <1>14 DEF Store!Say, Store!Keep, new

\* A message that is sent leaves the hand and is nowhere else.
LEMMA AnsweredToStore ==
  ASSUME InPlace, Steps, NEW t \in Senders, step[t] \in {"send", "sending"}, NEW ok \in BOOLEAN,
         Answered(t, ok), UNCHANGED <<said, pending_msgs>>
  PROVE  [Store!StoreNext]_<<Kept, sent, said>>
<1> DEFINE m == hand[t]
<1>1. CASE ok
  <2>1. m # NoMessage
    BY DEF Steps
  <2>2. /\ sent' = sent \cup {m} /\ hand' = [hand EXCEPT ![t] = NoMessage]
    BY <1>1 DEF Answered
  <2>3. hand \in [Senders -> Message \cup {NoMessage}]
    BY DEF InPlace
  <2>4. InHand' = InHand \ {m}
    <3>1. \A u \in Senders : hand'[u] = IF u = t THEN NoMessage ELSE hand[u]
      BY <2>2, <2>3
    <3>2. \A u \in Senders : u # t /\ hand[u] # NoMessage => hand[u] # m
      BY <2>1 DEF InPlace
    <3>3. InHand' \subseteq InHand \ {m}
      BY <3>1, <3>2 DEF InHand
    <3>4. InHand \ {m} \subseteq InHand'
      BY <3>1, <3>2 DEF InHand
    <3> QED
      BY <3>3, <3>4
  <2>5. m \in InHand /\ m \notin InQueue(pending_msgs)
    BY <2>1 DEF InHand, InQueue, InPlace, Queued
  <2>6. Kept = InQueue(pending_msgs) \cup InHand /\ Kept' = InQueue(pending_msgs) \cup InHand'
    <3>1. Kept' = (InQueue(pending_msgs) \cup InHand)'
      BY DEF InPlace, Kept, InQueue, InHand
    <3> QED
      BY <3>1, KeptPlaces DEF InQueue
  <2>7. m \in Kept /\ Kept' = Kept \ {m}
    BY <2>4, <2>5, <2>6
  <2> HIDE DEF m
  <2>8. Store!Send(m)
    BY <2>2, <2>7 DEF Store!Send
  <2> QED
    BY <2>7, <2>8 DEF Store!StoreNext
<1>2. CASE ~ok
  BY <1>2 DEF Answered, Kept
<1> QED
  BY <1>1, <1>2

\* A message that is taken or put back changes its place, not the store.
LEMMA TakenStays ==
  ASSUME InPlace, Steps, NEW t \in Senders, Take(t)
  PROVE  Kept' = Kept
<1>1. CASE pending_msgs = << >>
  BY <1>1 DEF Take, Kept
<1>2. CASE pending_msgs # << >>
  <2> DEFINE old == pending_msgs
  <2>1. /\ old \in Seq(Message) /\ Len(old) \in Nat /\ Len(old) > 0
        /\ Head(old) = old[1] /\ Tail(old) \in Seq(Message) /\ Len(Tail(old)) = Len(old) - 1
        /\ \A k \in 1 .. Len(old) - 1 : Tail(old)[k] = old[k + 1]
    BY <1>2, Rest DEF InPlace
  <2>2. PICK first : first = old[1]
    OBVIOUS
  <2>3. /\ hand' = [hand EXCEPT ![t] = first] /\ pending_msgs' = Tail(old)
        /\ hand[t] = NoMessage
    BY <1>2, <2>1, <2>2 DEF Take, Steps
  <2>4. first \in Message /\ first # NoMessage /\ first \in InQueue(old)
    <3>1. 1 \in 1 .. Len(old)
      BY <2>1
    <3> QED
      BY <2>1, <2>2, <3>1, MessageSorts DEF InQueue
  <2>5. InHand' = InHand \cup {first}
    <3>1. \A u \in Senders : hand'[u] = IF u = t THEN first ELSE hand[u]
      BY <2>3 DEF InPlace
    <3>2. InHand' \subseteq InHand \cup {first}
      BY <3>1 DEF InHand
    <3>3. InHand \cup {first} \subseteq InHand'
      BY <2>3, <2>4, <3>1 DEF InHand
    <3> QED
      BY <3>2, <3>3
  <2>6. InQueue(old) = InQueue(pending_msgs') \cup {first}
    <3>1. ASSUME NEW i \in 1 .. Len(old) PROVE old[i] \in InQueue(pending_msgs') \cup {first}
      <4>1. CASE i = 1
        BY <2>2, <4>1
      <4>2. CASE i # 1
        <5>1. i - 1 \in 1 .. Len(old) - 1 /\ (i - 1) + 1 = i
          BY <2>1, <4>2
        <5> QED
          BY <2>1, <2>3, <5>1 DEF InQueue
      <4> QED
        BY <4>1, <4>2
    <3>2. ASSUME NEW i \in 1 .. Len(old) - 1 PROVE Tail(old)[i] \in InQueue(old)
      <4>1. i + 1 \in 1 .. Len(old)
        BY <2>1
      <4> QED
        BY <2>1, <4>1 DEF InQueue
    <3>3. InQueue(pending_msgs') \subseteq InQueue(old)
      BY <2>1, <2>3, <3>2 DEF InQueue
    <3>4. InQueue(old) \subseteq InQueue(pending_msgs') \cup {first}
      BY <3>1 DEF InQueue
    <3> QED
      BY <2>4, <3>3, <3>4
  <2>7. Kept' = InQueue(pending_msgs') \cup InHand'
    <3>1. pending_msgs' \in Seq(Message)
      BY <2>1, <2>3
    <3>2. DOMAIN pending_msgs' = 1 .. Len(pending_msgs')
      BY <3>1
    <3> QED
      BY <3>2 DEF Kept, InQueue, InHand
  <2> QED
    BY <2>5, <2>6, <2>7, KeptPlaces
<1> QED
  BY <1>1, <1>2

LEMMA PutBackStays ==
  ASSUME InPlace, Steps, NEW t \in Senders, PutBack(t)
  PROVE  Kept' = Kept
<1> DEFINE old == pending_msgs
<1>1. PICK first : first = hand[t]
  OBVIOUS
<1>2. /\ first \in Message /\ first # NoMessage /\ first \in InHand
      /\ hand' = [hand EXCEPT ![t] = NoMessage] /\ pending_msgs' = <<first>> \o old
  BY <1>1 DEF PutBack, Steps, InPlace, InHand
<1>3. /\ old \in Seq(Message) /\ Len(old) \in Nat
      /\ pending_msgs' \in Seq(Message) /\ Len(pending_msgs') = Len(old) + 1
      /\ pending_msgs'[1] = first
      /\ \A k \in 2 .. Len(old) + 1 : pending_msgs'[k] = old[k - 1]
  BY <1>2, InFront DEF InPlace
<1>4. InHand = InHand' \cup {first}
  <2>1. \A u \in Senders : hand'[u] = IF u = t THEN NoMessage ELSE hand[u]
    BY <1>2 DEF InPlace
  <2>2. InHand' \subseteq InHand
    BY <2>1 DEF InHand
  <2>3. InHand \subseteq InHand' \cup {first}
    BY <1>1, <2>1 DEF InHand
  <2> QED
    BY <1>2, <2>2, <2>3
<1>5. InQueue(pending_msgs') = InQueue(old) \cup {first}
  <2>1. ASSUME NEW i \in 1 .. Len(pending_msgs')
        PROVE  pending_msgs'[i] \in InQueue(old) \cup {first}
    <3>1. CASE i = 1
      BY <1>3, <3>1
    <3>2. CASE i # 1
      <4>1. i \in 2 .. Len(old) + 1 /\ i - 1 \in 1 .. Len(old)
        BY <1>3, <3>2
      <4> QED
        BY <1>3, <4>1 DEF InQueue
    <3> QED
      BY <3>1, <3>2
  <2>2. ASSUME NEW i \in 1 .. Len(old) PROVE old[i] \in InQueue(pending_msgs')
    <3>1. i + 1 \in 2 .. Len(old) + 1 /\ i + 1 \in 1 .. Len(pending_msgs') /\ (i + 1) - 1 = i
      BY <1>3
    <3> QED
      BY <1>3, <3>1 DEF InQueue
  <2>3. first \in InQueue(pending_msgs')
    <3>1. 1 \in 1 .. Len(pending_msgs')
      BY <1>3
    <3> QED
      BY <1>3, <3>1 DEF InQueue
  <2>4. InQueue(pending_msgs') \subseteq InQueue(old) \cup {first}
    BY <2>1 DEF InQueue
  <2>5. InQueue(old) \subseteq InQueue(pending_msgs')
    BY <2>2 DEF InQueue
  <2> QED
    BY <2>3, <2>4, <2>5
<1>6. Kept' = InQueue(pending_msgs') \cup InHand'
  BY <1>3 DEF Kept, InQueue, InHand
<1> QED
  BY <1>4, <1>5, <1>6, KeptPlaces

LEMMA OutboxStepOfStore ==
  OutboxInv /\ OutboxInv' /\ [OutboxNext]_outbox_vars => [Store!StoreNext]_<<Kept, sent, said>>
<1> SUFFICES ASSUME InPlace, InPlace', Steps, [OutboxNext]_outbox_vars
             PROVE  [Store!StoreNext]_<<Kept, sent, said>>
  BY DEF OutboxInv
<1>1. ASSUME NEW t \in Senders, NEW sort \in Sorts, Says(t, sort)
      PROVE  [Store!StoreNext]_<<Kept, sent, said>>
  BY <1>1, SaysToStore DEF Store!StoreNext
<1>2. ASSUME NEW t \in Senders, Take(t) \/ PutBack(t)
      PROVE  [Store!StoreNext]_<<Kept, sent, said>>
  <2>1. UNCHANGED <<sent, said>>
    BY <1>2 DEF Take, PutBack
  <2> QED
    BY <1>2, <2>1, TakenStays, PutBackStays
<1>3. CASE ClientSends
  <2>1. Client \in Senders /\ Accepts \in BOOLEAN
    BY DEF Senders, Accepts
  <2> QED
    BY <1>3, <2>1, AnsweredToStore DEF ClientSends
<1>4. ASSUME NEW t \in Threads, Answers(t) PROVE [Store!StoreNext]_<<Kept, sent, said>>
  <2>1. t \in Senders /\ Accepts \in BOOLEAN /\ step[t] = "sending"
    BY <1>4 DEF Senders, Accepts, Answers, SendRuns, Steps
  <2> QED
    BY <1>4, <2>1, AnsweredToStore DEF Answers
<1>5. ASSUME UNCHANGED <<pending_msgs, hand, said, sent>>
      PROVE  [Store!StoreNext]_<<Kept, sent, said>>
  BY <1>5 DEF Kept
<1> QED
  BY <1>1, <1>2, <1>3, <1>4, <1>5 DEF OutboxNext, FlushStep, outbox_vars, box_vars,
     FlushBegins, Posts, GivesUp, Marks, Opens, ClientRuns, ClientTurns

\* ImplementsStore of Outbox: the outbox with its threads, timeouts and reconnections is
\* a store that keeps every message until it is sent, for any number of threads and any
\* limit, and gives up a position only for another one and when it is full.
THEOREM OutboxImplementsStore == OutboxSpec => ImplementsStore
<1>1. OutboxInit => Store!StoreInit
  BY DEF OutboxInit, Store!StoreInit, Kept
<1>2. OutboxInv /\ [OutboxNext]_outbox_vars => OutboxInv'
  BY OutboxPlaces, OutboxSteps DEF OutboxInv
<1> QED
  BY <1>1, <1>2, OutboxInitially, OutboxStepOfStore, PTL
  DEF OutboxSpec, ImplementsStore, Store!StoreSpec
=============================================================================
