------------------------------- MODULE Outbox -------------------------------
(***************************************************************************)
(* The outbox of CommandExecutor, src/CommandExecutor.cc, on the           *)
(* connection of WebLink: send_to_cloud() queues a message and then tries  *)
(* to flush the queue, on whatever thread it is called; on_client_open()   *)
(* flushes it on the client thread.  msg_mutex_ guards the queue and is    *)
(* not held while a message is sent, so several threads flush at a time,   *)
(* each with a message in its hand.                                        *)
(*                                                                         *)
(* There are two sorts of messages: the positions, which may be dropped,   *)
(* and the others.  The third sort the code knows, robot_state_info, is    *)
(* sent by nobody.  A message is its sort and its number.  A send that  *)
(* is given up may still run, as LateSendRuns, and then the server gets    *)
(* the message although it is kept; sent holds what was sent and answered. *)
(***************************************************************************)
EXTENDS WebLink, Sequences, FiniteSets

CONSTANTS
  Client,       \* the client thread
  Limit,        \* kMaxPendingMsgs
  MaxResults, MaxPositions  \* bounds: how many messages of each sort there are

ASSUME ClientAssumption == Client \notin Threads
ASSUME LimitAssumption == Limit \in Nat \ {0}
ASSUME SaidAssumption == MaxResults \in Nat /\ MaxPositions \in Nat

Sorts == {"result", "position"}
Message == [sort : Sorts, nr : Nat \ {0}]
NoMessage == [sort |-> "none", nr |-> 0]
Senders == Threads \cup {Client}

VARIABLES
  pending_msgs,  \* pending_msgs_
  step,          \* where a thread is in send_to_cloud() and try_flush_msgs()
  hand,          \* the message it took and has not sent yet
  said,          \* how many messages of each sort there were
  sent,          \* history: the messages that an open connection took in time
  returned       \* history: one was put back since the queue was last seen empty

box_vars == <<pending_msgs, step, hand, said, sent, returned>>
outbox_vars == <<link_vars, box_vars>>

OutboxTypeOK ==
  /\ LinkTypeOK
  /\ pending_msgs \in Seq(Message)
  /\ step \in [Senders -> {"idle", "flush", "take", "send", "sending", "back"}]
  /\ hand \in [Senders -> Message \cup {NoMessage}]
  /\ said \in [Sorts -> Nat]
  /\ sent \in SUBSET Message
  /\ returned \in BOOLEAN
  /\ \A t \in Threads : step[t] = "sending" <=> sender[t] # "idle"
  /\ \A t \in Senders : hand[t] # NoMessage <=> step[t] \in {"send", "sending", "back"}

OutboxInit ==
  /\ LinkInit
  /\ pending_msgs = <<>>
  /\ step = [t \in Senders |-> "idle"]
  /\ hand = [t \in Senders |-> NoMessage]
  /\ said = [s \in Sorts |-> 0]
  /\ sent = {}
  /\ returned = FALSE

-----------------------------------------------------------------------------
\* Queueing.

\* Mutant: there is taken to be no room for the last message.
FullEarly(queue) == Len(queue) + 1 >= Limit

Full(queue) == Len(queue) >= Limit

\* Mutant: a position makes room by dropping whatever is at the front.
EvictAny(queue) == IF Full(queue) THEN Tail(queue) ELSE queue

\* What is left when positions are dropped from the front of a full queue, up to the
\* first message of another sort.
Evict(queue) ==
  LET Stops(n) == \/ Len(queue) - n < Limit
                  \/ queue[n + 1].sort # "position"
      n == CHOOSE k \in 0..Len(queue) : Stops(k) /\ \A i \in 0..k : Stops(i) => i = k
  IN  SubSeq(queue, n + 1, Len(queue))

\* send_to_cloud() up to the flush.  A position for which there is no room is dropped,
\* and then nothing is flushed; the client thread has none to say.
Says(t, sort) ==
  /\ step[t] = "idle"
  /\ t = Client => sort = "result"
  /\ said[sort] < IF sort = "result" THEN MaxResults ELSE MaxPositions
  /\ said' = [said EXCEPT ![sort] = @ + 1]
  /\ LET queue   == IF sort = "position" THEN Evict(pending_msgs) ELSE pending_msgs
         dropped == sort = "position" /\ Full(queue)
     IN  /\ pending_msgs' = IF dropped THEN queue
                            ELSE Append(queue, [sort |-> sort, nr |-> said[sort] + 1])
         /\ step' = IF dropped THEN step ELSE [step EXCEPT ![t] = "flush"]
  /\ UNCHANGED <<link_vars, hand, sent, returned>>

-----------------------------------------------------------------------------
\* Flushing: the connection is asked once, then a message is taken at a time.

FlushBegins(t) ==
  /\ step[t] = "flush"
  /\ step' = [step EXCEPT ![t] = IF webserver_connected THEN "take" ELSE "idle"]
  /\ UNCHANGED <<link_vars, pending_msgs, hand, said, sent, returned>>

Take(t) ==
  /\ step[t] = "take"
  /\ IF pending_msgs = <<>>
     THEN /\ step' = [step EXCEPT ![t] = "idle"]
          /\ returned' = FALSE
          /\ UNCHANGED <<pending_msgs, hand>>
     ELSE /\ hand' = [hand EXCEPT ![t] = Head(pending_msgs)]
          /\ pending_msgs' = Tail(pending_msgs)
          /\ step' = [step EXCEPT ![t] = "send"]
          /\ UNCHANGED returned
  /\ UNCHANGED <<link_vars, said, sent>>

\* A send on the client thread finds what send_to_web_now() of WebLink asks for.
Accepts == webserver_connected /\ Current = "open"

\* Mutant: a flush sends one message only.
AnsweredOnce(t, ok) ==
  IF ok
  THEN /\ sent' = sent \cup {hand[t]}
       /\ hand' = [hand EXCEPT ![t] = NoMessage]
       /\ step' = [step EXCEPT ![t] = "idle"]
  ELSE /\ step' = [step EXCEPT ![t] = "back"]
       /\ UNCHANGED <<sent, hand>>

\* The answer of sendToWeb() to the thread that flushes.
Answered(t, ok) ==
  IF ok
  THEN /\ sent' = sent \cup {hand[t]}
       /\ hand' = [hand EXCEPT ![t] = NoMessage]
       /\ step' = [step EXCEPT ![t] = "take"]
  ELSE /\ step' = [step EXCEPT ![t] = "back"]
       /\ UNCHANGED <<sent, hand>>

\* sendToWeb() on another thread.
Posts(t) ==
  /\ step[t] = "send"
  /\ \/ /\ SendPosted(t)
        /\ step' = [step EXCEPT ![t] = "sending"]
     \/ /\ ~webserver_connected
        /\ step' = [step EXCEPT ![t] = "back"]
        /\ UNCHANGED link_vars
  /\ UNCHANGED <<pending_msgs, hand, said, sent, returned>>

\* sendToWeb() on the client thread, where nothing is posted.
ClientSends ==
  /\ step[Client] = "send"
  /\ send_to_web_now
  /\ Answered(Client, Accepts)
  /\ UNCHANGED <<sender, late, pending_msgs, said, returned>>

\* The posted send runs while its thread still waits.
Answers(t) ==
  /\ step[Client] = "idle"
  /\ SendRuns(t)
  /\ Answered(t, Accepts)
  /\ UNCHANGED <<pending_msgs, said, returned>>

\* Two seconds are over: the thread gives up, what it posted does not.
GivesUp(t) ==
  /\ SendTimesOut(t)
  /\ UNCHANGED box_vars

Marks(t) ==
  /\ MarkedDisconnected(t)
  /\ step' = [step EXCEPT ![t] = "back"]
  /\ UNCHANGED <<pending_msgs, hand, said, sent, returned>>

\* The message goes to the front again and the flush ends, whatever the connection has
\* become in between.
PutBack(t) ==
  /\ step[t] = "back"
  /\ pending_msgs' = <<hand[t]>> \o pending_msgs
  /\ hand' = [hand EXCEPT ![t] = NoMessage]
  /\ step' = [step EXCEPT ![t] = "idle"]
  /\ returned' = TRUE
  /\ UNCHANGED <<link_vars, said, sent>>

-----------------------------------------------------------------------------
\* The connection: the client thread is busy as long as it flushes.

\* Mutant: setGateway() registers no callback.
OpensQuietly(c) ==
  /\ step[Client] = "idle"
  /\ ClientOpens(c)
  /\ UNCHANGED box_vars

\* on_client_open() with the callback of setGateway().
Opens(c) ==
  /\ step[Client] = "idle"
  /\ ClientOpens(c)
  /\ step' = [step EXCEPT ![Client] = "flush"]
  /\ UNCHANGED <<pending_msgs, hand, said, sent, returned>>

ClientRuns(c) ==
  /\ step[Client] = "idle"
  /\ UNCHANGED box_vars
  /\ ConnectionLost(c) \/ ConnectionLostHandled(c)

ClientTurns ==
  /\ step[Client] = "idle"
  /\ UNCHANGED box_vars
  /\ PostedStep \/ ReconnectTimerFires

\* A thread that says nothing new, waiting for an answer included.
FlushStep(t) ==
  \/ FlushBegins(t) \/ Take(t) \/ PutBack(t)
  \/ t = Client /\ ClientSends
  \/ t \in Threads /\ (Posts(t) \/ Answers(t) \/ Marks(t))

OutboxNext ==
  \/ \E t \in Senders : FlushStep(t) \/ \E sort \in Sorts : Says(t, sort)
  \/ \E t \in Threads : GivesUp(t)
  \/ \E c \in Connections : Opens(c) \/ ClientRuns(c)
  \/ ClientTurns

OutboxSpec == OutboxInit /\ [][OutboxNext]_outbox_vars

\* As in WebLink: the client thread runs what is posted and every timer that is over,
\* and websocketpp ends a handshake and a goodbye; and a thread that flushes goes on.
OutboxFairness ==
  /\ WF_outbox_vars(ClientTurns /\ PostedStep)
  /\ WF_outbox_vars(ClientTurns /\ ReconnectTimerFires)
  /\ \A c \in Connections : WF_outbox_vars(Opens(c) \/ (conn[c] # "open" /\ ClientRuns(c)))
  /\ \A t \in Senders : WF_outbox_vars(FlushStep(t))

FairOutboxSpec == OutboxSpec /\ OutboxFairness

-----------------------------------------------------------------------------
(***************************************************************************)
(* Safety.                                                                 *)
(***************************************************************************)

Said == UNION {{[sort |-> s, nr |-> n] : n \in 1..said[s]} : s \in Sorts}

Places(m) == {i \in DOMAIN pending_msgs : pending_msgs[i] = m}
Holders(m) == {t \in Senders : hand[t] = m}

\* Nothing but a position is lost and nothing is kept twice, however the threads that
\* flush, time out and put back overlap: a message that was said is in one place of the
\* queue, or in one hand, or was sent.  So the server gets a message twice for one reason
\* only, a send that was given up and ran after all.
KeptOnce ==
  \A m \in Said :
    LET kept == Cardinality(Places(m)) + Cardinality(Holders(m))
    IN  /\ kept <= IF m \in sent THEN 0 ELSE 1
        /\ kept = 0 => m \in sent \/ m.sort = "position"

\* A message never waits for lack of a flush: one thread queues and then asks for the
\* connection, the other raises the flag and then looks at the queue.  When a connected
\* robot is at rest, only a message that was put back can have left something waiting.
OnlyPutBackWaits ==
  /\ webserver_connected
  /\ \A t \in Senders : step[t] = "idle"
  /\ pending_msgs # <<>>
  => returned

\* Where the messages are is all that MessageStore wants to know.
Kept == {pending_msgs[i] : i \in DOMAIN pending_msgs}
          \cup {hand[t] : t \in {u \in Senders : hand[u] # NoMessage}}

Store == INSTANCE MessageStore WITH kept <- Kept

\* Every step of the outbox, of the connection and of the threads that flush says one
\* message, sends one that is kept, or changes nothing: none is moved, put back or
\* overtaken in such a way that it is lost, doubled, or given up while there is room.
ImplementsStore == Store!StoreSpec

-----------------------------------------------------------------------------
(***************************************************************************)
(* Liveness, under FairOutboxSpec.                                         *)
(***************************************************************************)

\* What is queued is sent, unless the connection is lost or a message comes back.
Flows == pending_msgs # <<>> ~> \/ pending_msgs = <<>>
                                \/ returned
                                \/ ~webserver_connected
=============================================================================
