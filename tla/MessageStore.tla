---------------------------- MODULE MessageStore ----------------------------
(***************************************************************************)
(* What the outbox promises to whoever calls send_to_cloud(), without how: *)
(* a message is kept until it has been sent, and a position is given up    *)
(* instead only when Limit other messages are kept, at the moment another  *)
(* position is said.  Nothing is given up for any other reason: not        *)
(* because a send failed, came too late or was overtaken by another.       *)
(***************************************************************************)
EXTENDS Naturals

CONSTANTS Sorts, Limit

VARIABLES
  kept,  \* the messages that are neither sent nor given up
  sent,  \* those that a connection took
  said   \* how many messages of each sort there were

\* S has n different members.
AtLeast(S, n) == \E f \in [1 .. n -> S] : \A i, j \in 1 .. n : f[i] = f[j] => i = j

Keep(m, lost) ==
  /\ kept' = (kept \cup {m}) \ lost
  /\ lost # {} => AtLeast(kept', Limit)

\* What is lost are positions, the new one perhaps, and for a new position only.
Say(sort) ==
  LET m == [sort |-> sort, nr |-> said[sort] + 1]
  IN  /\ said' = [said EXCEPT ![sort] = @ + 1]
      /\ \E lost \in SUBSET {p \in kept \cup {m} : p.sort = "position"} :
           /\ sort # "position" => lost = {}
           /\ Keep(m, lost)
      /\ UNCHANGED sent

Send(m) ==
  /\ m \in kept
  /\ kept' = kept \ {m}
  /\ sent' = sent \cup {m}
  /\ UNCHANGED said

StoreInit == kept = {} /\ sent = {} /\ said = [s \in Sorts |-> 0]

StoreNext == (\E sort \in Sorts : Say(sort)) \/ (\E m \in kept : Send(m))

StoreSpec == StoreInit /\ [][StoreNext]_<<kept, sent, said>>
=============================================================================
