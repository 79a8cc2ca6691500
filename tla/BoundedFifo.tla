---------------------------- MODULE BoundedFifo -----------------------------
(***************************************************************************)
(* What a set of links promises the apps: each link is a first-in          *)
(* first-out queue of at most Capacity packets, a packet is on at most one *)
(* queue, and a packet is refused, and counted as lost, only by a full     *)
(* queue.  There is no ring, no cursor and no freelist here.               *)
(***************************************************************************)
EXTENDS Integers, Sequences

CONSTANTS Links, Packets, Capacity

VARIABLES queue, lost

fifoVars == <<queue, lost>>


Waiting(p) == \E l \in Links : \E i \in DOMAIN queue[l] : queue[l][i] = p

Init ==
  /\ queue = [l \in Links |-> <<>>]
  /\ lost = [l \in Links |-> 0]

Enqueue(l, p) ==
  /\ ~Waiting(p)
  /\ Len(queue[l]) < Capacity
  /\ queue' = [queue EXCEPT ![l] = Append(@, p)]
  /\ UNCHANGED lost

Refuse(l) ==
  /\ Len(queue[l]) = Capacity
  /\ lost' = [lost EXCEPT ![l] = @ + 1]
  /\ UNCHANGED queue

Dequeue(l) ==
  /\ queue[l] # <<>>
  /\ queue' = [queue EXCEPT ![l] = Tail(@)]
  /\ UNCHANGED lost

\* An empty link is disposed of, and its statistics with it.
Dispose(l) ==
  /\ queue[l] = <<>>
  /\ lost' = [lost EXCEPT ![l] = 0]
  /\ UNCHANGED queue

Next ==
  \E l \in Links : \/ \E p \in Packets : Enqueue(l, p)
                   \/ Refuse(l)
                   \/ Dequeue(l)
                   \/ Dispose(l)

Spec == Init /\ [][Next]_fifoVars

=============================================================================
