----------------------------- MODULE EventQueue -----------------------------
(***************************************************************************)
(* What the player promises of its event records (player.h, SetEventSignal *)
(* and GetEventRecord): they wait in the order in which they were          *)
(* signalled, GetEventRecord gives the oldest that matches its criteria    *)
(* and gives it once, and a record is dropped only for lack of room, the   *)
(* oldest first.  PlayerEvents implements this specification.              *)
(***************************************************************************)
EXTENDS Naturals, Sequences, SequencesExt

CONSTANTS
  Threads,    \* the threads that collect records
  Kinds,      \* what criteria tell apart in a record
  Capacity    \* PLAYER_MAX_OUTSTANDING_EVENTS

VARIABLES
  queue,      \* the records not collected, oldest first
  wanted      \* the criteria of each thread's call: the kinds that match

queueVars == <<queue, wanted>>

Init ==
  /\ queue = << >>
  /\ wanted = [t \in Threads |-> {}]

Put(k) ==
  /\ Len(queue) < Capacity
  /\ queue' = Append(queue, k)
  /\ UNCHANGED wanted

DropOldest ==
  /\ Len(queue) = Capacity
  /\ queue' = Tail(queue)
  /\ UNCHANGED wanted

Ask(t, criteria) ==
  /\ wanted' = [wanted EXCEPT ![t] = criteria]
  /\ UNCHANGED queue

Collect(t) ==
  \E i \in 1 .. Len(queue) :
    /\ queue[i] \in wanted[t]
    /\ \A j \in 1 .. i - 1 : queue[j] \notin wanted[t]
    /\ queue' = RemoveAt(queue, i)
    /\ wanted' = [wanted EXCEPT ![t] = {}]

Next ==
  \/ \E k \in Kinds : Put(k)
  \/ DropOldest
  \/ \E t \in Threads : Collect(t) \/ \E c \in SUBSET Kinds : Ask(t, c)

Spec == Init /\ [][Next]_queueVars
=============================================================================
