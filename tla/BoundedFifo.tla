---------------------------- MODULE BoundedFifo ----------------------------
(***************************************************************************)
(* What class Ring_c promises its users: a first-in first-out store of at  *)
(* most Capacity words.  Every operation happens at one instant, whatever  *)
(* the number of threads, and what it reports agrees with the store at     *)
(* that instant.  RingGeneric implements this specification.               *)
(***************************************************************************)
EXTENDS Naturals, Sequences

CONSTANTS
  Threads,    \* the threads that use the ring
  Values,     \* the words it stores
  Capacity,   \* the MaxEntries the ring was constructed with
  None        \* no thread, no word

VARIABLES
  queue,      \* the words in the ring, oldest first
  report      \* the operation that last took effect

fifoVars == <<queue, report>>

NoError        == "RingNoError"
TooManyEntries == "RingTooManyEntries"
NothingToGet   == "RingNothingToGet"

Report(t, s, w) == report' = [thread |-> t, status |-> s, word |-> w]

Init ==
  /\ queue  = << >>
  /\ report = [thread |-> None, status |-> NoError, word |-> None]

Put(t, v) ==
  /\ Len(queue) < Capacity
  /\ queue' = Append(queue, v)
  /\ Report(t, NoError, None)

Refuse(t) ==
  /\ Len(queue) = Capacity
  /\ Report(t, TooManyEntries, None)
  /\ UNCHANGED queue

Get(t) ==
  /\ queue # << >>
  /\ queue' = Tail(queue)
  /\ Report(t, NoError, Head(queue))

Nothing(t) ==
  /\ queue = << >>
  /\ Report(t, NothingToGet, None)
  /\ UNCHANGED queue

Clear(t) ==
  /\ queue' = << >>
  /\ Report(t, NoError, None)

Next ==
  \E t \in Threads :
    \/ \E v \in Values : Put(t, v)
    \/ Refuse(t) \/ Get(t) \/ Nothing(t) \/ Clear(t)

Spec == Init /\ [][Next]_fifoVars
=============================================================================
