---------------------------- MODULE RingGeneric ----------------------------
(***************************************************************************)
(* class RingGeneric_c (components/infrastructure/ring_generic.cpp): a     *)
(* circular store protected by a mutex, with a manual-reset event on which *)
(* an extractor of an empty ring blocks.  The rings between the player's   *)
(* processes and the free list of every buffer pool are such rings.        *)
(*                                                                         *)
(* A step is a stretch of code between two points at which another thread  *)
(* can see or change what it uses.  Extract tests NextExtract/NextInsert   *)
(* and NonEmpty reads them WITHOUT the lock, so the intermediate values    *)
(* that Insert and Extract store in them are states of this model; Insert  *)
(* sets the event only after it gave the lock back.                        *)
(*                                                                         *)
(* The words stored are buffer pointers: a word its clients hold is in     *)
(* `loose', and a client inserts only a word it holds.                     *)
(***************************************************************************)
EXTENDS Integers, Sequences

CONSTANTS
  Inserters,    \* the threads that call Insert
  Extractors,   \* the threads that call Extract, Flush and NonEmpty
  Values,       \* the words that go through the ring
  MaxEntries,   \* the constructor's argument
  Periods,      \* the blocking periods extractors use
  None          \* no thread, no word

Threads == Inserters \cup Extractors

ASSUME RingAssumption ==
  /\ Inserters \cap Extractors = {}
  /\ MaxEntries \in Nat \ {0}
  /\ Periods \subseteq {"none", "finite", "infinite"}
  /\ None \notin Values
  /\ None \notin Threads

Limit == MaxEntries + 1

VARIABLES
  storage,      \* Storage
  nextInsert,   \* NextInsert
  nextExtract,  \* NextExtract
  lock,         \* the thread that holds Lock
  valid,        \* the Valid flag of the event Signal
  pc,           \* where each thread is in its operation
  arg,          \* the word a thread is inserting, or has extracted
  old,          \* OldNextInsert, a local of Insert
  period,       \* BlockingPeriod, an argument of Extract
  report,       \* the operation that last took effect: thread, report, word
  loose,        \* the words held by clients
  promised      \* the extractors NonEmpty told TRUE, until they extract

ringVars == <<storage, nextInsert, nextExtract, lock, valid>>
vars == <<ringVars, pc, arg, old, period, report, loose, promised>>

Goto(t, l)   == pc' = [pc EXCEPT ![t] = l]
At(t, l)     == pc[t] = l
Report(t, s, w) == report' = [thread |-> t, status |-> s, word |-> w]
Return(t)    == /\ Goto(t, "idle")                  \* its locals are gone
                /\ arg' = [arg EXCEPT ![t] = None]
                /\ old' = [old EXCEPT ![t] = 0]
                /\ period' = [period EXCEPT ![t] = "none"]
Wrap(n)      == IF n = Limit THEN 0 ELSE n

Init ==
  /\ storage = [n \in 0 .. Limit - 1 |-> None]
  /\ nextInsert = 0 /\ nextExtract = 0
  /\ lock = None
  /\ valid = FALSE
  /\ pc = [t \in Threads |-> "idle"]
  /\ arg = [t \in Threads |-> None]
  /\ old = [t \in Threads |-> 0]
  /\ period = [t \in Threads |-> "none"]
  /\ report = [thread |-> None, status |-> "RingNoError", word |-> None]
  /\ loose = Values
  /\ promised = {}

(***************************************************************************)
(* What the ring holds, oldest word first.  An insertion takes effect when *)
(* it gives the lock back (until then the ring ends at the index saved in  *)
(* OldNextInsert), an extraction when it advances NextExtract.             *)
(***************************************************************************)
InsertIndex  == IF lock \in Inserters THEN old[lock] ELSE nextInsert
ExtractIndex == Wrap(nextExtract)

Count == IF ExtractIndex <= InsertIndex
         THEN InsertIndex - ExtractIndex
         ELSE InsertIndex - ExtractIndex + Limit

Slot(k) == IF ExtractIndex + k - 1 < Limit
           THEN ExtractIndex + k - 1
           ELSE ExtractIndex + k - 1 - Limit

Queue == [k \in 1 .. Count |-> storage[Slot(k)]]

(***************************************************************************)
(* Insert                                                                  *)
(***************************************************************************)
Insert(i, v) ==
  /\ At(i, "idle") /\ v \in loose
  /\ arg' = [arg EXCEPT ![i] = v]
  /\ loose' = loose \ {v}
  /\ Goto(i, "store")
  /\ UNCHANGED <<ringVars, old, period, report, promised>>

InsertStore(i) ==
  /\ At(i, "store") /\ lock = None
  /\ lock' = i
  /\ old' = [old EXCEPT ![i] = nextInsert]
  /\ storage' = [storage EXCEPT ![nextInsert] = arg[i]]
  /\ nextInsert' = nextInsert + 1
  /\ Goto(i, "wrap")
  /\ UNCHANGED <<nextExtract, valid, arg, period, report, loose, promised>>

InsertWrap(i) ==
  /\ At(i, "wrap")
  /\ nextInsert' = Wrap(nextInsert)
  /\ Goto(i, "test")
  /\ UNCHANGED <<storage, nextExtract, lock, valid, arg, old, period, report,
                 loose, promised>>

\* Mutant: OldNextInsert is not restored
InsertRefusedNoUndo(i) ==
  /\ At(i, "test") /\ nextInsert = nextExtract
  /\ lock' = None
  /\ Report(i, "RingTooManyEntries", None)
  /\ loose' = loose \cup {arg[i]}
  /\ Return(i)
  /\ UNCHANGED <<storage, nextInsert, nextExtract, valid, promised>>

InsertRefused(i) ==
  /\ At(i, "test") /\ nextInsert = nextExtract
  /\ nextInsert' = old[i]
  /\ lock' = None
  /\ Report(i, "RingTooManyEntries", None)
  /\ loose' = loose \cup {arg[i]}
  /\ Return(i)
  /\ UNCHANGED <<storage, nextExtract, valid, promised>>

InsertAccepted(i) ==
  /\ At(i, "test") /\ nextInsert # nextExtract
  /\ lock' = None
  /\ Report(i, "RingNoError", None)
  /\ Goto(i, "signal")
  /\ UNCHANGED <<storage, nextInsert, nextExtract, valid, arg, old, period,
                 loose, promised>>

\* Mutant: the event is not set
InsertSilent(i) ==
  /\ At(i, "signal")
  /\ Return(i)
  /\ UNCHANGED <<ringVars, report, loose, promised>>

InsertSignal(i) ==
  /\ At(i, "signal")
  /\ valid' = TRUE
  /\ Return(i)
  /\ UNCHANGED <<storage, nextInsert, nextExtract, lock, report, loose,
                 promised>>

(***************************************************************************)
(* Extract.  The period is "none" for RING_NONE_BLOCKING, "infinite" for   *)
(* OS_INFINITE and "finite" for any other: only a finite wait times out.   *)
(***************************************************************************)
Extract(e, p) ==
  /\ At(e, "idle")
  /\ period' = [period EXCEPT ![e] = p]
  /\ valid' = FALSE
  /\ Goto(e, "peek")
  /\ UNCHANGED <<storage, nextInsert, nextExtract, lock, arg, old, report,
                 loose, promised>>

ExtractPeek(e) ==
  /\ At(e, "peek")
  /\ Goto(e, IF nextExtract = nextInsert /\ period[e] # "none"
             THEN "wait" ELSE "take")
  /\ UNCHANGED <<ringVars, arg, old, period, report, loose, promised>>

\* Mutant: a woken extractor waits again
ExtractWakeAndWait(e) ==
  /\ At(e, "wait") /\ valid
  /\ UNCHANGED vars

ExtractWake(e) ==
  /\ At(e, "wait") /\ valid
  /\ Goto(e, "take")
  /\ UNCHANGED <<ringVars, arg, old, period, report, loose, promised>>

ExtractTimeOut(e) ==
  /\ At(e, "wait") /\ period[e] = "finite"
  /\ Goto(e, "take")
  /\ UNCHANGED <<ringVars, arg, old, period, report, loose, promised>>

\* Mutant: the ring is not tested again under the lock
ExtractTakeUntested(e) ==
  /\ At(e, "take") /\ lock = None
  /\ lock' = e
  /\ arg' = [arg EXCEPT ![e] = storage[Wrap(nextExtract)]]
  /\ nextExtract' = nextExtract + 1
  /\ Report(e, "RingNoError", storage[Wrap(nextExtract)])
  /\ Goto(e, "advance")
  /\ UNCHANGED <<storage, nextInsert, valid, old, period, loose, promised>>

ExtractTake(e) ==
  /\ At(e, "take") /\ lock = None
  /\ nextExtract # nextInsert
  /\ lock' = e
  /\ arg' = [arg EXCEPT ![e] = storage[nextExtract]]
  /\ nextExtract' = nextExtract + 1
  /\ Report(e, "RingNoError", storage[nextExtract])
  /\ Goto(e, "advance")
  /\ UNCHANGED <<storage, nextInsert, valid, old, period, loose, promised>>

ExtractAdvance(e) ==
  /\ At(e, "advance")
  /\ nextExtract' = Wrap(nextExtract)
  /\ lock' = None
  /\ loose' = loose \cup {arg[e]}
  /\ promised' = promised \ {e}
  /\ Return(e)
  /\ UNCHANGED <<storage, nextInsert, valid, report>>

ExtractNothing(e) ==
  /\ At(e, "take") /\ lock = None
  /\ nextExtract = nextInsert
  /\ Report(e, "RingNothingToGet", None)
  /\ promised' = promised \ {e}
  /\ Return(e)
  /\ UNCHANGED <<ringVars, loose>>

(***************************************************************************)
(* Flush drops what the ring holds; the frame parsers call it on rings     *)
(* that they extract from themselves.  NonEmpty is one unlocked comparison.*)
(***************************************************************************)
Flush(e) ==
  /\ At(e, "idle") /\ lock = None
  /\ nextExtract' = 0 /\ nextInsert' = 0
  /\ loose' = loose \cup {Queue[k] : k \in 1 .. Count}
  /\ promised' = {}
  /\ Report(e, "RingNoError", None)
  /\ UNCHANGED <<storage, lock, valid, pc, arg, old, period>>

\* Mutant: a signalled event is taken for a word in the ring
NonEmptyFromEvent(e) ==
  /\ At(e, "idle")
  /\ promised' = IF valid THEN promised \cup {e} ELSE promised \ {e}
  /\ UNCHANGED <<ringVars, pc, arg, old, period, report, loose>>

NonEmpty(e) ==
  /\ At(e, "idle")
  /\ promised' = IF nextExtract # nextInsert THEN promised \cup {e}
                                             ELSE promised \ {e}
  /\ UNCHANGED <<ringVars, pc, arg, old, period, report, loose>>

InsertStep(i) ==
  \/ InsertStore(i) \/ InsertWrap(i) \/ InsertRefused(i)
  \/ InsertAccepted(i) \/ InsertSignal(i)

ExtractStep(e) ==
  \/ ExtractPeek(e) \/ ExtractWake(e) \/ ExtractTimeOut(e)
  \/ ExtractTake(e) \/ ExtractAdvance(e) \/ ExtractNothing(e)

Next ==
  \/ \E i \in Inserters : (\E v \in Values : Insert(i, v)) \/ InsertStep(i)
  \/ \E e \in Extractors : (\E p \in Periods : Extract(e, p)) \/ ExtractStep(e)
  \/ \E e \in Extractors : Flush(e) \/ NonEmpty(e)

Spec == Init /\ [][Next]_vars

(***************************************************************************)
(* A thread inside an operation keeps running.  Taking the lock is only    *)
(* strongly fair: the mutex is a kernel semaphore, whose waiters queue.    *)
(***************************************************************************)
Fairness ==
  /\ \A i \in Inserters : SF_vars(InsertStep(i))
  /\ \A e \in Extractors : SF_vars(ExtractStep(e))

FairSpec == Spec /\ Fairness
-----------------------------------------------------------------------------
Fifo == INSTANCE BoundedFifo WITH Capacity <- MaxEntries, queue <- Queue

(***************************************************************************)
(* Properties                                                              *)
(***************************************************************************)

(* The type invariant.  An index equals Limit only in the instant between  *)
(* its increment and its wrap, while that thread holds the lock.           *)
TypeOK ==
  /\ storage \in [0 .. Limit - 1 -> Values \cup {None}]
  /\ nextInsert \in 0 .. Limit
  /\ nextInsert = Limit => \E i \in Inserters : At(i, "wrap")
  /\ nextExtract \in 0 .. Limit
  /\ nextExtract = Limit => \E e \in Extractors : At(e, "advance")
  /\ lock \in Threads \cup {None}
  /\ valid \in BOOLEAN
  /\ pc \in [Threads -> {"idle", "store", "wrap", "test", "signal",
                         "peek", "wait", "take", "advance"}]
  /\ arg \in [Threads -> Values \cup {None}]
  /\ old \in [Threads -> 0 .. Limit - 1]
  /\ period \in [Threads -> {"none", "finite", "infinite"}]
  /\ report \in [thread : Threads \cup {None},
                 status : {"RingNoError", "RingTooManyEntries",
                           "RingNothingToGet"},
                 word : Values \cup {None}]
  /\ loose \subseteq Values
  /\ promised \subseteq Extractors

(* Lines 53-108: whatever the interleaving, the ring behaves as a bounded  *)
(* FIFO: no word lost, duplicated or reordered, RingTooManyEntries only    *)
(* from a full ring, RingNothingToGet only from an empty one.              *)
RingIsFifo == Fifo!Spec

(* Lines 85-91: an extractor blocks on a ring that holds something only if *)
(* the event that will wake it is set or an inserter is about to set it.   *)
NoLostWakeup ==
  \A e \in Extractors :
    At(e, "wait") /\ Queue # << >> =>
      valid \/ \E i \in Inserters : At(i, "signal")

(* Lines 126-129: when NonEmpty told the only extractor that there is      *)
(* something, its next Extract neither blocks nor comes back with nothing. *)
(* The loops "while NonEmpty() Extract()" of player_playback.cpp, whose    *)
(* Extract has no timeout, rest on this.                                   *)
NonEmptyIsAPromise ==
  \A e \in promised :
    /\ ~At(e, "wait")
    /\ At(e, "take") /\ lock = None => Queue # << >>

(* Lines 76-91: an extractor blocked without a timeout does not stay       *)
(* blocked on a ring that holds something.                                 *)
WaitEnds ==
  \A e \in Extractors : (At(e, "wait") /\ Queue # << >>) ~> At(e, "idle")
=============================================================================
