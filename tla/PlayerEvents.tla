---------------------------- MODULE PlayerEvents ----------------------------
(***************************************************************************)
(* The player's events (player/player/player_events.cpp): SignalEvent puts *)
(* a record in a list linked through a fixed table, GetEventRecord takes   *)
(* the oldest that matches its criteria, SetEventSignal registers an OS    *)
(* event to be set when a record matches.                                  *)
(*                                                                         *)
(* A section under the player's Lock is one step, except that SignalEvent  *)
(* keeps it while it goes through the table of signals, which others clear *)
(* without it.  SetEventSignal also scans the list of records without it.  *)
(*                                                                         *)
(* Playback, stream and code of a record are one kind; criteria are the    *)
(* set of kinds they match.  Signallers call SignalEvent.  Getters make    *)
(* blocking calls of GetEventRecord.  Watchers are threads like that of    *)
(* HavanaPlayer_c::EventSignalThread: each registers an OS event of its    *)
(* own, waits for it, resets it and collects until there is nothing.       *)
(***************************************************************************)
EXTENDS Integers, Sequences, FiniteSets, SequencesExt

CONSTANTS
  Signallers, Getters, Watchers,
  Kinds,            \* what criteria tell apart in a record
  Criteria,         \* the criteria in use: sets of kinds
  MaxOutstanding,   \* PLAYER_MAX_OUTSTANDING_EVENTS
  MaxSignals,       \* PLAYER_MAX_EVENT_SIGNALS
  Quiet,            \* signals are set and cleared while nobody else is
                    \* inside SignalEvent or GetEventRecord
  None              \* INVALID_INDEX, EventIllegalIdentifier, NULL

Collectors == Getters \cup Watchers
Threads    == Signallers \cup Collectors
Slots      == 1 .. MaxOutstanding
Entries    == 1 .. MaxSignals

ASSUME EventsAssumption ==
  /\ Signallers \cap Collectors = {} /\ Getters \cap Watchers = {}
  /\ MaxOutstanding \in Nat \ {0, 1} /\ MaxSignals \in Nat
  /\ Criteria \subseteq SUBSET Kinds
  /\ Quiet \in BOOLEAN
  /\ None \notin Threads /\ None \notin Kinds /\ None \notin Nat

VARIABLES
  code,        \* EventList[].Record; None is EventIllegalIdentifier
  next,        \* EventList[].NextIndex
  head, tail,  \* EventListHead, EventListTail
  chain,       \* history: the records in use in the order they were linked
  signal,      \* ExternalEventSignals[].Signal: the watcher whose event it is
  criteria,    \* ExternalEventSignals[].Playback, Stream, Events; {} in an
               \* entry whose Signal is NULL, where nobody reads them
  lock,        \* the thread that holds Lock
  internal,    \* the Valid flag of InternalEventSignal
  valid,       \* the Valid flag of each watcher's event
  life,        \* "playing", "terminated": a playback criteria may name was
               \* taken off ListOfPlaybacks, or "shutdown": ShutdownPlayer
  pc,
  event,       \* a signaller's Record
  entry,       \* a signaller's i in the table of signals
  wanted,      \* the criteria of a collector's call, or of a registration
               \* under way; {} otherwise
  ptr          \* IndexPtr of a scan without the lock: a slot, or 0: the head

listVars   == <<code, next, head, tail, chain>>
signalVars == <<signal, criteria>>
localVars  == <<event, entry, wanted, ptr>>
vars == <<listVars, signalVars, lock, internal, valid, life, pc, localVars>>

Goto(t, l) == pc' = [pc EXCEPT ![t] = l]
At(t, l)   == pc[t] = l
Return(t, l) == Goto(t, l) /\ wanted' = [wanted EXCEPT ![t] = {}]
Lowest(S)  == CHOOSE i \in S : \A j \in S : i <= j

Init ==
  /\ code = [i \in Slots |-> None] /\ next = [i \in Slots |-> None]
  /\ head = None /\ tail = None /\ chain = << >>
  /\ signal = [e \in Entries |-> None] /\ criteria = [e \in Entries |-> {}]
  /\ lock = None /\ internal = FALSE /\ valid = [w \in Watchers |-> FALSE]
  /\ life = "playing"
  /\ pc = [t \in Threads |-> IF t \in Watchers THEN "watch" ELSE "idle"]
  /\ event = [s \in Signallers |-> None] /\ entry = [s \in Signallers |-> 0]
  /\ wanted = [t \in Collectors |-> {}]
  /\ ptr = [w \in Watchers |-> 0]

(* What SetEventSignal's clients must leave alone if it is to work. *)
Signalling == \E s \in Signallers : pc[s] # "idle"
Getting    == \/ \E g \in Getters : pc[g] # "idle"
              \/ \E w \in Watchers : pc[w] \in {"reset", "take"}
Setting    == \E w \in Watchers : pc[w] \in {"register", "test", "match"}

(***************************************************************************)
(* SignalEvent                                                             *)
(***************************************************************************)
SignalEvent(s, k) ==
  /\ At(s, "idle") /\ (Quiet => ~Setting)
  /\ event' = [event EXCEPT ![s] = k]
  /\ Goto(s, "store")
  /\ UNCHANGED <<listVars, signalVars, lock, internal, valid, life, entry,
                 wanted, ptr>>

Free == {i \in Slots : code[i] = None}

SignalStore(s) ==
  /\ At(s, "store") /\ lock = None /\ Free # {}
  /\ LET i == Lowest(Free) IN
       /\ code' = [code EXCEPT ![i] = event[s]]
       /\ next' = [n \in Slots |-> IF n = i THEN None
                                   ELSE IF n = tail THEN i ELSE next[n]]
       /\ head' = IF tail = None THEN i ELSE head
       /\ tail' = i
       /\ chain' = Append(chain, i)
  /\ internal' = TRUE
  /\ lock' = s
  /\ entry' = [entry EXCEPT ![s] = 1]
  /\ Goto(s, "look")
  /\ UNCHANGED <<signalVars, valid, life, event, wanted, ptr>>

SignalDiscard(s) ==
  /\ At(s, "store") /\ lock = None /\ Free = {}
  /\ code' = [code EXCEPT ![head] = None]
  /\ head' = next[head]
  /\ chain' = Tail(chain)
  /\ UNCHANGED <<next, tail, signalVars, lock, internal, valid, life, pc,
                 localVars>>

SignalLook(s) ==
  /\ At(s, "look") /\ entry[s] \in Entries
  /\ IF signal[entry[s]] # None /\ event[s] \in criteria[entry[s]]
     THEN Goto(s, "set") /\ UNCHANGED entry
     ELSE entry' = [entry EXCEPT ![s] = @ + 1] /\ UNCHANGED pc
  /\ UNCHANGED <<listVars, signalVars, lock, internal, valid, life, event,
                 wanted, ptr>>

SignalSet(s) ==
  /\ At(s, "set")
  /\ valid' = [w \in Watchers |-> valid[w] \/ w = signal[entry[s]]]
  /\ entry' = [entry EXCEPT ![s] = @ + 1]
  /\ Goto(s, IF signal[entry[s]] = None THEN "fault" ELSE "look")
  /\ UNCHANGED <<listVars, signalVars, lock, internal, life, event, wanted, ptr>>

SignalEnd(s) ==
  /\ At(s, "look") /\ entry[s] \notin Entries
  /\ lock' = None
  /\ event' = [event EXCEPT ![s] = None]
  /\ entry' = [entry EXCEPT ![s] = 0]
  /\ Goto(s, "idle")
  /\ UNCHANGED <<listVars, signalVars, internal, valid, life, wanted,
                 ptr>>

(***************************************************************************)
(* GetEventRecord                                                          *)
(***************************************************************************)
Ask(t, c) ==
  /\ Quiet => ~Setting
  /\ wanted' = [wanted EXCEPT ![t] = c]
  /\ Goto(t, "reset")

GetEventRecord(g, c) ==
  /\ At(g, "idle")
  /\ Ask(g, c)
  /\ UNCHANGED <<listVars, signalVars, lock, internal, valid, life, event,
                 entry, ptr>>

GetReset(t) ==
  /\ At(t, "reset")
  /\ internal' = FALSE
  /\ Goto(t, "take")
  /\ UNCHANGED <<listVars, signalVars, lock, valid, life, localVars>>

Matching(c) == {n \in 1 .. Len(chain) : code[chain[n]] \in c}

(* The end of the list, found again by walking it from its head. *)
LastLinked(used, links) ==
  IF \A i \in Slots : used[i] = None THEN None
  ELSE CHOOSE i \in Slots : used[i] # None /\ links[i] = None

(* Takes the n-th record out of the list; its tail is the caller's affair. *)
Unlink(n) ==
  /\ code' = [code EXCEPT ![chain[n]] = None]
  /\ next' = [j \in Slots |->
       IF j = chain[n] THEN None
       ELSE IF n > 1 /\ j = chain[n - 1] THEN next[chain[n]] ELSE next[j]]
  /\ head' = IF n = 1 THEN next[chain[n]] ELSE head
  /\ chain' = RemoveAt(chain, n)

\* Mutant: the newest match is taken
GetTakeNewest(t) ==
  /\ At(t, "take") /\ lock = None /\ Matching(wanted[t]) # {}
  /\ LET n == -Lowest({-m : m \in Matching(wanted[t])}) IN
       /\ Unlink(n)
       /\ tail' = IF chain[n] = tail THEN LastLinked(code', next') ELSE tail
  /\ Return(t, IF t \in Watchers THEN "got" ELSE "idle")
  /\ UNCHANGED <<signalVars, lock, internal, valid, life, event, entry, ptr>>

\* Mutant: the tail is not found again
GetTakeTailKept(t) ==
  /\ At(t, "take") /\ lock = None /\ Matching(wanted[t]) # {}
  /\ LET n == Lowest(Matching(wanted[t])) IN
       /\ Unlink(n)
       /\ tail' = IF Len(chain) = 1 THEN None ELSE tail
  /\ Return(t, IF t \in Watchers THEN "got" ELSE "idle")
  /\ UNCHANGED <<signalVars, lock, internal, valid, life, event, entry, ptr>>

GetTake(t) ==
  /\ At(t, "take") /\ lock = None /\ Matching(wanted[t]) # {}
  /\ LET n == Lowest(Matching(wanted[t])) IN
       /\ Unlink(n)
       /\ tail' = IF chain[n] = tail THEN LastLinked(code', next') ELSE tail
  /\ Return(t, IF t \in Watchers THEN "got" ELSE "idle")
  /\ UNCHANGED <<signalVars, lock, internal, valid, life, event, entry, ptr>>

GetNone(t) ==
  /\ At(t, "take") /\ lock = None /\ Matching(wanted[t]) = {}
  /\ IF t \in Watchers THEN Return(t, "watch")
                       ELSE Goto(t, "wait") /\ UNCHANGED wanted
  /\ UNCHANGED <<listVars, signalVars, lock, internal, valid, life, event,
                 entry, ptr>>

\* Mutant: a woken getter waits again
GetWakeAndWait(g) ==
  /\ At(g, "wait") /\ internal
  /\ Goto(g, "wait")
  /\ UNCHANGED <<listVars, signalVars, lock, internal, valid, life, localVars>>

GetWake(g) ==
  /\ At(g, "wait") /\ internal
  /\ Goto(g, "check")
  /\ UNCHANGED <<listVars, signalVars, lock, internal, valid, life, localVars>>

GetTimeOut(g) ==
  /\ At(g, "wait") /\ ~internal
  /\ Goto(g, "check")
  /\ UNCHANGED <<listVars, signalVars, lock, internal, valid, life, localVars>>

(* Criteria that do not match every kind name a playback. *)
\* Mutant: the end of the player is not looked for
GetAgainForEver(g) ==
  /\ At(g, "check")
  /\ IF life = "terminated" /\ wanted[g] # Kinds
     THEN Return(g, "idle")
     ELSE Goto(g, "reset") /\ UNCHANGED wanted
  /\ UNCHANGED <<listVars, signalVars, lock, internal, valid, life, event,
                 entry, ptr>>

GetAgain(g) ==
  /\ At(g, "check")
  /\ IF life = "shutdown" \/ (life = "terminated" /\ wanted[g] # Kinds)
     THEN Return(g, "idle")
     ELSE Goto(g, "reset") /\ UNCHANGED wanted
  /\ UNCHANGED <<listVars, signalVars, lock, internal, valid, life, event,
                 entry, ptr>>

(***************************************************************************)
(* SetEventSignal and the loop of EventSignalThread                        *)
(***************************************************************************)
SetEventSignal(w, c) ==
  /\ At(w, "watch")
  /\ Quiet => ~Signalling /\ ~Getting
  /\ wanted' = [wanted EXCEPT ![w] = c]
  /\ Goto(w, "register")
  /\ UNCHANGED <<listVars, signalVars, lock, internal, valid, life, event,
                 entry, ptr>>

FreeEntries == {e \in Entries : signal[e] = None}

\* Mutant: records already in the list are not looked for
SetRegisterUnscanned(w) ==
  /\ At(w, "register") /\ lock = None /\ FreeEntries # {}
  /\ LET e == Lowest(FreeEntries) IN
       /\ criteria' = [criteria EXCEPT ![e] = wanted[w]]
       /\ signal' = [signal EXCEPT ![e] = w]
  /\ Goto(w, "watch")
  /\ UNCHANGED <<listVars, lock, internal, valid, life, localVars>>

SetRegister(w) ==
  /\ At(w, "register") /\ lock = None /\ FreeEntries # {}
  /\ LET e == Lowest(FreeEntries) IN
       /\ criteria' = [criteria EXCEPT ![e] = wanted[w]]
       /\ signal' = [signal EXCEPT ![e] = w]
  /\ Goto(w, "test")
  /\ UNCHANGED <<listVars, lock, internal, valid, life, localVars>>

SetTooMany(w) ==
  /\ At(w, "register") /\ lock = None /\ FreeEntries = {}
  /\ Return(w, "watch")
  /\ UNCHANGED <<listVars, signalVars, lock, internal, valid, life, event,
                 entry, ptr>>

Pointed(w) == IF ptr[w] = 0 THEN head ELSE next[ptr[w]]

SetScanTest(w) ==
  /\ At(w, "test")
  /\ IF Pointed(w) = None
     THEN Return(w, "watch") /\ ptr' = [ptr EXCEPT ![w] = 0]
     ELSE Goto(w, "match") /\ UNCHANGED <<wanted, ptr>>
  /\ UNCHANGED <<listVars, signalVars, lock, internal, valid, life, event,
                 entry>>

(* The index is read again: it may have become INVALID_INDEX. *)
SetScanMatch(w) ==
  /\ At(w, "match")
  /\ LET i == Pointed(w) IN
       IF i # None /\ code[i] \notin wanted[w]
       THEN /\ ptr' = [ptr EXCEPT ![w] = i]
            /\ Goto(w, "test")
            /\ UNCHANGED <<valid, wanted>>
       ELSE /\ valid' = [valid EXCEPT ![w] = @ \/ i # None]
            /\ ptr' = [ptr EXCEPT ![w] = 0]
            /\ Return(w, IF i = None THEN "fault" ELSE "watch")
  /\ UNCHANGED <<listVars, signalVars, lock, internal, life, event, entry>>

SetClear(w, e) ==
  /\ At(w, "watch") /\ signal[e] = w
  /\ Quiet => ~Signalling
  /\ signal' = [signal EXCEPT ![e] = None]
  /\ criteria' = [criteria EXCEPT ![e] = {}]
  /\ UNCHANGED <<listVars, lock, internal, valid, life, pc,
                 localVars>>

Watched(w) == UNION {criteria[e] : e \in {f \in Entries : signal[f] = w}}

Watch(w) ==
  /\ At(w, "watch") /\ valid[w]
  /\ Goto(w, "woken")
  /\ UNCHANGED <<listVars, signalVars, lock, internal, valid, life, localVars>>

WatchReset(w) ==
  /\ At(w, "woken")
  /\ valid' = [valid EXCEPT ![w] = FALSE]
  /\ Ask(w, Watched(w))
  /\ UNCHANGED <<listVars, signalVars, lock, internal, life, event, entry, ptr>>

WatchAgain(w) ==
  /\ At(w, "got")
  /\ Ask(w, Watched(w))
  /\ UNCHANGED <<listVars, signalVars, lock, internal, valid, life, event,
                 entry, ptr>>

(***************************************************************************)
(* TerminatePlayback and the destructor of the player, as far as they      *)
(* concern GetEventRecord                                                  *)
(***************************************************************************)
TerminatePlayback ==
  /\ life = "playing" /\ life' = "terminated"
  /\ UNCHANGED <<listVars, signalVars, lock, internal, valid, pc, localVars>>

Shutdown ==
  /\ life # "shutdown" /\ life' = "shutdown"
  /\ UNCHANGED <<listVars, signalVars, lock, internal, valid, pc, localVars>>

SignalStep(s) == \/ SignalStore(s) \/ SignalDiscard(s) \/ SignalLook(s)
                 \/ SignalSet(s) \/ SignalEnd(s)
TakeStep(t)   == GetReset(t) \/ GetTake(t) \/ GetNone(t)
GetStep(g)    == TakeStep(g) \/ GetWake(g) \/ GetTimeOut(g) \/ GetAgain(g)
WatchStep(w)  == \/ TakeStep(w) \/ SetRegister(w) \/ SetTooMany(w)
                 \/ SetScanTest(w) \/ SetScanMatch(w)
                 \/ Watch(w) \/ WatchReset(w) \/ WatchAgain(w)

Next ==
  \/ \E s \in Signallers : (\E k \in Kinds : SignalEvent(s, k)) \/ SignalStep(s)
  \/ \E g \in Getters : (\E c \in Criteria : GetEventRecord(g, c)) \/ GetStep(g)
  \/ \E w \in Watchers :
       \/ \E c \in Criteria : SetEventSignal(w, c)
       \/ \E e \in Entries : SetClear(w, e)
       \/ WatchStep(w)
  \/ TerminatePlayback \/ Shutdown

Spec == Init /\ [][Next]_vars

(***************************************************************************)
(* A thread inside a call keeps running; Lock is a kernel semaphore, whose *)
(* waiters queue.                                                          *)
(***************************************************************************)
Fairness ==
  /\ \A s \in Signallers : SF_vars(SignalStep(s))
  /\ \A g \in Getters : SF_vars(GetStep(g))
  /\ \A w \in Watchers : SF_vars(WatchStep(w))

FairSpec == Spec /\ Fairness
-----------------------------------------------------------------------------
Queue == [n \in 1 .. Len(chain) |-> code[chain[n]]]

Events == INSTANCE EventQueue WITH
            Threads <- Collectors, Capacity <- MaxOutstanding, queue <- Queue

(***************************************************************************)
(* Properties                                                              *)
(***************************************************************************)

(* The type invariant.  Only SignalEvent keeps the lock across steps.      *)
TypeOK ==
  /\ code \in [Slots -> Kinds \cup {None}]
  /\ next \in [Slots -> Slots \cup {None}]
  /\ head \in Slots \cup {None} /\ tail \in Slots \cup {None}
  /\ chain \in Seq(Slots)
  /\ signal \in [Entries -> Watchers \cup {None}]
  /\ criteria \in [Entries -> SUBSET Kinds]
  /\ lock \in Signallers \cup {None}
  /\ lock # None => pc[lock] \in {"look", "set", "fault"}
  /\ internal \in BOOLEAN /\ valid \in [Watchers -> BOOLEAN]
  /\ life \in {"playing", "terminated", "shutdown"}
  /\ pc \in [Threads -> {"idle", "store", "look", "set", "fault",
                         "reset", "take", "got", "wait", "check",
                         "watch", "woken", "register", "test", "match"}]
  /\ event \in [Signallers -> Kinds \cup {None}]
  /\ entry \in [Signallers -> 0 .. MaxSignals + 1]
  /\ wanted \in [Collectors -> SUBSET Kinds]
  /\ ptr \in [Watchers -> 0 .. MaxOutstanding]

(* Lines 177-199, 269-303: after any insertions at the tail, removals from *)
(* the middle and discards at the head, the links from EventListHead go    *)
(* through exactly the entries in use and end at EventListTail.            *)
ListIsChain ==
  /\ head = IF chain = << >> THEN None ELSE chain[1]
  /\ tail = IF chain = << >> THEN None ELSE chain[Len(chain)]
  /\ \A n \in 1 .. Len(chain) :
       next[chain[n]] = IF n = Len(chain) THEN None ELSE chain[n + 1]
  /\ \A m, n \in 1 .. Len(chain) : chain[m] = chain[n] => m = n
  /\ \A i \in Slots : code[i] # None <=> \E n \in 1 .. Len(chain) : chain[n] = i

(* Whatever the interleaving, records come out oldest first among those    *)
(* that match, once each, and are dropped only when the table is full, and *)
(* then the oldest (player.h:454, player_events.cpp:291-302).              *)
EventsAreAQueue == Events!Spec

StillToSet(s, w) ==
  /\ pc[s] \in {"look", "set"}
  /\ \E e \in entry[s] .. MaxSignals : signal[e] = w /\ event[s] \in criteria[e]

(* Lines 117-119, 144-147, 307-315: a watcher does not wait for its event  *)
(* while a record that it registered for is in the list, unless the event  *)
(* is set or a signaller is about to set it.                               *)
NoLostSignal ==
  \A w \in Watchers :
    At(w, "watch") /\ ~valid[w] /\ Matching(Watched(w)) # {} =>
      \E s \in Signallers : StillToSet(s, w)

(* Lines 176-248: a blocking GetEventRecord ends once a record that it     *)
(* wants stays in the list, although others reset InternalEventSignal.     *)
GetterEnds ==
  \A g \in Getters :
    (~At(g, "idle") /\ Matching(wanted[g]) # {}) ~>
      (At(g, "idle") \/ Matching(wanted[g]) = {})

(* Lines 219-248: no GetEventRecord outlasts the player, nor, if it names  *)
(* a playback, the playback.                                               *)
LifeEndsGet ==
  \A g \in Getters :
    (\/ life = "shutdown" /\ ~At(g, "idle")
     \/ life = "terminated" /\ ~At(g, "idle") /\ wanted[g] # Kinds)
      ~> At(g, "idle")
=============================================================================
