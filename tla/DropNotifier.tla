----------------------------- MODULE DropNotifier -----------------------------
(***************************************************************************)
(* The notices about rejected messages of one node: the first rejection of *)
(* a window is announced at once, the following ones are counted, and a    *)
(* periodic flush announces the counts of the windows that have run out.   *)
(* The flush sends one notice after another and other tasks reject         *)
(* messages while it waits for the messenger, but it goes on with the time *)
(* and the counts it read when it began.                                   *)
(*                                                                         *)
(* Source: core/notifier.py, called by reject() of core/bridge.py.         *)
(*                                                                         *)
(* Time is relative: age is the time since _last_flush, lag the time since *)
(* the flush read the clock, so that now - _last_flush of the flush is     *)
(* age - lag.  A loop iteration that sends nothing does not suspend.       *)
(***************************************************************************)
EXTENDS Integers, Sequences

CONSTANTS
    DropKeys,   \* source chat and reason
    Windows,    \* transport and reason
    WindowOf,   \* [DropKeys -> Windows], DropKey.window_key
    Window,     \* drop_notice_window_seconds
    Interval,   \* the sleep of run_flush_loop
    MaxLag,     \* bound on the time one flush takes
    MaxCount    \* bound on a counter

ASSUME NotifierAssumption ==
    /\ WindowOf \in [DropKeys -> Windows]
    /\ Window \in Nat \ {0}
    /\ Interval \in Nat \ {0}
    /\ MaxLag \in Nat
    /\ MaxCount \in Nat \ {0}

\* From here on the age of a window makes no difference; so does a window never opened.
Old == Window + MaxLag

VARIABLES
    age,       \* [Windows -> time since _last_flush, at most Old]
    counts,    \* [DropKeys -> Nat], _counts; 0 is an absent key
    order,     \* the keys of _counts in the order of insertion
    timer,     \* what is left of the sleep of the flush loop
    flushing,  \* the flush is waiting for the messenger
    lag,       \* time since the flush read the clock
    todo,      \* the keys of its snapshot it has still to look at
    seen,      \* the counts of its snapshot
    owed,      \* history: [DropKeys -> rejections not yet announced]
    calm       \* environment: nothing is rejected any more

flushVars == <<timer, flushing, lag, todo, seen>>
vars == <<age, counts, order, flushVars, owed, calm>>

Init ==
    /\ age = [w \in Windows |-> Old]
    /\ counts = [k \in DropKeys |-> 0] /\ order = <<>>
    /\ timer = Interval
    /\ flushing = FALSE /\ lag = 0 /\ todo = <<>> /\ seen = [k \in DropKeys |-> 0]
    /\ owed = [k \in DropKeys |-> 0]
    /\ calm = FALSE

---------------------------------------------------------------------------
(* note_reject.                                                            *)

\* The first rejection of a window: the window opens and the notice goes out.
NoteImmediate(k) ==
    /\ ~calm
    /\ age[WindowOf[k]] >= Window
    /\ age' = [age EXCEPT ![WindowOf[k]] = 0]
    /\ UNCHANGED <<counts, order, flushVars, owed, calm>>

\* A rejection inside an open window is counted.
NoteAccumulate(k) ==
    /\ ~calm
    /\ age[WindowOf[k]] < Window /\ counts[k] < MaxCount
    /\ counts' = [counts EXCEPT ![k] = @ + 1]
    /\ order' = IF counts[k] = 0 THEN Append(order, k) ELSE order
    /\ owed' = [owed EXCEPT ![k] = @ + 1]
    /\ UNCHANGED <<age, flushVars, calm>>

---------------------------------------------------------------------------
(* flush_due and run_flush_loop.                                           *)

\* Mutant of Due: the clock is read again for every key.
DueNow(k, l) == age[WindowOf[k]] >= Window

\* The window of k had run out when the flush read the clock, l ago.
Due(k, l) == age[WindowOf[k]] - l >= Window

\* del self._counts[drop_key]: the key has to be there.
DeleteKey(k) ==
    \E i \in 1..Len(order) :
        /\ order[i] = k
        /\ order' = SubSeq(order, 1, i - 1) \o SubSeq(order, i + 1, Len(order))

\* Mutant of Announce: the window is stamped with its end.
AnnounceAhead(k, n, l) ==
    /\ age' = [age EXCEPT ![WindowOf[k]] = l - Window]
    /\ counts' = [counts EXCEPT ![k] = 0]
    /\ DeleteKey(k)
    /\ owed' = [owed EXCEPT ![k] = @ - n]

\* The window opens anew, the counter is deleted, n rejections are announced.
Announce(k, n, l) ==
    /\ age' = [age EXCEPT ![WindowOf[k]] = l]
    /\ counts' = [counts EXCEPT ![k] = 0]
    /\ DeleteKey(k)
    /\ owed' = [owed EXCEPT ![k] = @ - n]

\* The loop over the snapshot announces the first key that is due and waits.
Sends(keys, snapshot, l) ==
    \E i \in 1..Len(keys) :
        /\ Due(keys[i], l)
        /\ \A j \in 1..(i - 1) : ~Due(keys[j], l)
        /\ Announce(keys[i], snapshot[keys[i]], l)
        /\ flushing' = TRUE /\ lag' = l
        /\ todo' = SubSeq(keys, i + 1, Len(keys)) /\ seen' = snapshot
        /\ UNCHANGED <<timer, calm>>

\* No key is due: the loop ends, and run_flush_loop sleeps again.
Ends(keys, l) ==
    /\ \A j \in 1..Len(keys) : ~Due(keys[j], l)
    /\ flushing' = FALSE /\ lag' = 0
    /\ todo' = <<>> /\ seen' = [k \in DropKeys |-> 0]
    /\ timer' = Interval
    /\ UNCHANGED <<age, counts, order, owed, calm>>

\* Mutant of FlushStart: it is called on a rejection, not periodically.
FlushStartOnReject ==
    /\ ~calm
    /\ ~flushing /\ timer = 0
    /\ Sends(order, counts, 0) \/ Ends(order, 0)

\* The sleep is over: the clock and the counts are read.
FlushStart ==
    /\ ~flushing /\ timer = 0
    /\ Sends(order, counts, 0) \/ Ends(order, 0)

\* The messenger has answered.
FlushResume ==
    /\ flushing
    /\ Sends(todo, seen, lag) \/ Ends(todo, lag)

---------------------------------------------------------------------------
\* Time does not run past the end of the sleep, nor past MaxLag of one flush.
Tick ==
    /\ IF flushing THEN lag < MaxLag ELSE timer > 0
    /\ age' = [w \in Windows |-> IF age[w] < Old THEN age[w] + 1 ELSE Old]
    /\ timer' = IF flushing THEN timer ELSE timer - 1
    /\ lag' = IF flushing THEN lag + 1 ELSE lag
    /\ UNCHANGED <<counts, order, flushing, todo, seen, owed, calm>>

\* The overload ends.
Calm ==
    /\ ~calm
    /\ calm' = TRUE
    /\ UNCHANGED <<age, counts, order, flushVars, owed>>

Flush == FlushStart \/ FlushResume

Next ==
    \/ \E k \in DropKeys : NoteImmediate(k) \/ NoteAccumulate(k)
    \/ Flush
    \/ Tick \/ Calm

Spec == Init /\ [][Next]_vars

\* The clock runs, the loop serves the flush, and the Bot API answers or times out.
FairSpec == Spec /\ WF_vars(Tick) /\ WF_vars(Flush)

---------------------------------------------------------------------------
(* Properties.                                                             *)

TypeOK ==
    /\ age \in [Windows -> 0..Old]
    /\ counts \in [DropKeys -> 0..MaxCount] /\ order \in Seq(DropKeys)
    /\ timer \in 0..Interval
    /\ flushing \in BOOLEAN /\ lag \in 0..MaxLag
    /\ todo \in Seq(DropKeys) /\ seen \in [DropKeys -> 0..MaxCount]
    /\ owed \in [DropKeys -> Int]
    /\ calm \in BOOLEAN

\* No rejection is announced twice or forgotten: what has not been announced is exactly what
\* the counters hold, although the flush announces counts it read before it suspended and
\* deletes counters other tasks may have changed since.
Conservation == \A k \in DropKeys : owed[k] = counts[k]

\* When nothing is rejected any more, every counted rejection is announced in the end, also
\* when several chats share a window and take turns.
TailsDrain == calm ~> \A k \in DropKeys : counts[k] = 0

\* "The tail leaves with the next flush" (note_reject): whatever else is rejected meanwhile,
\* a counted rejection is announced in the end.
TailFlushed == \A k \in DropKeys : counts[k] > 0 ~> counts[k] = 0
=============================================================================
