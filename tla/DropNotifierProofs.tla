-------------------------- MODULE DropNotifierProofs --------------------------
(***************************************************************************)
(* For every set of chats and windows and every length of the window, of   *)
(* the sleep and of a flush: no rejection is announced twice or forgotten. *)
(*                                                                         *)
(* The counts a flush read before it suspended are trusted only for keys   *)
(* that were due then.  Such a key cannot have been counted since: its     *)
(* window had run out, so the next rejection opens it anew, and then the   *)
(* key is not due by the clock the flush has read.                         *)
(***************************************************************************)
EXTENDS DropNotifier, TLAPS

Types ==
    /\ age \in [Windows -> Nat]
    /\ counts \in [DropKeys -> Nat]
    /\ seen \in [DropKeys -> Nat]
    /\ owed \in [DropKeys -> Int]
    /\ lag \in Nat
    /\ flushing \in BOOLEAN

\* A key that is due by the clock of the flush has the count the flush has read.
SeenIsCurrent == flushing => \A k \in DropKeys : Due(k, lag) => seen[k] = counts[k]

CountInv == Types /\ Conservation /\ SeenIsCurrent

LEMMA OldNat == Old \in Nat
    BY NotifierAssumption DEF Old

LEMMA InitCount == Init => CountInv
<1> SUFFICES ASSUME Init PROVE CountInv
    OBVIOUS
<1>1. Types
  <2>1. age \in [Windows -> Nat]
    BY OldNat DEF Init
  <2>2. counts \in [DropKeys -> Nat] /\ seen \in [DropKeys -> Nat] /\ owed \in [DropKeys -> Int]
    BY DEF Init
  <2>3. lag \in Nat /\ flushing \in BOOLEAN
    BY DEF Init
  <2> QED BY <2>1, <2>2, <2>3 DEF Types
<1>2. Conservation
    BY DEF Init, Conservation
<1>3. SeenIsCurrent
    BY DEF Init, SeenIsCurrent
<1> QED
    BY <1>1, <1>2, <1>3 DEF CountInv

\* A notice of the flush: its snapshot is right about every key that is due.
LEMMA SendsCount ==
    ASSUME CountInv, NEW keys, NEW snapshot \in [DropKeys -> Nat], NEW l \in Nat,
           \A k \in DropKeys : Due(k, l) => snapshot[k] = counts[k],
           Sends(keys, snapshot, l)
    PROVE  CountInv'
<1> USE NotifierAssumption
<1>1. PICK i \in 1..Len(keys) : Due(keys[i], l) /\ Announce(keys[i], snapshot[keys[i]], l)
    BY DEF Sends
<1> DEFINE d == keys[i]
<1>2. /\ age' = [age EXCEPT ![WindowOf[d]] = l]
      /\ counts' = [counts EXCEPT ![d] = 0]
      /\ owed' = [owed EXCEPT ![d] = @ - snapshot[d]]
      /\ Due(d, l)
    BY <1>1 DEF Announce
<1>3. flushing' = TRUE /\ lag' = l /\ seen' = snapshot
    BY DEF Sends
<1>4. /\ age \in [Windows -> Nat] /\ counts \in [DropKeys -> Nat] /\ owed \in [DropKeys -> Int]
      /\ \A k \in DropKeys : owed[k] = counts[k]
    BY DEF CountInv, Types, Conservation
<1> HIDE DEF d
<1>5. counts' \in [DropKeys -> Nat] /\ age' \in [Windows -> Nat]
    BY <1>2, <1>4
<1>6. owed' \in [DropKeys -> Int]
  <2>1. CASE d \in DropKeys
    <3>1. snapshot[d] \in Nat /\ owed[d] \in Int
      BY <1>4, <2>1
    <3>2. owed[d] - snapshot[d] \in Int
      BY <3>1
    <3> QED BY <1>2, <1>4, <3>2
  <2>2. CASE d \notin DropKeys
    BY <1>2, <1>4, <2>2
  <2> QED BY <2>1, <2>2
<1>7. ASSUME NEW k \in DropKeys PROVE owed'[k] = counts'[k]
  <2>1. CASE k = d
    <3>1. snapshot[d] = counts[d] /\ owed[d] = counts[d] /\ counts[d] \in Nat
      BY <1>2, <1>4, <2>1
    <3>2. owed'[d] = owed[d] - snapshot[d] /\ counts'[d] = 0
      BY <1>2, <1>4, <2>1
    <3> QED BY <2>1, <3>1, <3>2
  <2>2. CASE k # d
    BY <1>2, <1>4, <2>2
  <2> QED BY <2>1, <2>2
<1>8. ASSUME NEW k \in DropKeys, age'[WindowOf[k]] - l >= Window PROVE snapshot[k] = counts'[k]
  <2>1. WindowOf[k] \in Windows
    OBVIOUS
  <2>2. CASE WindowOf[k] = WindowOf[d]
    <3>1. age'[WindowOf[k]] = l
      BY <1>2, <1>4, <2>1, <2>2
    <3> QED BY <1>8, <3>1
  <2>3. CASE WindowOf[k] # WindowOf[d]
    <3>1. age'[WindowOf[k]] = age[WindowOf[k]] /\ counts'[k] = counts[k]
      BY <1>2, <1>4, <2>1, <2>3
    <3> QED BY <1>8, <3>1 DEF Due
  <2> QED BY <2>2, <2>3
<1> QED
    BY <1>3, <1>5, <1>6, <1>7, <1>8 DEF CountInv, Types, Conservation, SeenIsCurrent, Due

LEMMA EndsCount ==
    ASSUME CountInv, NEW keys, NEW l, Ends(keys, l)
    PROVE  CountInv'
    BY DEF CountInv, Types, Conservation, SeenIsCurrent, Ends

LEMMA NextCount == CountInv /\ [Next]_vars => CountInv'
<1> SUFFICES ASSUME CountInv, [Next]_vars PROVE CountInv'
    OBVIOUS
<1> USE NotifierAssumption
<1>1. ASSUME NEW k \in DropKeys, NoteImmediate(k) PROVE CountInv'
  <2>1. age' \in [Windows -> Nat]
    BY <1>1 DEF CountInv, Types, NoteImmediate
  <2>2. \A d \in DropKeys : age'[WindowOf[d]] = age[WindowOf[d]] \/ age'[WindowOf[d]] = 0
    BY <1>1 DEF CountInv, Types, NoteImmediate
  <2>3. \A d \in DropKeys : Due(d, lag)' => Due(d, lag)
    BY <1>1, <2>2 DEF CountInv, Types, Due, NoteImmediate, flushVars
  <2> QED
    BY <1>1, <2>1, <2>3 DEF CountInv, Types, Conservation, SeenIsCurrent, NoteImmediate, flushVars
<1>2. ASSUME NEW k \in DropKeys, NoteAccumulate(k) PROVE CountInv'
  <2>1. counts' \in [DropKeys -> Nat] /\ owed' \in [DropKeys -> Int]
    BY <1>2 DEF CountInv, Types, NoteAccumulate
  <2>2. \A d \in DropKeys : owed'[d] = counts'[d]
    BY <1>2 DEF CountInv, Types, Conservation, NoteAccumulate
  <2>3. age' = age /\ lag' = lag /\ flushing' = flushing /\ seen' = seen
    BY <1>2 DEF NoteAccumulate, flushVars
  <2>4. \A d \in DropKeys : Due(d, lag) => d # k /\ counts'[d] = counts[d]
    <3>1. age[WindowOf[k]] \in Nat /\ age[WindowOf[k]] < Window /\ lag \in Nat
      BY <1>2 DEF CountInv, Types, NoteAccumulate
    <3>2. ~Due(k, lag)
      BY <3>1 DEF Due
    <3> QED BY <1>2, <3>2 DEF CountInv, Types, NoteAccumulate
  <2> QED
    BY <2>1, <2>2, <2>3, <2>4 DEF CountInv, Types, Conservation, SeenIsCurrent, Due
<1>3. ASSUME FlushStart PROVE CountInv'
  <2>1. counts \in [DropKeys -> Nat]
    BY DEF CountInv, Types
  <2> QED BY <1>3, <2>1, SendsCount, EndsCount DEF FlushStart
<1>4. ASSUME FlushResume PROVE CountInv'
  <2>1. /\ seen \in [DropKeys -> Nat] /\ lag \in Nat
        /\ \A k \in DropKeys : Due(k, lag) => seen[k] = counts[k]
    BY <1>4 DEF CountInv, Types, SeenIsCurrent, FlushResume
  <2> QED BY <1>4, <2>1, SendsCount, EndsCount DEF FlushResume
<1>5. ASSUME Tick PROVE CountInv'
  <2>1. /\ age' \in [Windows -> Nat] /\ lag' \in Nat
        /\ \A w \in Windows : age'[w] \in Nat /\ age'[w] <= age[w] + 1 /\ age[w] \in Nat
    BY <1>5, OldNat DEF CountInv, Types, Tick
  <2>2. ASSUME flushing, NEW d \in DropKeys, Due(d, lag)' PROVE Due(d, lag)
    <3>1. lag' = lag + 1 /\ lag \in Nat
      BY <1>5, <2>2 DEF CountInv, Types, Tick
    <3>2. WindowOf[d] \in Windows
      OBVIOUS
    <3>3. age'[WindowOf[d]] - lag' >= Window
      BY <2>2 DEF Due
    <3> QED BY <2>1, <3>1, <3>2, <3>3 DEF Due
  <2> QED
    BY <1>5, <2>1, <2>2 DEF CountInv, Types, Conservation, SeenIsCurrent, Tick
<1>6. CASE Calm
    BY <1>6 DEF CountInv, Types, Conservation, SeenIsCurrent, Due, Calm, flushVars
<1>7. CASE UNCHANGED vars
    BY <1>7 DEF CountInv, Types, Conservation, SeenIsCurrent, Due, vars, flushVars
<1> QED
    BY <1>1, <1>2, <1>3, <1>4, <1>5, <1>6, <1>7 DEF Next, Flush

\* No rejection is announced twice or forgotten, although flush_due trusts counts it read
\* before it waited for the messenger.
THEOREM NothingLostOrDoubled == Spec => []Conservation
<1>1. CountInv => Conservation
    BY DEF CountInv
<1> QED
    BY <1>1, InitCount, NextCount, PTL DEF Spec

---------------------------------------------------------------------------
(* Types.  The bounds on the ages hold because a flush never takes longer  *)
(* than MaxLag, so that the stamp it writes is never older than Old.       *)

LEMMA DeletedType ==
    ASSUME order \in Seq(DropKeys), NEW k, DeleteKey(k)
    PROVE  order' \in Seq(DropKeys)
<1>1. PICK i \in 1..Len(order) :
          order' = SubSeq(order, 1, i - 1) \o SubSeq(order, i + 1, Len(order))
    BY DEF DeleteKey
<1>2. SubSeq(order, 1, i - 1) \in Seq(DropKeys)
    BY <1>1
<1>3. SubSeq(order, i + 1, Len(order)) \in Seq(DropKeys)
    BY <1>1
<1> QED
    BY <1>1, <1>2, <1>3

\* A notice of the flush keeps the types, whichever snapshot it works on.
LEMMA SendsType ==
    ASSUME TypeOK, NEW keys \in Seq(DropKeys), NEW snapshot \in [DropKeys -> 0..MaxCount],
           NEW l \in 0..MaxLag, Sends(keys, snapshot, l)
    PROVE  TypeOK'
<1> USE NotifierAssumption
<1>1. PICK i \in 1..Len(keys) :
          /\ Announce(keys[i], snapshot[keys[i]], l)
          /\ flushing' = TRUE /\ lag' = l
          /\ todo' = SubSeq(keys, i + 1, Len(keys)) /\ seen' = snapshot
          /\ UNCHANGED <<timer, calm>>
    BY DEF Sends
<1>2. keys[i] \in DropKeys
    BY <1>1
<1>3. WindowOf[keys[i]] \in Windows /\ snapshot[keys[i]] \in Int
    BY <1>2
<1>4. l \in 0..Old
    BY DEF Old
<1>5. age' \in [Windows -> 0..Old]
    BY <1>1, <1>4 DEF TypeOK, Announce
<1>6. counts' \in [DropKeys -> 0..MaxCount]
  <2>1. 0 \in 0..MaxCount
    OBVIOUS
  <2> QED BY <1>1, <2>1 DEF TypeOK, Announce
<1>7. order' \in Seq(DropKeys)
    BY <1>1, DeletedType DEF TypeOK, Announce
<1>8. owed' \in [DropKeys -> Int]
  <2>1. owed[keys[i]] - snapshot[keys[i]] \in Int
    BY <1>2, <1>3 DEF TypeOK
  <2> QED BY <1>1, <2>1 DEF TypeOK, Announce
<1>9. todo' \in Seq(DropKeys)
    BY <1>1
<1> QED
    BY <1>1, <1>5, <1>6, <1>7, <1>8, <1>9 DEF TypeOK

LEMMA EndsType ==
    ASSUME TypeOK, NEW keys, NEW l, Ends(keys, l)
    PROVE  TypeOK'
<1>1. 0 \in 0..MaxLag /\ Interval \in 0..Interval /\ 0 \in 0..MaxCount
    BY NotifierAssumption
<1>2. todo' \in Seq(DropKeys)
    BY DEF Ends
<1> QED
    BY <1>1, <1>2 DEF TypeOK, Ends

LEMMA InitType == Init => TypeOK
<1> SUFFICES ASSUME Init PROVE TypeOK
    OBVIOUS
<1>1. /\ 0 \in 0..MaxLag /\ Interval \in 0..Interval /\ 0 \in 0..MaxCount
      /\ Old \in 0..Old /\ 0 \in Int
    BY NotifierAssumption, OldNat
<1>2. order \in Seq(DropKeys) /\ todo \in Seq(DropKeys)
    BY DEF Init
<1> QED
    BY <1>1, <1>2 DEF Init, TypeOK

LEMMA NextType == TypeOK /\ [Next]_vars => TypeOK'
<1> SUFFICES ASSUME TypeOK, [Next]_vars PROVE TypeOK'
    OBVIOUS
<1> USE NotifierAssumption
<1>1. ASSUME NEW k \in DropKeys, NoteImmediate(k) PROVE TypeOK'
  <2>1. age' \in [Windows -> 0..Old]
    BY <1>1, OldNat DEF TypeOK, NoteImmediate
  <2> QED BY <1>1, <2>1 DEF TypeOK, NoteImmediate, flushVars
<1>2. ASSUME NEW k \in DropKeys, NoteAccumulate(k) PROVE TypeOK'
  <2>1. counts' \in [DropKeys -> 0..MaxCount]
    BY <1>2 DEF TypeOK, NoteAccumulate
  <2>2. order' \in Seq(DropKeys)
    BY <1>2 DEF TypeOK, NoteAccumulate
  <2>3. owed' \in [DropKeys -> Int]
    BY <1>2 DEF TypeOK, NoteAccumulate
  <2> QED BY <1>2, <2>1, <2>2, <2>3 DEF TypeOK, NoteAccumulate, flushVars
<1>3. ASSUME FlushStart PROVE TypeOK'
  <2>1. /\ 0 \in 0..MaxLag /\ order \in Seq(DropKeys)
        /\ counts \in [DropKeys -> 0..MaxCount]
      BY DEF TypeOK
  <2> QED BY <1>3, <2>1, SendsType, EndsType DEF FlushStart
<1>4. ASSUME FlushResume PROVE TypeOK'
    BY <1>4, SendsType, EndsType DEF FlushResume, TypeOK
<1>5. ASSUME Tick PROVE TypeOK'
  <2>1. age' \in [Windows -> 0..Old]
    <3>1. \A w \in Windows : (IF age[w] < Old THEN age[w] + 1 ELSE Old) \in 0..Old
      BY OldNat DEF TypeOK
    <3> QED BY <1>5, <3>1 DEF Tick
  <2>2. timer' \in 0..Interval /\ lag' \in 0..MaxLag
    BY <1>5 DEF TypeOK, Tick
  <2> QED BY <1>5, <2>1, <2>2 DEF TypeOK, Tick
<1>6. CASE Calm
    BY <1>6 DEF TypeOK, Calm, flushVars
<1>7. CASE UNCHANGED vars
    BY <1>7 DEF TypeOK, vars, flushVars
<1> QED
    BY <1>1, <1>2, <1>3, <1>4, <1>5, <1>6, <1>7 DEF Next, Flush

\* Every variable of the notifier keeps its type: the clocks their bounds, the snapshot of
\* the flush its keys, although a flush goes on with what it read before it suspended.
THEOREM NotifierTypes == Spec => []TypeOK
    BY InitType, NextType, PTL DEF Spec
=============================================================================
