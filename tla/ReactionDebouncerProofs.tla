----------------------- MODULE ReactionDebouncerProofs -----------------------
(***************************************************************************)
(* For any number of messages, calls and lives of the process: the types,  *)
(* that a reaction is taken off only where one is shown, and that nothing  *)
(* is left on a message that was sent, unless its calls overlapped or      *)
(* failed.  The argument goes message by message: a step is about one      *)
(* message, or it is the death of the process.                             *)
(***************************************************************************)
EXTENDS ReactionDebouncer, TLAPS

LEMMA InitTyped == Init => TypeOK
BY DebouncerAssumption DEF Init, TypeOK

\* A call made now, the call once it was served.
LEMMA CallTyped ==
    ASSUME TypeOK, NEW m \in Messages, NEW g \in Nat, NEW x \in Reactions \cup {"empty"}
    PROVE  [key |-> m, gen |-> g, reaction |-> x, life |-> life, served |-> FALSE] \in Call
BY DEF TypeOK, Call

LEMMA ServedTyped ==
    ASSUME NEW c \in Call
    PROVE  /\ [c EXCEPT !.served = TRUE] \in Call /\ [c EXCEPT !.served = TRUE].served
           /\ [c EXCEPT !.served = TRUE].key = c.key /\ [c EXCEPT !.served = TRUE].life = c.life
           /\ [c EXCEPT !.served = TRUE].reaction = c.reaction
BY DEF Call

LEMMA StepTyped == TypeOK /\ [Next]_vars => TypeOK'
<1> SUFFICES ASSUME TypeOK, [Next]_vars PROVE TypeOK'
  OBVIOUS
<1> USE DEF coreVars, botVars
<1>1. ASSUME NEW m \in Messages, NEW st \in Reported, Follows(m, st)
      PROVE  /\ status' \in [Messages -> Reported \cup {"none"}] /\ life' \in 1..MaxLives
             /\ inLife' \in [Messages -> 0..MaxLives]
  BY <1>1 DEF Follows, TypeOK
<1>2. ASSUME NEW m \in Messages, Race(m) PROVE raced' \subseteq Messages
  BY <1>2 DEF Race, TypeOK
<1>3. ASSUME NEW m \in Messages, NEW st \in Reactions, Schedule(m, st) PROVE TypeOK'
  <2>1. generation' \in [Messages -> Nat] /\ generation[m] + 1 \in Nat
    BY <1>3 DEF Schedule, TypeOK
  <2>2. tasks' \in [Messages -> [gen : Nat, reaction : Reactions] \cup {NoTask}]
    BY <1>3, <2>1 DEF Schedule, TypeOK
  <2>3. Follows(m, st) /\ st \in Reported
    BY <1>3 DEF Schedule, Reactions
  <2> QED
    BY <1>1, <1>3, <2>1, <2>2, <2>3 DEF Schedule, TypeOK
<1>4. ASSUME NEW m \in Messages, Clear(m) PROVE TypeOK'
  <2>1. Follows(m, "SENT") /\ Race(m) /\ "SENT" \in Reported
    BY <1>4 DEF Clear, CancelPending, ClearNothing, ClearDisplayed, Reported
  <2>2. generation' \in [Messages -> Nat] /\ generation[m] + 1 \in Nat
    BY <1>4 DEF Clear, CancelPending, ClearNothing, ClearDisplayed, TypeOK
  <2>3. tasks' \in [Messages -> [gen : Nat, reaction : Reactions] \cup {NoTask}]
    BY <1>4 DEF Clear, CancelPending, ClearNothing, ClearDisplayed, TypeOK
  <2>4. calls' \subseteq Call
    BY <1>4, <2>2, CallTyped DEF Clear, CancelPending, ClearNothing, ClearDisplayed, TypeOK
  <2>5. sent' \subseteq Messages /\ UNCHANGED <<displayed, faulty>>
    BY <1>4 DEF Clear, CancelPending, ClearNothing, ClearDisplayed, TypeOK
  <2> QED
    BY <1>1, <1>2, <2>1, <2>2, <2>3, <2>4, <2>5 DEF TypeOK
<1>5. ASSUME NEW m \in Messages, Wake(m) PROVE TypeOK'
  <2>1. tasks[m].gen \in Nat /\ tasks[m].reaction \in Reactions
    BY <1>5 DEF Wake, TypeOK
  <2>2. calls' \subseteq Call
    BY <1>5, <2>1, CallTyped DEF Wake, TypeOK
  <2>3. tasks' \in [Messages -> [gen : Nat, reaction : Reactions] \cup {NoTask}]
    BY <1>5 DEF Wake, TypeOK
  <2> QED
    BY <1>2, <1>5, <2>2, <2>3 DEF Wake, TypeOK
<1>6. ASSUME NEW c \in calls, Api(c) PROVE TypeOK'
  <2>1. c \in Call /\ c.key \in Messages /\ c.reaction \in Reactions \cup {"empty"}
    BY DEF TypeOK, Call
  <2>2. CASE Serve(c)
    BY <2>1, <2>2, ServedTyped DEF Serve, TypeOK
  <2>3. CASE Answered(c)
    BY <2>1, <2>3 DEF Answered, TypeOK
  <2>4. CASE CallFailed(c)
    BY <2>1, <2>4 DEF CallFailed, TypeOK
  <2> QED
    BY <1>6, <2>2, <2>3, <2>4 DEF Api
<1>7. ASSUME Restart PROVE TypeOK'
  BY <1>7, DebouncerAssumption DEF Restart, TypeOK
<1>8. ASSUME UNCHANGED vars PROVE TypeOK'
  BY <1>8 DEF vars, TypeOK
<1> QED
  BY <1>3, <1>4, <1>5, <1>6, <1>7, <1>8 DEF Next

\* Every variable of the debouncer keeps its type.
THEOREM TypeCorrect == Spec => []TypeOK
BY InitTyped, StepTyped, PTL DEF Spec
---------------------------------------------------------------------------
(* The inductive invariant, message by message.                            *)

\* A reaction is taken off once, after SENT, and from a message that shows it; before SENT a
\* reaction that was served or confirmed is on display.
Orderly(m) ==
    /\ status[m] = "none" =>
          tasks[m] = NoTask /\ CallsFor(m) = {} /\ displayed[m] = "empty" /\ m \notin sent
    /\ status[m] = "SENT" => tasks[m] = NoTask
    /\ \A c \in CallsFor(m) : c.reaction = "empty" =>
          /\ status[m] = "SENT"
          /\ ~c.served => displayed[m] # "empty"
          /\ \A d \in CallsFor(m) : d.reaction = "empty" => c = d
    /\ status[m] # "SENT" /\ (m \in sent \/ \E c \in CallsFor(m) : c.served) => displayed[m] # "empty"

\* A message whose calls neither overlapped nor failed has one call of this life at most, what it
\* shows is remembered or about to be, and once it is SENT what it shows is about to be taken off.
Clean(m) ==
    /\ \A c, d \in CallsFor(m) : c = d
    /\ \A c \in CallsFor(m) : c.life = life
    /\ status[m] # "none" => inLife[m] = life
    /\ status[m] = "SENT" =>
          /\ \A c \in CallsFor(m) : c.reaction = "empty"
          /\ displayed[m] # "empty" => \E c \in CallsFor(m) : ~c.served
    /\ status[m] = "PENDING" =>
          /\ displayed[m] # "empty" => m \in sent \/ CallsFor(m) # {}
          /\ tasks[m] # NoTask => displayed[m] = "empty" /\ CallsFor(m) = {} /\ m \notin sent

MsgInv(m) == Orderly(m) /\ (m \notin raced \cup faulty => Clean(m))
DebouncerInv == \A m \in Messages : MsgInv(m)

\* A step that is not about message o.
Same(o) ==
    /\ UNCHANGED <<life, status[o], inLife[o], tasks[o], displayed[o]>>
    /\ o \in sent' <=> o \in sent
    /\ \A c : c \in CallsFor(o)' <=> c \in CallsFor(o)
    /\ o \in raced \cup faulty => o \in raced' \cup faulty'

LEMMA SameMsg == ASSUME NEW o, MsgInv(o), Same(o) PROVE MsgInv(o)'
<1>1. CallsFor(o)' = CallsFor(o)
  BY DEF Same
<1>2. Orderly(o)'
  BY <1>1 DEF MsgInv, Orderly, Same
<1>3. Clean(o) => Clean(o)'
  BY <1>1 DEF Clean, Same
<1> QED
  BY <1>2, <1>3 DEF MsgInv, Same

\* A step about message m.
LEMMA OneMessage ==
    ASSUME DebouncerInv, NEW m, \A o \in Messages : o # m => Same(o), MsgInv(m)'
    PROVE  DebouncerInv'
BY SameMsg DEF DebouncerInv

LEMMA InvSchedule ==
    ASSUME TypeOK, DebouncerInv, NEW m \in Messages, NEW st \in Reactions, Schedule(m, st)
    PROVE  DebouncerInv'
<1>1. /\ status' = [status EXCEPT ![m] = st] /\ inLife' = [inLife EXCEPT ![m] = life]
      /\ UNCHANGED <<life, sent, calls, displayed, raced, faulty>>
      /\ tasks' = [tasks EXCEPT ![m] = [gen |-> generation[m] + 1, reaction |-> st]]
      /\ status[m] \in {"none", "PENDING"} /\ (st = "PENDING" => status[m] = "none" \/ inLife[m] < life)
  BY DEF Schedule, Follows, Reactions, Reported
<1>2. /\ status'[m] = st /\ st \notin {"none", "SENT"} /\ inLife'[m] = life
      /\ \A o : CallsFor(o)' = CallsFor(o)
  BY <1>1 DEF TypeOK, Reactions, Reported, CallsFor
<1>3. \A o \in Messages : o # m => Same(o)
  BY <1>1, <1>2 DEF Same, TypeOK
<1>4. MsgInv(m)
  BY DEF DebouncerInv
<1>5. Orderly(m)'
  BY <1>1, <1>2, <1>4 DEF MsgInv, Orderly
<1>6. ASSUME Clean(m) PROVE Clean(m)'
  <2>1. st = "PENDING" => status[m] = "none"
    <3>1. inLife[m] \in Nat /\ life \in Nat
      BY DebouncerAssumption DEF TypeOK
    <3> QED
      BY <1>1, <1>6, <3>1 DEF Clean
  <2> QED
    BY <1>1, <1>2, <1>4, <1>6, <2>1 DEF MsgInv, Orderly, Clean
<1>7. MsgInv(m)'
  BY <1>1, <1>4, <1>5, <1>6 DEF MsgInv
<1> QED
  BY <1>3, <1>7, OneMessage

\* The bot makes a call for message m.
LEMMA NewCall ==
    ASSUME NEW m \in Messages, NEW c, c.key = m, calls' = calls \cup {c}
    PROVE  CallsFor(m)' = CallsFor(m) \cup {c} /\ \A o \in Messages : o # m => CallsFor(o)' = CallsFor(o)
BY DEF CallsFor

LEMMA InvClear ==
    ASSUME TypeOK, DebouncerInv, NEW m \in Messages, Clear(m)
    PROVE  DebouncerInv'
<1>1. /\ status' = [status EXCEPT ![m] = "SENT"] /\ inLife' = [inLife EXCEPT ![m] = life]
      /\ UNCHANGED <<life, displayed, faulty>> /\ tasks' = [tasks EXCEPT ![m] = NoTask]
      /\ status[m] = "PENDING" /\ inLife[m] = life /\ Race(m)
  <2>1. Follows(m, "SENT") /\ Race(m) /\ UNCHANGED <<displayed, faulty>>
    BY DEF Clear, CancelPending, ClearNothing, ClearDisplayed
  <2>2. tasks' = [tasks EXCEPT ![m] = NoTask]
    BY DEF Clear, CancelPending, ClearNothing, ClearDisplayed, TypeOK
  <2> QED
    BY <2>1, <2>2 DEF Follows
<1>2. status'[m] = "SENT" /\ inLife'[m] = life /\ tasks'[m] = NoTask
  BY <1>1 DEF TypeOK
<1>3. /\ raced \subseteq raced' /\ \A o \in Messages : o # m => (o \in raced' <=> o \in raced)
      /\ m \notin raced' => CallsFor(m) = {} /\ m \notin raced
  BY <1>1 DEF Race
<1>4. MsgInv(m)
  BY DEF DebouncerInv
<1>5. CASE CancelPending(m) \/ ClearNothing(m)
  <2>1. UNCHANGED <<calls, sent>> /\ (tasks[m] # NoTask \/ m \notin sent) /\ \A o : CallsFor(o)' = CallsFor(o)
    BY <1>5 DEF CancelPending, ClearNothing, CallsFor
  <2>2. \A o \in Messages : o # m => Same(o)
    BY <1>1, <1>3, <2>1 DEF Same, TypeOK
  <2>3. Orderly(m)'
    BY <1>1, <1>2, <1>4, <2>1 DEF MsgInv, Orderly
  <2>4. ASSUME m \notin raced' \cup faulty' PROVE Clean(m)'
    BY <1>1, <1>2, <1>3, <1>4, <2>1, <2>4 DEF MsgInv, Clean
  <2> QED
    BY <2>2, <2>3, <2>4, OneMessage DEF MsgInv
<1>6. CASE ClearDisplayed(m)
  <2> DEFINE c == [key |-> m, gen |-> generation[m] + 1, reaction |-> "empty", life |-> life, served |-> FALSE]
  <2>1. /\ calls' = calls \cup {c} /\ sent' = sent \ {m} /\ m \in sent
        /\ c.key = m /\ c.reaction = "empty" /\ c.life = life /\ ~c.served
    BY <1>6 DEF ClearDisplayed
  <2> HIDE DEF c
  <2>2. CallsFor(m)' = CallsFor(m) \cup {c} /\ \A o \in Messages : o # m => CallsFor(o)' = CallsFor(o)
    BY <2>1, NewCall
  <2>3. \A o \in Messages : o # m => Same(o)
    BY <1>1, <1>3, <2>1, <2>2 DEF Same, TypeOK
  <2>4. displayed[m] # "empty" /\ \A d \in CallsFor(m) : d.reaction # "empty"
    BY <1>1, <1>4, <2>1 DEF MsgInv, Orderly
  <2>5. Orderly(m)'
    BY <1>1, <1>2, <2>1, <2>2, <2>4 DEF Orderly
  <2>6. ASSUME m \notin raced' \cup faulty' PROVE Clean(m)'
    BY <1>1, <1>2, <1>3, <2>1, <2>2, <2>6 DEF Clean
  <2> QED
    BY <2>3, <2>5, <2>6, OneMessage DEF MsgInv
<1> QED
  BY <1>5, <1>6 DEF Clear

LEMMA InvWake ==
    ASSUME TypeOK, DebouncerInv, NEW m \in Messages, Wake(m)
    PROVE  DebouncerInv'
<1> DEFINE c == [key |-> m, gen |-> tasks[m].gen, reaction |-> tasks[m].reaction,
                 life |-> life, served |-> FALSE]
<1>1. /\ tasks[m] # NoTask /\ tasks' = [tasks EXCEPT ![m] = NoTask] /\ Race(m)
      /\ UNCHANGED <<life, status, inLife, sent, displayed, faulty>>
      /\ calls' = calls \cup {c}
      /\ c.key = m /\ c.reaction = tasks[m].reaction /\ c.life = life /\ ~c.served
  BY DEF Wake, coreVars
<1> HIDE DEF c
<1>2. c.reaction # "empty"
  BY <1>1 DEF TypeOK, Reactions, Reported
<1>3. /\ raced \subseteq raced' /\ \A o \in Messages : o # m => (o \in raced' <=> o \in raced)
      /\ m \notin raced' => CallsFor(m) = {} /\ m \notin raced
  BY <1>1 DEF Race
<1>4. CallsFor(m)' = CallsFor(m) \cup {c} /\ \A o \in Messages : o # m => CallsFor(o)' = CallsFor(o)
  BY <1>1, NewCall
<1>5. \A o \in Messages : o # m => Same(o)
  BY <1>1, <1>3, <1>4 DEF Same, TypeOK
<1>6. MsgInv(m) /\ tasks'[m] = NoTask
  BY <1>1 DEF DebouncerInv, TypeOK
<1>7. Orderly(m)'
  BY <1>1, <1>2, <1>4, <1>6 DEF MsgInv, Orderly
<1>8. ASSUME m \notin raced' \cup faulty' PROVE Clean(m)'
  BY <1>1, <1>3, <1>4, <1>6, <1>8 DEF MsgInv, Orderly, Clean
<1> QED
  BY <1>5, <1>7, <1>8, OneMessage DEF MsgInv
\* The server carries out a call c about message m.
LEMMA InvServe ==
    ASSUME TypeOK, DebouncerInv, NEW c \in calls, Serve(c)
    PROVE  DebouncerInv'
<1> DEFINE d == [c EXCEPT !.served = TRUE]
<1> SUFFICES ASSUME NEW m \in Messages, m = c.key PROVE DebouncerInv'
  BY DEF TypeOK, Call
<1>1. /\ c \in Call /\ d.key = m /\ d.life = c.life /\ d.reaction = c.reaction /\ d.served
      /\ c.reaction \in Reactions \cup {"empty"}
  BY ServedTyped DEF TypeOK, Call
<1>2. /\ ~c.served /\ calls' = (calls \ {c}) \cup {d} /\ displayed' = [displayed EXCEPT ![m] = c.reaction]
      /\ UNCHANGED <<life, status, inLife, tasks, sent, raced, faulty>>
  BY DEF Serve, coreVars, botVars
<1> HIDE DEF d
<1>3. /\ c \in CallsFor(m) /\ CallsFor(m)' = (CallsFor(m) \ {c}) \cup {d}
      /\ \A o \in Messages : o # m => CallsFor(o)' = CallsFor(o)
  BY <1>1, <1>2 DEF CallsFor
<1>4. displayed'[m] = c.reaction /\ \A o \in Messages : o # m => displayed'[o] = displayed[o]
  BY <1>2 DEF TypeOK
<1>5. \A o \in Messages : o # m => Same(o)
  BY <1>2, <1>3, <1>4 DEF Same
<1>6. MsgInv(m)
  BY DEF DebouncerInv
<1>7. Orderly(m)'
  <2>1. status[m] # "none"
    BY <1>3, <1>6 DEF MsgInv, Orderly
  <2>2. ASSUME NEW x \in CallsFor(m)', x.reaction = "empty"
        PROVE  /\ status[m] = "SENT" /\ (~x.served => displayed'[m] # "empty")
               /\ \A y \in CallsFor(m)' : y.reaction = "empty" => x = y
    <3>1. status[m] = "SENT"
      BY <1>1, <1>3, <1>6, <2>2 DEF MsgInv, Orderly
    <3>2. CASE c.reaction = "empty"
      <4>1. \A y \in CallsFor(m)' : y.reaction = "empty" => y = d
        BY <1>1, <1>3, <1>6, <3>2 DEF MsgInv, Orderly
      <4> QED
        BY <1>1, <2>2, <3>1, <4>1
    <3>3. CASE c.reaction # "empty"
      <4>1. \A y \in CallsFor(m)' : y.reaction = "empty" => y \in CallsFor(m)
        BY <1>1, <1>3, <3>3
      <4> QED
        BY <1>4, <1>6, <2>2, <3>1, <3>3, <4>1 DEF MsgInv, Orderly
    <3> QED
      BY <3>2, <3>3
  <2>3. status[m] # "SENT" => displayed'[m] # "empty"
    BY <1>3, <1>4, <1>6 DEF MsgInv, Orderly
  <2> QED
    BY <1>2, <1>6, <2>1, <2>2, <2>3 DEF MsgInv, Orderly
<1>8. ASSUME Clean(m) PROVE Clean(m)'
  <2>1. CallsFor(m)' = {d}
    BY <1>3, <1>8 DEF Clean
  <2> QED
    BY <1>1, <1>2, <1>3, <1>4, <1>8, <2>1 DEF Clean
<1> QED
  BY <1>2, <1>5, <1>6, <1>7, <1>8, OneMessage DEF MsgInv

\* The answer to call c arrives.
LEMMA InvAnswered ==
    ASSUME TypeOK, DebouncerInv, NEW c \in calls, Answered(c)
    PROVE  DebouncerInv'
<1> SUFFICES ASSUME NEW m \in Messages, m = c.key PROVE DebouncerInv'
  BY DEF TypeOK, Call
<1>1. /\ c.served /\ calls' = calls \ {c}
      /\ sent' = IF c.reaction # "empty" /\ c.life = life THEN sent \cup {m} ELSE sent
      /\ UNCHANGED <<life, status, inLife, tasks, displayed, raced, faulty>>
  BY DEF Answered, coreVars
<1>2. /\ c \in CallsFor(m) /\ CallsFor(m)' = CallsFor(m) \ {c}
      /\ \A o \in Messages : o # m => CallsFor(o)' = CallsFor(o)
  BY <1>1 DEF CallsFor
<1>3. \A o \in Messages : o # m => Same(o)
  BY <1>1, <1>2 DEF Same
<1>4. MsgInv(m)
  BY DEF DebouncerInv
<1>5. Orderly(m)'
  BY <1>1, <1>2, <1>4 DEF MsgInv, Orderly
<1>6. ASSUME Clean(m) PROVE Clean(m)'
  <2>1. CallsFor(m)' = {} /\ CallsFor(m) = {c} /\ c.life = life
    BY <1>2, <1>6 DEF Clean
  <2>2. status[m] = "PENDING" => c.reaction # "empty"
    BY <1>2, <1>4 DEF MsgInv, Orderly
  <2> QED
    BY <1>1, <1>6, <2>1, <2>2 DEF Clean
<1> QED
  BY <1>1, <1>3, <1>4, <1>5, <1>6, OneMessage DEF MsgInv

\* Call c fails: of its message nothing more is promised.
LEMMA InvFailed ==
    ASSUME TypeOK, DebouncerInv, NEW c \in calls, CallFailed(c)
    PROVE  DebouncerInv'
<1> SUFFICES ASSUME NEW m \in Messages, m = c.key PROVE DebouncerInv'
  BY DEF TypeOK, Call
<1>1. /\ calls' = calls \ {c} /\ faulty' = faulty \cup {m}
      /\ UNCHANGED <<life, status, inLife, tasks, sent, displayed, raced>>
  BY DEF CallFailed, coreVars, botVars
<1>2. CallsFor(m)' = CallsFor(m) \ {c} /\ \A o \in Messages : o # m => CallsFor(o)' = CallsFor(o)
  BY <1>1 DEF CallsFor
<1>3. \A o \in Messages : o # m => Same(o)
  BY <1>1, <1>2 DEF Same
<1>4. Orderly(m)'
  BY <1>1, <1>2 DEF DebouncerInv, MsgInv, Orderly
<1> QED
  BY <1>1, <1>3, <1>4, OneMessage DEF MsgInv

\* The process dies: of what was reported nothing more is promised.
LEMMA InvRestart == ASSUME TypeOK, DebouncerInv, Restart PROVE DebouncerInv'
<1> SUFFICES ASSUME NEW m \in Messages PROVE MsgInv(m)'
  BY DEF DebouncerInv
<1>1. /\ tasks' = [o \in Messages |-> NoTask] /\ sent' = {}
      /\ faulty' = faulty \cup {o \in Messages : status[o] # "none"}
      /\ UNCHANGED <<status, calls, displayed, raced>>
  BY DEF Restart
<1>2. CallsFor(m)' = CallsFor(m) /\ tasks'[m] = NoTask /\ MsgInv(m)
  BY <1>1 DEF CallsFor, DebouncerInv
<1>3. Orderly(m)'
  BY <1>1, <1>2 DEF MsgInv, Orderly
<1>4. ASSUME m \notin faulty' PROVE Clean(m)'
  <2>1. status[m] = "none" /\ CallsFor(m)' = {}
    BY <1>1, <1>2, <1>4 DEF MsgInv, Orderly
  <2> QED
    BY <1>1, <2>1 DEF Clean
<1> QED
  BY <1>3, <1>4 DEF MsgInv

LEMMA InitInv == Init => DebouncerInv
BY DEF Init, DebouncerInv, MsgInv, Orderly, Clean, CallsFor

LEMMA StepInv == TypeOK /\ DebouncerInv /\ [Next]_vars => DebouncerInv'
<1>1. ASSUME DebouncerInv, UNCHANGED vars PROVE DebouncerInv'
  BY <1>1 DEF vars, coreVars, botVars, DebouncerInv, MsgInv, Orderly, Clean, CallsFor
<1> QED
  BY <1>1, InvSchedule, InvClear, InvWake, InvServe, InvAnswered, InvFailed, InvRestart DEF Next, Api

THEOREM DebouncerInvariant == Spec => [](TypeOK /\ DebouncerInv)
BY InitTyped, StepTyped, InitInv, StepInv, PTL DEF Spec

\* A message that was reported as sent shows no reaction once everything has settled, unless its
\* calls overlapped or failed, or the process died.
THEOREM SentLeavesNothing == Spec => []SentIsClean
<1>1. DebouncerInv => SentIsClean
  BY DEF DebouncerInv, MsgInv, Clean, SentIsClean, Settled
<1> QED
  BY <1>1, DebouncerInvariant, PTL

\* A call that takes a reaction off is served only where a reaction is shown, races included.
THEOREM ClearsWhatIsThere == Spec => []ClearIsNeeded
<1>1. TypeOK /\ DebouncerInv => ClearIsNeeded
  <2> SUFFICES ASSUME TypeOK, DebouncerInv, NEW c \in calls, c.reaction = "empty", ~c.served
               PROVE  displayed[c.key] # "empty"
    BY DEF ClearIsNeeded
  <2>1. c.key \in Messages /\ c \in CallsFor(c.key)
    BY DEF TypeOK, Call, CallsFor
  <2> QED
    BY <2>1 DEF DebouncerInv, MsgInv, Orderly
<1> QED
  BY <1>1, DebouncerInvariant, PTL
=============================================================================
