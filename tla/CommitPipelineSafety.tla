------------------------ MODULE CommitPipelineSafety ------------------------
(***************************************************************************)
(* What the journal, the queues and the sender are told agree, for every   *)
(* value of the constants: at most one message of a node in the air,       *)
(* persist before act, copies after commit, no accepted message forgotten, *)
(* statuses that only go forward, and FIFO with at most one attempt as     *)
(* SerialSender states it.                                                 *)
(***************************************************************************)
EXTENDS CommitPipelineProofs, CommitPipelineRefinement

\* What a table says of message m.
Says(table, m) == IF table[Key(m)] = NoRow THEN "none" ELSE table[Key(m)].st

\* Where a message is: in a queue, in the hands of its worker (and what the worker does), or out.
Stage(m) ==
    IF InQueue(m) THEN "line"
    ELSE IF worker[Target[m]] # "idle" /\ held[Target[m]] = m THEN worker[Target[m]]
    ELSE "out"
Early == {"line", "marking", "expiring"}

\* Where a worker waits for the journal, the call it made and what that call leaves in the table.
Waits == {"marking", "expiring", "committing", "failing", "pruning"}
CallAt(stage) == IF stage = "pruning" THEN "delete" ELSE "set"
Aim(stage) ==
    CASE stage = "marking"    -> "TRANSMITTING"
      [] stage = "expiring"   -> "REJECTED"
      [] stage = "committing" -> "SENT"
      [] stage = "failing"    -> "FAILED"
      [] OTHER                -> "none"

\* What the tables may say of a message at a stage.
MaySay(stage) ==
    CASE stage = "line"       -> {"none", "PENDING"}
      [] stage = "marking"    -> {"none", "PENDING", "TRANSMITTING"}
      [] stage = "expiring"   -> {"none", "PENDING", "REJECTED"}
      [] stage \in {"sending", "backoff"} -> {"TRANSMITTING"}
      [] stage = "committing" -> {"TRANSMITTING", "SENT"}
      [] stage = "failing"    -> {"TRANSMITTING", "FAILED"}
      [] stage = "mirroring"  -> {"SENT"}
      [] stage = "pruning"    -> {"SENT", "none"}
      [] OTHER                -> Statuses \cup {"none"}

InRecovery(m, st) == \E r \in orphans : r.msg = m /\ r.st = st

\* The calls under way, those of them whose statement has run, whose COMMIT has run, and the
\* messages whose INSERT has not run.
Calls == {requests[i] : i \in DOMAIN requests} \cup {replies[i] : i \in DOMAIN replies}
Ran == {requests[i] : i \in {j \in DOMAIN requests : requests[j].op = "commit"}}
       \cup {replies[i] : i \in DOMAIN replies}
Durable == {replies[i] : i \in {j \in DOMAIN replies : replies[j].op = "commit"}}
Inserting == {requests[i].msg : i \in {j \in DOMAIN requests : requests[j].op = "insert"}}

\* The task that made a call still waits for it, and this is its call.
Awaited(x) ==
    \/ /\ x.by = "consume" /\ x.op \in {"insert", "commit"}
       /\ Stage(x.msg) \in Early /\ shown[x.msg] = "none"
    \/ /\ x.by = "egress" /\ x.op \in {CallAt(Stage(x.msg)), "commit"}
       /\ Stage(x.msg) \in Waits
       /\ x.op = "set" => x.st = Aim(Stage(x.msg))
    \/ /\ x.by = "recover" /\ x.op \in {"set", "commit"}
       /\ InRecovery(x.msg, "TRANSMITTING")
       /\ x.op = "set" => x.st = "UNKNOWN"

\* What a table says once the statement of call x has run.
Shows(table, x) ==
    /\ x.by = "consume" => Says(table, x.msg) # "none"
    /\ x.by = "egress"  => Says(table, x.msg) = Aim(Stage(x.msg))
    /\ x.by = "recover" => Says(table, x.msg) = "UNKNOWN"

CallFits(x) ==
    /\ Awaited(x)
    /\ x \in Ran => Shows(db, x)
    /\ x \in Durable => Shows(disk, x)

\* No task has two calls about one message under way.
Twins(x, y) == x.by = y.by /\ x.msg = y.msg
NoTwins ==
    /\ \A i, j \in DOMAIN requests : Twins(requests[i], requests[j]) => i = j
    /\ \A i, j \in DOMAIN replies : Twins(replies[i], replies[j]) => i = j
    /\ \A i \in DOMAIN requests, j \in DOMAIN replies : ~Twins(requests[i], replies[j])

\* record_pending of a message is ahead of what its worker asks, from the first statement to the
\* last answer.
Rivals(c, e) == c.by = "consume" /\ e.by = "egress" /\ c.msg = e.msg
Leads(c, e) == e.op = "commit" => c.op = "commit"
Level(c, e) == c.op = "commit" <=> e.op = "commit"
NoOvertaking ==
    /\ \A i, j \in DOMAIN requests : Rivals(requests[i], requests[j]) =>
          Leads(requests[i], requests[j]) /\ (Level(requests[i], requests[j]) => i < j)
    /\ \A i, j \in DOMAIN replies : Rivals(replies[i], replies[j]) =>
          Leads(replies[i], replies[j]) /\ (Level(replies[i], replies[j]) => i < j)
    /\ \A i \in DOMAIN replies, j \in DOMAIN requests :
          Rivals(replies[i], requests[j]) => Leads(replies[i], requests[j])
    /\ \A i \in DOMAIN requests, j \in DOMAIN replies :
          Rivals(requests[i], replies[j]) => requests[i].op = "commit" /\ replies[j].op # "commit"
Lines == NoTwins /\ NoOvertaking

\* What the tables say of a message that is being handled, or that recovery has read.
Rows(m) ==
    /\ {Says(db, m), Says(disk, m)} \subseteq MaySay(Stage(m))
    /\ InRecovery(m, "PENDING") => Says(db, m) = "PENDING" /\ Says(disk, m) = "PENDING"
    /\ InRecovery(m, "TRANSMITTING") => {Says(db, m), Says(disk, m)} \subseteq {"TRANSMITTING", "UNKNOWN"}

\* A TRANSMITTING row is that of a message in the hands of its worker, or recovery knows it.
Aloft(m) ==
    "TRANSMITTING" \in {Says(db, m), Says(disk, m)} =>
        \/ Stage(m) # "out" \/ phase = "down"
        \/ phase = "recovering" /\ InRecovery(m, "TRANSMITTING")

\* A message in line has its row, or its INSERT is on the way.
Backed(m) == Stage(m) \in Early => Says(db, m) # "none" \/ m \in Inserting

\* What the sender has been shown, against the tables and the workers.
ToldRow(table, m) ==
    /\ shown[m] \in {"PENDING", "TRANSMITTING"} => Says(table, m) # "none"
    /\ Says(table, m) = "PENDING" => shown[m] \in {"none", "PENDING"}
    /\ Says(table, m) = "TRANSMITTING" => shown[m] \in {"none", "PENDING", "TRANSMITTING", "UNKNOWN"}
Told(m) ==
    /\ ToldRow(db, m) /\ ToldRow(disk, m)
    /\ shown[m] # "none" => m \in arrived /\ FromMessenger(m)
    /\ InRecovery(m, "TRANSMITTING") => shown[m] \in {"none", "PENDING", "TRANSMITTING", "UNKNOWN"}
    /\ Stage(m) \in Early => shown[m] \in {"none", "PENDING"}
    /\ Stage(m) \notin Early \cup {"out"} /\ FromMessenger(m) =>
          shown[m] = IF Stage(m) \in {"mirroring", "pruning"} THEN "SENT" ELSE "TRANSMITTING"

\* A message has begun once it is past the marking, and one that was copied is SENT or forgotten.
Copied(m) ==
    /\ Stage(m) \in Early => m \notin begun
    /\ Stage(m) \notin Early \cup {"out"} => m \in begun
    /\ mirrored[m] # {} => /\ m \in begun /\ {Says(db, m), Says(disk, m)} \subseteq {"none", "SENT"}
                           /\ Stage(m) \in {"out", "mirroring", "pruning"}

MsgInv(m) == Rows(m) /\ Aloft(m) /\ Backed(m) /\ Told(m) /\ Copied(m)

\* No two rows of one node are TRANSMITTING.
OneAir(table) ==
    \A a, b \in Msgs : Says(table, a) = "TRANSMITTING" /\ Says(table, b) = "TRANSMITTING"
                       /\ Target[a] = Target[b] => a = b

\* While the process is down there is nothing but the committed table.
Down == phase = "down" => db = disk /\ requests = <<>> /\ replies = <<>>

SafeInv ==
    /\ Lines /\ Down /\ OneAir(db) /\ OneAir(disk)
    /\ \A x \in Calls : CallFits(x)
    /\ \A m \in Msgs : MsgInv(m)

\* Order of admission: a line of messages, who is ahead of whom in it, and the number of each.
Earlier(line, m, o) == \E i, j \in DOMAIN line : i < j /\ line[i] = m /\ line[j] = o
IsAdmitted(line, m) == \E i \in DOMAIN line : line[i] = m
Numbered(line, m, id) == id + 1 \in DOMAIN line /\ line[id + 1] = m
NumberedRows(line, table) ==
    \A k \in Keys : table[k] # NoRow => Numbered(line, table[k].msg, table[k].rowid)

\* A message is admitted once, and its rows carry the place of its admission.
AdmittedOnce ==
    /\ \A i \in DOMAIN admitted : admitted[i] \in arrived
    /\ \A i, j \in DOMAIN admitted : admitted[i] = admitted[j] => i = j
RowsNumbered ==
    /\ NumberedRows(admitted, db) /\ NumberedRows(admitted, disk)
    /\ \A i \in DOMAIN requests :
          requests[i].op = "insert" => Numbered(admitted, requests[i].msg, requests[i].rowid)
    /\ \A r \in orphans : Numbered(admitted, r.msg, r.rowid)

\* The queues are sorted by admission; what a worker has taken comes before, what recovery has
\* still to put back after all that is in them.
LinesSorted ==
    /\ \A n \in Nodes : \A i \in DOMAIN queue[n] : IsAdmitted(admitted, queue[n][i])
    /\ \A n \in Nodes : \A i, j \in DOMAIN queue[n] :
          i < j => Earlier(admitted, queue[n][i], queue[n][j])
    /\ \A n \in Nodes : worker[n] \in {"marking", "expiring"} =>
          /\ IsAdmitted(admitted, held[n])
          /\ \A i \in DOMAIN queue[n] : Earlier(admitted, held[n], queue[n][i])
    /\ \A r \in orphans, n \in Nodes :
          \A i \in DOMAIN queue[n] : Earlier(admitted, queue[n][i], r.msg)
OrderInv == AdmittedOnce /\ RowsNumbered /\ LinesSorted
---------------------------------------------------------------------------
(* Tables.                                                                 *)

LEMMA SaysType ==
    ASSUME NEW table \in Table, NEW m \in Msgs
    PROVE  Says(table, m) \in Statuses \cup {"none"}
<1>1. Key(m) \in Keys
  BY DEF Keys
<1> QED
  BY <1>1 DEF Table, Row, Says

\* With unique keys a row under the key of a message is its row.
LEMMA RowInSays ==
    ASSUME UniqueKeys, NEW table \in Table, Keyed(table), NEW m \in Msgs
    PROVE  \A sts \in SUBSET Statuses : RowIn(table, m, sts) <=> Says(table, m) \in sts
<1>1. Key(m) \in Keys
  BY DEF Keys
<1>2. ASSUME table[Key(m)] # NoRow PROVE table[Key(m)].msg = m
  <2>1. table[Key(m)] \in Row /\ Key(table[Key(m)].msg) = Key(m)
    BY <1>1, <1>2 DEF Table, Keyed
  <2> QED
    BY <2>1 DEF UniqueKeys, Row
<1>3. "none" \notin Statuses
  BY DEF Statuses
<1> QED
  BY <1>1, <1>2, <1>3 DEF RowIn, Says

\* What is not in the table: a message that has not arrived.
LEMMA SaysNew ==
    ASSUME UniqueKeys, NEW table \in Table, Keyed(table), NEW m \in Msgs \ arrived
    PROVE  Says(table, m) = "none"
<1>1. Key(m) \in Keys
  BY DEF Keys
<1>2. ASSUME table[Key(m)] # NoRow PROVE FALSE
  <2>1. table[Key(m)] \in Row /\ Key(table[Key(m)].msg) = Key(m) /\ table[Key(m)].msg \in arrived
    BY <1>1, <1>2 DEF Table, Keyed
  <2> QED
    BY <2>1 DEF UniqueKeys, Row
<1> QED
  BY <1>2 DEF Says

\* The rows recover() reads are those of messages the table calls PENDING or TRANSMITTING.
LEMMA SaysRow ==
    ASSUME UniqueKeys, NEW table \in Table, Keyed(table), NEW k \in Keys, table[k] # NoRow
    PROVE  /\ table[k].msg \in Msgs /\ Key(table[k].msg) = k
           /\ Says(table, table[k].msg) = table[k].st
BY DEF Table, Row, Keyed, Says

\* A statement changes what the table says of its message only.
LEMMA SaysExecute ==
    ASSUME UniqueKeys, NEW table \in Table, NEW r \in Request, r.op # "commit",
           NEW after, after = Execute(table, r)
    PROVE  /\ \A m \in Msgs : m # r.msg => Says(after, m) = Says(table, m)
           /\ r.op = "insert" => Says(after, r.msg) = "PENDING"
           /\ r.op = "set" => Says(after, r.msg) = IF Says(table, r.msg) = "none" THEN "none" ELSE r.st
           /\ r.op = "delete" => Says(after, r.msg) = "none"
<1>1. /\ Key(r.msg) \in Keys /\ r.msg \in Msgs
      /\ \A k \in Keys : k # Key(r.msg) => after[k] = table[k]
      /\ r.op = "set" => \/ table[Key(r.msg)] = NoRow /\ after = table
                         \/ table[Key(r.msg)] # NoRow /\ after[Key(r.msg)].st = r.st
      /\ r.op = "delete" => after[Key(r.msg)] = NoRow
      /\ r.op \in {"insert", "set", "delete"}
  BY ExecuteEffect
<1>2. \A m \in Msgs : Key(m) \in Keys /\ (m # r.msg => Key(m) # Key(r.msg))
  BY <1>1 DEF UniqueKeys, Keys
<1>3. \A m \in Msgs : m # r.msg => Says(after, m) = Says(table, m)
  BY <1>1, <1>2 DEF Says
<1>4. ASSUME r.op = "insert" PROVE Says(after, r.msg) = "PENDING"
  <2> DEFINE row == [msg |-> r.msg, st |-> "PENDING", rowid |-> r.rowid]
  <2>1. after = [table EXCEPT ![Key(r.msg)] = row]
    BY <1>4 DEF Execute
  <2>2. row \in Row
    BY <1>1 DEF Row, Statuses, Request
  <2>3. after[Key(r.msg)] = row /\ row # NoRow /\ row.st = "PENDING"
    BY <1>1, <2>1, <2>2, RowAssumption DEF Table
  <2> QED
    BY <2>3 DEF Says
<1>5. ASSUME r.op = "set"
      PROVE  Says(after, r.msg) = IF Says(table, r.msg) = "none" THEN "none" ELSE r.st
  <2>1. CASE table[Key(r.msg)] = NoRow
    BY <1>1, <1>5, <2>1 DEF Says
  <2>2. CASE table[Key(r.msg)] # NoRow
    <3>1. Says(table, r.msg) # "none"
      BY <1>1, <2>2 DEF Says, Table, Row, Statuses
    <3>2. after \in Table
      BY ExecuteTyped
    <3>3. after = [table EXCEPT ![Key(r.msg)].st = r.st]
      BY <1>5, <2>2 DEF Execute
    <3>4. after[Key(r.msg)] = [table[Key(r.msg)] EXCEPT !.st = r.st] /\ table[Key(r.msg)] \in Row
      BY <1>1, <2>2, <3>3 DEF Table
    <3>5. after[Key(r.msg)] \in Row /\ after[Key(r.msg)].st = r.st
      BY <3>4 DEF Row, Request
    <3> QED
      BY <3>1, <3>5, RowAssumption DEF Says
  <2> QED
    BY <2>1, <2>2
<1> QED
  BY <1>1, <1>3, <1>4, <1>5 DEF Says
---------------------------------------------------------------------------
(* The calls under way: what a step does to the sets they form, and that   *)
(* none overtakes another.                                                 *)

\* t is s without its oldest element; t is s and one more element e at the end.
Dropped(s, t) ==
    /\ 1 \in DOMAIN s /\ Head(s) = s[1] /\ Head(s) \in Request
    /\ \A i \in DOMAIN t : /\ i \in Nat /\ i + 1 \in DOMAIN s /\ t[i] = s[i + 1] /\ i + 1 # 1 /\ ~(i + 1 < 1)
    /\ \A i, j \in DOMAIN t : (i + 1 = j + 1 => i = j) /\ (i + 1 < j + 1 => i < j)
    /\ \A j \in DOMAIN s : j = 1 \/ \E i \in DOMAIN t : t[i] = s[j]
Added(s, e, t, last) ==
    /\ last \in DOMAIN t /\ t[last] = e /\ last \notin DOMAIN s
    /\ \A i \in DOMAIN t : i = last \/ i \in DOMAIN s
    /\ \A i \in DOMAIN s : i \in DOMAIN t /\ t[i] = s[i] /\ i < last /\ ~(last < i)

LEMMA TailMembers == \A s \in Seq(Request) : s # <<>> => Dropped(s, Tail(s))
<1> SUFFICES ASSUME NEW s \in Seq(Request), s # <<>>, NEW t, t = Tail(s) PROVE Dropped(s, t)
  OBVIOUS
<1>1. /\ DOMAIN s = 1..Len(s) /\ Len(s) \in Nat /\ 1 \in DOMAIN s /\ Head(s) = s[1] /\ Head(s) \in Request
      /\ DOMAIN t = 1..(Len(s) - 1)
      /\ \A i \in DOMAIN t : t[i] = s[i + 1]
  OBVIOUS
<1>2. ASSUME NEW j \in DOMAIN s, j # 1 PROVE \E i \in DOMAIN t : t[i] = s[j]
  <2>1. j - 1 \in DOMAIN t /\ (j - 1) + 1 = j
    BY <1>1, <1>2
  <2> QED
    BY <1>1, <2>1
<1> QED
  BY <1>1, <1>2 DEF Dropped

LEMMA AppendMembers == \A s \in Seq(Request), e \in Request : Added(s, e, Append(s, e), Len(s) + 1)
<1> SUFFICES ASSUME NEW s \in Seq(Request), NEW e \in Request, NEW t, t = Append(s, e)
             PROVE  Added(s, e, t, Len(s) + 1)
  OBVIOUS
<1>1. /\ DOMAIN s = 1..Len(s) /\ Len(s) \in Nat
      /\ DOMAIN t = 1..(Len(s) + 1) /\ t[Len(s) + 1] = e
      /\ \A i \in DOMAIN s : t[i] = s[i]
  OBVIOUS
<1> QED
  BY <1>1 DEF Added

LEMMA CallsTyped == ASSUME TypeOK PROVE Calls \subseteq Request /\ Ran \subseteq Calls /\ Durable \subseteq Ran
BY DEF TypeOK, Calls, Ran, Durable

\* A step that makes no call and takes no answer.
LEMMA LinesIdle ==
    ASSUME Lines, UNCHANGED <<requests, replies>>
    PROVE  Lines' /\ UNCHANGED <<Calls, Ran, Durable, Inserting>>
BY DEF Lines, NoTwins, NoOvertaking, Calls, Ran, Durable, Inserting

\* A task submits call e, and has no other about this message; the consumer is the first to ask.
LEMMA LinesSubmit ==
    ASSUME TypeOK, Lines, NEW e \in Request, e.op # "commit",
           requests' = Append(requests, e), UNCHANGED replies,
           \A x \in Calls : ~Twins(x, e) /\ ~Rivals(e, x)
    PROVE  /\ Lines' /\ Calls' = Calls \cup {e} /\ UNCHANGED <<Ran, Durable>>
           /\ Inserting' = IF e.op = "insert" THEN Inserting \cup {e.msg} ELSE Inserting
<1>1. /\ DOMAIN requests' = 1..(Len(requests) + 1) /\ DOMAIN requests = 1..Len(requests)
      /\ Len(requests) \in Nat
      /\ requests'[Len(requests) + 1] = e
      /\ \A i \in DOMAIN requests : requests'[i] = requests[i]
  BY DEF TypeOK
<1>2. /\ \A i \in DOMAIN requests : requests[i] \in Calls
      /\ \A i \in DOMAIN replies : replies[i] \in Calls
  BY DEF Calls
<1>3. NoTwins'
  BY <1>1, <1>2 DEF Lines, NoTwins, Twins
<1>4. NoOvertaking'
  <2>1. \A i, j \in DOMAIN requests' : Rivals(requests'[i], requests'[j]) =>
          Leads(requests'[i], requests'[j]) /\ (Level(requests'[i], requests'[j]) => i < j)
    BY <1>1, <1>2 DEF Lines, NoOvertaking, Rivals, Leads, Level
  <2>2. \A i \in DOMAIN replies, j \in DOMAIN requests' :
          Rivals(replies[i], requests'[j]) => Leads(replies[i], requests'[j])
    BY <1>1, <1>2 DEF Lines, NoOvertaking, Rivals, Leads
  <2>3. \A i \in DOMAIN requests', j \in DOMAIN replies :
          Rivals(requests'[i], replies[j]) => requests'[i].op = "commit" /\ replies[j].op # "commit"
    BY <1>1, <1>2 DEF Lines, NoOvertaking, Rivals
  <2> QED
    BY <2>1, <2>2, <2>3 DEF Lines, NoOvertaking
<1>5. Calls' = Calls \cup {e}
  BY <1>1 DEF Calls
<1>6. UNCHANGED <<Ran, Durable>>
  BY <1>1 DEF Ran, Durable
<1>7. Inserting' = IF e.op = "insert" THEN Inserting \cup {e.msg} ELSE Inserting
  BY <1>1 DEF Inserting
<1> QED
  BY <1>3, <1>4, <1>5, <1>6, <1>7 DEF Lines

\* A task takes its answer h: it was durable, no call of the task remains, and when the task is a
\* worker the consumer of the message has had its answer before.
LEMMA LinesReturn ==
    ASSUME TypeOK, Lines, NEW by, NEW m, Returned(by, m), UNCHANGED requests
    PROVE  /\ Lines' /\ Calls' \subseteq Calls /\ Ran' \subseteq Ran /\ Durable' \subseteq Durable
           /\ UNCHANGED <<Inserting, db, disk>>
           /\ \E h \in Durable : h.by = by /\ h.msg = m /\ h.op = "commit"
           /\ \A x \in Calls' : x.msg = m => x.by # by /\ (by = "egress" => x.by # "consume")
<1> DEFINE h == Head(replies)
<1>1. /\ replies # <<>> /\ replies' = Tail(replies) /\ replies \in Seq(Request) /\ UNCHANGED <<db, disk>>
      /\ h.op = "commit" /\ h.by = by /\ h.msg = m
  BY DEF Returned, TypeOK
<1>2. /\ \A i \in DOMAIN replies' : /\ i + 1 \in DOMAIN replies /\ replies'[i] = replies[i + 1]
                                    /\ i \in Nat /\ i >= 1
      /\ 1 \in DOMAIN replies /\ h = replies[1]
  BY <1>1, TailOf
<1> HIDE DEF h
<1>3. NoTwins'
  BY <1>2 DEF Lines, NoTwins
<1>4. NoOvertaking'
  <2>1. \A i, j \in DOMAIN replies' : Rivals(replies'[i], replies'[j]) =>
          Leads(replies'[i], replies'[j]) /\ (Level(replies'[i], replies'[j]) => i < j)
    <3> SUFFICES ASSUME NEW i \in DOMAIN replies', NEW j \in DOMAIN replies', Rivals(replies'[i], replies'[j])
                 PROVE  Leads(replies'[i], replies'[j]) /\ (Level(replies'[i], replies'[j]) => i < j)
      OBVIOUS
    <3>1. /\ Leads(replies[i + 1], replies[j + 1])
          /\ Level(replies[i + 1], replies[j + 1]) => i + 1 < j + 1
      BY <1>2 DEF Lines, NoOvertaking
    <3> QED
      BY <1>2, <3>1
  <2>2. \A i, j \in DOMAIN requests : Rivals(requests[i], requests[j]) =>
          Leads(requests[i], requests[j]) /\ (Level(requests[i], requests[j]) => i < j)
    BY DEF Lines, NoOvertaking
  <2>3. \A i \in DOMAIN replies', j \in DOMAIN requests :
          Rivals(replies'[i], requests[j]) => Leads(replies'[i], requests[j])
    BY <1>2 DEF Lines, NoOvertaking
  <2>4. \A i \in DOMAIN requests, j \in DOMAIN replies' :
          Rivals(requests[i], replies'[j]) => requests[i].op = "commit" /\ replies'[j].op # "commit"
    BY <1>2 DEF Lines, NoOvertaking
  <2> QED
    BY <2>1, <2>2, <2>3, <2>4 DEF NoOvertaking
<1>5. Calls' \subseteq Calls /\ Ran' \subseteq Ran /\ Durable' \subseteq Durable /\ UNCHANGED Inserting
  BY <1>2 DEF Calls, Ran, Durable, Inserting
<1>6. h \in Durable
  BY <1>1, <1>2 DEF Durable
<1>7. \A i \in DOMAIN requests : ~Twins(requests[i], h) /\ (by = "egress" => ~Rivals(requests[i], h))
  BY <1>1, <1>2 DEF Lines, NoTwins, NoOvertaking
<1>8. \A i \in DOMAIN replies : i # 1 => ~Twins(replies[i], h) /\ (by = "egress" => ~Rivals(replies[i], h))
  <2> SUFFICES ASSUME NEW i \in DOMAIN replies, i # 1
               PROVE  ~Twins(replies[i], replies[1]) /\ ~Rivals(replies[i], replies[1])
    BY <1>2
  <2>1. ~Twins(replies[i], replies[1])
    BY <1>2 DEF Lines, NoTwins
  <2>2. Rivals(replies[i], replies[1]) => Level(replies[i], replies[1]) /\ i < 1
    BY <1>1, <1>2 DEF Lines, NoOvertaking, Leads, Level
  <2>3. ~(i < 1)
    BY <1>1
  <2> QED
    BY <2>1, <2>2, <2>3
<1>9. ASSUME NEW x \in Calls', x.msg = m PROVE x.by # by /\ (by = "egress" => x.by # "consume")
  <2>1. \/ \E i \in DOMAIN requests : x = requests[i]
        \/ \E i \in DOMAIN replies : i # 1 /\ x = replies[i]
    BY <1>2, <1>9 DEF Calls
  <2>2. ~Twins(x, h) /\ (by = "egress" => ~Rivals(x, h))
    BY <1>7, <1>8, <2>1
  <2> QED
    BY <1>1, <1>9, <2>2 DEF Twins, Rivals
<1> QED
  BY <1>1, <1>3, <1>4, <1>5, <1>6, <1>9 DEF Lines
\* The thread runs statement h: the others stay where they are, and the consumer's INSERT has run
\* before anything the worker asks.
LEMMA LinesRun ==
    ASSUME TypeOK, Lines, NEW h, h = Head(requests), requests # <<>>, h.op # "commit",
           requests' = Tail(requests), replies' = Append(replies, h)
    PROVE  /\ Lines' /\ h \in Request /\ h \in Calls /\ UNCHANGED Calls /\ UNCHANGED Durable
           /\ Ran' = Ran \cup {h} /\ h \notin Durable
           /\ \A x \in Ran : ~Twins(x, h) /\ ~Rivals(h, x)
           /\ \A m \in Inserting : m \in Inserting' \/ (h.op = "insert" /\ h.msg = m)
           /\ \A i \in DOMAIN requests : requests[i].op = "insert" => ~Rivals(requests[i], h)
<1>1. requests \in Seq(Request) /\ replies \in Seq(Request)
  BY DEF TypeOK
<1>2. Dropped(requests, requests') /\ h = requests[1] /\ h \in Request
  <2>1. Dropped(requests, requests')
    BY <1>1, TailMembers
  <2> QED
    BY <2>1 DEF Dropped
<1>3. PICK last : Added(replies, h, replies', last)
  BY <1>1, <1>2, AppendMembers
<1>4. NoTwins'
  <2>1. \A i, j \in DOMAIN requests' : Twins(requests'[i], requests'[j]) => i = j
    BY <1>2 DEF Lines, NoTwins, Dropped
  <2>2. \A i, j \in DOMAIN replies' : Twins(replies'[i], replies'[j]) => i = j
    BY <1>2, <1>3 DEF Lines, NoTwins, Twins, Dropped, Added
  <2>3. \A i \in DOMAIN requests', j \in DOMAIN replies' : ~Twins(requests'[i], replies'[j])
    <3>1. \A i \in DOMAIN requests' : ~Twins(requests'[i], h)
      BY <1>2 DEF Lines, NoTwins, Dropped
    <3>2. \A i \in DOMAIN requests', j \in DOMAIN replies : ~Twins(requests'[i], replies[j])
      BY <1>2 DEF Lines, NoTwins, Dropped
    <3> QED
      BY <1>3, <3>1, <3>2 DEF Added
  <2> QED
    BY <2>1, <2>2, <2>3 DEF NoTwins
<1>5. NoOvertaking'
  <2>1. \A i, j \in DOMAIN requests' : Rivals(requests'[i], requests'[j]) =>
          Leads(requests'[i], requests'[j]) /\ (Level(requests'[i], requests'[j]) => i < j)
    BY <1>2 DEF Lines, NoOvertaking, Dropped
  <2>2. \A i, j \in DOMAIN replies' : Rivals(replies'[i], replies'[j]) =>
          Leads(replies'[i], replies'[j]) /\ (Level(replies'[i], replies'[j]) => i < j)
    BY <1>2, <1>3 DEF Lines, NoOvertaking, Rivals, Leads, Level, Dropped, Added
  <2>3. \A i \in DOMAIN replies', j \in DOMAIN requests' :
          Rivals(replies'[i], requests'[j]) => Leads(replies'[i], requests'[j])
    <3>1. \A j \in DOMAIN requests' : Rivals(h, requests'[j]) => Leads(h, requests'[j])
      BY <1>2 DEF Lines, NoOvertaking, Dropped
    <3>2. \A i \in DOMAIN replies, j \in DOMAIN requests' :
            Rivals(replies[i], requests'[j]) => Leads(replies[i], requests'[j])
      BY <1>2 DEF Lines, NoOvertaking, Dropped
    <3> QED
      BY <1>3, <3>1, <3>2 DEF Added
  <2>4. \A i \in DOMAIN requests', j \in DOMAIN replies' :
          Rivals(requests'[i], replies'[j]) => requests'[i].op = "commit" /\ replies'[j].op # "commit"
    <3>1. \A i \in DOMAIN requests' : Rivals(requests'[i], h) => requests'[i].op = "commit"
      <4> SUFFICES ASSUME NEW i \in DOMAIN requests', Rivals(requests'[i], h) PROVE requests'[i].op = "commit"
        OBVIOUS
      <4>1. Level(requests[i + 1], requests[1]) => i + 1 < 1
        BY <1>2 DEF Lines, NoOvertaking, Dropped
      <4> QED
        BY <1>2, <4>1 DEF Level, Dropped
    <3>2. \A i \in DOMAIN requests', j \in DOMAIN replies :
          Rivals(requests'[i], replies[j]) => requests'[i].op = "commit" /\ replies[j].op # "commit"
      BY <1>2 DEF Lines, NoOvertaking, Dropped
    <3> QED
      BY <1>3, <3>1, <3>2 DEF Added
  <2> QED
    BY <2>1, <2>2, <2>3, <2>4 DEF NoOvertaking
<1>6. h \in Calls /\ UNCHANGED Calls
  <2>1. ASSUME NEW x \in Calls PROVE x \in Calls'
    BY <1>2, <1>3, <2>1 DEF Calls, Dropped, Added
  <2>2. ASSUME NEW x \in Calls' PROVE x \in Calls
    BY <1>2, <1>3, <2>2 DEF Calls, Dropped, Added
  <2>3. h \in Calls
    BY <1>2 DEF Calls, Dropped
  <2> QED
    BY <2>1, <2>2, <2>3
<1>7. UNCHANGED Durable /\ h \notin Durable
  BY <1>2, <1>3 DEF Durable, Dropped, Added
<1>8. Ran' = Ran \cup {h}
  <2>1. ASSUME NEW x \in Ran PROVE x \in Ran'
    <3>1. ASSUME NEW j \in DOMAIN requests, x = requests[j], requests[j].op = "commit" PROVE x \in Ran'
      <4>1. CASE j = 1
        BY <1>2, <1>3, <3>1, <4>1 DEF Ran, Added
      <4>2. CASE j # 1
        <5>1. PICK i \in DOMAIN requests' : requests'[i] = requests[j]
          BY <1>2, <4>2 DEF Dropped
        <5> QED
          BY <3>1, <5>1 DEF Ran
      <4> QED
        BY <4>1, <4>2
    <3>2. ASSUME NEW j \in DOMAIN replies, x = replies[j] PROVE x \in Ran'
      BY <1>3, <3>2 DEF Ran, Added
    <3> QED
      BY <2>1, <3>1, <3>2 DEF Ran
  <2>2. ASSUME NEW x \in Ran', x # h PROVE x \in Ran
    BY <1>2, <1>3, <2>2 DEF Ran, Dropped, Added
  <2>3. h \in Ran'
    BY <1>2, <1>3 DEF Ran, Dropped, Added
  <2> QED
    BY <2>1, <2>2, <2>3
<1>9. \A x \in Ran : ~Twins(x, h) /\ ~Rivals(h, x)
  <2>1. \A i \in DOMAIN replies : ~Twins(replies[i], h) /\ ~Rivals(h, replies[i])
    BY <1>2 DEF Lines, NoTwins, NoOvertaking, Twins, Dropped
  <2>2. \A i \in DOMAIN requests : requests[i].op = "commit" => ~Twins(requests[i], h) /\ ~Rivals(h, requests[i])
    BY <1>2, SMTT(60) DEF Lines, NoTwins, NoOvertaking, Leads, Dropped
  <2> QED
    BY <2>1, <2>2 DEF Ran
<1>10. \A m \in Inserting : m \in Inserting' \/ (h.op = "insert" /\ h.msg = m)
  <2> SUFFICES ASSUME NEW j \in DOMAIN requests, requests[j].op = "insert", j # 1
               PROVE  requests[j].msg \in Inserting'
    BY <1>2 DEF Inserting, Dropped
  <2>1. PICK i \in DOMAIN requests' : requests'[i] = requests[j]
    BY <1>2 DEF Dropped
  <2> QED
    BY <2>1 DEF Inserting
<1>11. \A i \in DOMAIN requests : requests[i].op = "insert" => ~Rivals(requests[i], h)
  <2> SUFFICES ASSUME NEW i \in DOMAIN requests, Rivals(requests[i], requests[1]), requests[i].op = "insert"
               PROVE  FALSE
    BY <1>2 DEF Dropped
  <2>1. Level(requests[i], requests[1]) => i < 1
    BY <1>2 DEF Lines, NoOvertaking, Dropped
  <2>2. ~(i < 1)
    BY <1>1
  <2> QED
    BY <1>2, <2>1, <2>2 DEF Level
<1> QED
  BY <1>2, <1>4, <1>5, <1>6, <1>7, <1>8, <1>9, <1>10, <1>11 DEF Lines

\* The thread runs COMMIT h.
LEMMA LinesCommit ==
    ASSUME TypeOK, Lines, NEW h, h = Head(requests), requests # <<>>, h.op = "commit",
           requests' = Tail(requests), replies' = Append(replies, h)
    PROVE  /\ Lines' /\ UNCHANGED <<Calls, Ran, Inserting>> /\ Durable' = Durable \cup {h}
           /\ Durable' \subseteq Ran
<1>1. requests \in Seq(Request) /\ replies \in Seq(Request)
  BY DEF TypeOK
<1>2. Dropped(requests, requests') /\ h = requests[1] /\ h \in Request
  <2>1. Dropped(requests, requests')
    BY <1>1, TailMembers
  <2> QED
    BY <2>1 DEF Dropped
<1>3. PICK last : Added(replies, h, replies', last)
  BY <1>1, <1>2, AppendMembers
<1>4. NoTwins'
  <2>1. \A i, j \in DOMAIN requests' : Twins(requests'[i], requests'[j]) => i = j
    BY <1>2 DEF Lines, NoTwins, Dropped
  <2>2. \A i, j \in DOMAIN replies' : Twins(replies'[i], replies'[j]) => i = j
    BY <1>2, <1>3 DEF Lines, NoTwins, Twins, Dropped, Added
  <2>3. \A i \in DOMAIN requests', j \in DOMAIN replies' : ~Twins(requests'[i], replies'[j])
    <3>1. \A i \in DOMAIN requests' : ~Twins(requests'[i], h)
      BY <1>2 DEF Lines, NoTwins, Dropped
    <3>2. \A i \in DOMAIN requests', j \in DOMAIN replies : ~Twins(requests'[i], replies[j])
      BY <1>2 DEF Lines, NoTwins, Dropped
    <3> QED
      BY <1>3, <3>1, <3>2 DEF Added
  <2> QED
    BY <2>1, <2>2, <2>3 DEF NoTwins
<1>5. NoOvertaking'
  <2>1. \A i, j \in DOMAIN requests' : Rivals(requests'[i], requests'[j]) =>
          Leads(requests'[i], requests'[j]) /\ (Level(requests'[i], requests'[j]) => i < j)
    BY <1>2 DEF Lines, NoOvertaking, Dropped
  <2>2. \A i, j \in DOMAIN replies' : Rivals(replies'[i], replies'[j]) =>
          Leads(replies'[i], replies'[j]) /\ (Level(replies'[i], replies'[j]) => i < j)
    <3>1. \A j \in DOMAIN replies : Rivals(h, replies[j]) => Leads(h, replies[j]) /\ ~Level(h, replies[j])
      BY <1>2 DEF Lines, NoOvertaking, Leads, Level, Dropped
    <3>2. \A i \in DOMAIN replies : Rivals(replies[i], h) => Leads(replies[i], h)
      BY <1>2 DEF Lines, NoOvertaking, Dropped
    <3>3. ~Rivals(h, h)
      BY DEF Rivals
    <3>4. \A i, j \in DOMAIN replies : Rivals(replies[i], replies[j]) =>
            Leads(replies[i], replies[j]) /\ (Level(replies[i], replies[j]) => i < j)
      BY DEF Lines, NoOvertaking
    <3> QED
      BY <1>3, <3>1, <3>2, <3>3, <3>4 DEF Added
  <2>3. \A i \in DOMAIN replies', j \in DOMAIN requests' :
          Rivals(replies'[i], requests'[j]) => Leads(replies'[i], requests'[j])
    <3>1. \A j \in DOMAIN requests' : Rivals(h, requests'[j]) => Leads(h, requests'[j])
      BY DEF Leads
    <3>2. \A i \in DOMAIN replies, j \in DOMAIN requests' :
            Rivals(replies[i], requests'[j]) => Leads(replies[i], requests'[j])
      BY <1>2 DEF Lines, NoOvertaking, Dropped
    <3> QED
      BY <1>3, <3>1, <3>2 DEF Added
  <2>4. \A i \in DOMAIN requests', j \in DOMAIN replies' :
          Rivals(requests'[i], replies'[j]) => requests'[i].op = "commit" /\ replies'[j].op # "commit"
    <3>1. \A i \in DOMAIN requests' : ~Rivals(requests'[i], h)
      <4> SUFFICES ASSUME NEW i \in DOMAIN requests', Rivals(requests'[i], h) PROVE FALSE
        OBVIOUS
      <4>1. /\ Leads(requests[i + 1], requests[1])
            /\ Level(requests[i + 1], requests[1]) => i + 1 < 1
        BY <1>2 DEF Lines, NoOvertaking, Dropped
      <4> QED
        BY <1>2, <4>1 DEF Level, Leads, Dropped
    <3>2. \A i \in DOMAIN requests', j \in DOMAIN replies :
          Rivals(requests'[i], replies[j]) => requests'[i].op = "commit" /\ replies[j].op # "commit"
      BY <1>2 DEF Lines, NoOvertaking, Dropped
    <3> QED
      BY <1>3, <3>1, <3>2 DEF Added
  <2> QED
    BY <2>1, <2>2, <2>3, <2>4 DEF NoOvertaking
<1>6. UNCHANGED Calls
  <2>1. ASSUME NEW x \in Calls PROVE x \in Calls'
    <3>1. ASSUME NEW j \in DOMAIN requests, x = requests[j] PROVE x \in Calls'
      <4>1. CASE j = 1
        BY <1>2, <1>3, <3>1, <4>1 DEF Calls, Added
      <4>2. CASE j # 1
        <5>1. PICK i \in DOMAIN requests' : requests'[i] = requests[j]
          BY <1>2, <4>2 DEF Dropped
        <5> QED
          BY <3>1, <5>1 DEF Calls
      <4> QED
        BY <4>1, <4>2
    <3>2. ASSUME NEW j \in DOMAIN replies, x = replies[j] PROVE x \in Calls'
      BY <1>3, <3>2 DEF Calls, Added
    <3> QED
      BY <2>1, <3>1, <3>2 DEF Calls
  <2>2. ASSUME NEW x \in Calls' PROVE x \in Calls
    BY <1>2, <1>3, <2>2 DEF Calls, Dropped, Added
  <2> QED
    BY <2>1, <2>2
<1>7. UNCHANGED Ran
  <2>1. ASSUME NEW x \in Ran PROVE x \in Ran'
    <3>1. ASSUME NEW j \in DOMAIN requests, x = requests[j], requests[j].op = "commit" PROVE x \in Ran'
      <4>1. CASE j = 1
        BY <1>2, <1>3, <3>1, <4>1 DEF Ran, Added
      <4>2. CASE j # 1
        <5>1. PICK i \in DOMAIN requests' : requests'[i] = requests[j]
          BY <1>2, <4>2 DEF Dropped
        <5> QED
          BY <3>1, <5>1 DEF Ran
      <4> QED
        BY <4>1, <4>2
    <3>2. ASSUME NEW j \in DOMAIN replies, x = replies[j] PROVE x \in Ran'
      BY <1>3, <3>2 DEF Ran, Added
    <3> QED
      BY <2>1, <3>1, <3>2 DEF Ran
  <2>2. ASSUME NEW x \in Ran' PROVE x \in Ran
    BY <1>2, <1>3, <2>2 DEF Ran, Dropped, Added
  <2> QED
    BY <2>1, <2>2
<1>8. UNCHANGED Inserting
  <2>1. ASSUME NEW x \in Inserting PROVE x \in Inserting'
    <3>1. ASSUME NEW j \in DOMAIN requests, x = requests[j].msg, requests[j].op = "insert" PROVE x \in Inserting'
      <4>1. CASE j = 1
        BY <1>2, <1>3, <3>1, <4>1 DEF Inserting, Added
      <4>2. CASE j # 1
        <5>1. PICK i \in DOMAIN requests' : requests'[i] = requests[j]
          BY <1>2, <4>2 DEF Dropped
        <5> QED
          BY <3>1, <5>1 DEF Inserting
      <4> QED
        BY <4>1, <4>2
    <3> QED
      BY <2>1, <3>1 DEF Inserting
  <2>2. ASSUME NEW x \in Inserting' PROVE x \in Inserting
    BY <1>2, <1>3, <2>2 DEF Inserting, Dropped, Added
  <2> QED
    BY <2>1, <2>2
<1>9. Durable' = Durable \cup {h}
  <2>1. ASSUME NEW x \in Durable PROVE x \in Durable'
    BY <1>2, <1>3, <2>1 DEF Durable, Dropped, Added
  <2>2. ASSUME NEW x \in Durable', x # h PROVE x \in Durable
    BY <1>2, <1>3, <2>2 DEF Durable, Dropped, Added
  <2>3. h \in Durable'
    BY <1>2, <1>3 DEF Durable, Dropped, Added
  <2> QED
    BY <2>1, <2>2, <2>3
<1>10. h \in Ran /\ Durable \subseteq Ran
  BY <1>2 DEF Ran, Durable, Dropped
<1> QED
  BY <1>4, <1>5, <1>6, <1>7, <1>8, <1>9, <1>10 DEF Lines

\* The caller of h, whose statement has run, asks for the COMMIT.
LEMMA LinesResume ==
    ASSUME TypeOK, Lines, NEW h, h = Head(replies), replies # <<>>, h.op # "commit",
           replies' = Tail(replies), requests' = Append(requests, [h EXCEPT !.op = "commit"])
    PROVE  /\ Lines' /\ UNCHANGED Inserting /\ Durable' \subseteq Durable
           /\ h \in Ran /\ h \in Request
           /\ \A x \in Calls' : x \in Calls \/ x = [h EXCEPT !.op = "commit"]
           /\ \A x \in Ran' : x \in Ran \/ x = [h EXCEPT !.op = "commit"]
<1> DEFINE e == [h EXCEPT !.op = "commit"]
<1>1. requests \in Seq(Request) /\ replies \in Seq(Request)
  BY DEF TypeOK
<1>2. Dropped(replies, replies') /\ h = replies[1] /\ h \in Request
  <2>1. Dropped(replies, replies')
    BY <1>1, TailMembers
  <2> QED
    BY <2>1 DEF Dropped
<1>3. e.op = "commit" /\ e.by = h.by /\ e.msg = h.msg /\ e \in Request
  BY <1>2 DEF Request, Dropped
<1> HIDE DEF e
<1>4. PICK last : Added(requests, e, requests', last)
  <2>1. requests' = Append(requests, e)
    BY DEF e
  <2> QED
    BY <1>1, <1>3, <2>1, AppendMembers
<1>5. NoTwins'
  <2>1. \A i, j \in DOMAIN requests' : Twins(requests'[i], requests'[j]) => i = j
    <3>1. \A i \in DOMAIN requests : ~Twins(requests[i], e) /\ ~Twins(e, requests[i])
      BY <1>2, <1>3 DEF Lines, NoTwins, Twins, Dropped
    <3>2. \A i, j \in DOMAIN requests : Twins(requests[i], requests[j]) => i = j
      BY DEF Lines, NoTwins
    <3> SUFFICES ASSUME NEW i \in DOMAIN requests', NEW j \in DOMAIN requests', Twins(requests'[i], requests'[j])
                 PROVE  i = j
      OBVIOUS
    <3>3. CASE i = last
      BY <1>4, <3>1, <3>3 DEF Added
    <3>4. CASE j = last
      BY <1>4, <3>1, <3>4 DEF Added
    <3>5. CASE i # last /\ j # last
      BY <1>4, <3>2, <3>5 DEF Added
    <3> QED
      BY <3>3, <3>4, <3>5
  <2>2. \A i, j \in DOMAIN replies' : Twins(replies'[i], replies'[j]) => i = j
    BY <1>2 DEF Lines, NoTwins, Dropped
  <2>3. \A i \in DOMAIN requests', j \in DOMAIN replies' : ~Twins(requests'[i], replies'[j])
    <3>1. \A j \in DOMAIN replies' : ~Twins(e, replies'[j])
      BY <1>2, <1>3, SMTT(60) DEF Lines, NoTwins, Twins, Dropped
    <3>2. \A i \in DOMAIN requests, j \in DOMAIN replies' : ~Twins(requests[i], replies'[j])
      BY <1>2 DEF Lines, NoTwins, Dropped
    <3> QED
      BY <1>4, <3>1, <3>2 DEF Added
  <2> QED
    BY <2>1, <2>2, <2>3 DEF NoTwins
<1>6. NoOvertaking'
  <2>1. \A i, j \in DOMAIN requests' : Rivals(requests'[i], requests'[j]) =>
          Leads(requests'[i], requests'[j]) /\ (Level(requests'[i], requests'[j]) => i < j)
    <3>1. \A j \in DOMAIN requests : Rivals(e, requests[j]) => Leads(e, requests[j]) /\ ~Level(e, requests[j])
      BY <1>2, <1>3 DEF Lines, NoOvertaking, Leads, Level, Rivals, Dropped
    <3>2. \A i \in DOMAIN requests : Rivals(requests[i], e) => Leads(requests[i], e)
      BY <1>2, <1>3 DEF Lines, NoOvertaking, Leads, Rivals, Dropped
    <3>3. ~Rivals(e, e)
      BY DEF Rivals
    <3>4. \A i, j \in DOMAIN requests : Rivals(requests[i], requests[j]) =>
            Leads(requests[i], requests[j]) /\ (Level(requests[i], requests[j]) => i < j)
      BY DEF Lines, NoOvertaking
    <3> QED
      BY <1>4, <3>1, <3>2, <3>3, <3>4, SMTT(60) DEF Added
  <2>2. \A i, j \in DOMAIN replies' : Rivals(replies'[i], replies'[j]) =>
          Leads(replies'[i], replies'[j]) /\ (Level(replies'[i], replies'[j]) => i < j)
    BY <1>2 DEF Lines, NoOvertaking, Dropped
  <2>3. \A i \in DOMAIN replies', j \in DOMAIN requests' :
          Rivals(replies'[i], requests'[j]) => Leads(replies'[i], requests'[j])
    <3>1. \A i \in DOMAIN replies' : Rivals(replies'[i], e) => Leads(replies'[i], e)
      <4> SUFFICES ASSUME NEW i \in DOMAIN replies', Rivals(replies'[i], e) PROVE replies'[i].op = "commit"
        BY DEF Leads
      <4>1. Rivals(replies[i + 1], replies[1])
        BY <1>2, <1>3 DEF Rivals, Dropped
      <4>2. Level(replies[i + 1], replies[1]) => i + 1 < 1
        BY <1>2, <4>1 DEF Lines, NoOvertaking, Dropped
      <4> QED
        BY <1>2, <4>2 DEF Level, Dropped
    <3>2. \A i \in DOMAIN replies', j \in DOMAIN requests :
            Rivals(replies'[i], requests[j]) => Leads(replies'[i], requests[j])
      BY <1>2 DEF Lines, NoOvertaking, Dropped
    <3> QED
      BY <1>4, <3>1, <3>2 DEF Added
  <2>4. \A i \in DOMAIN requests', j \in DOMAIN replies' :
          Rivals(requests'[i], replies'[j]) => requests'[i].op = "commit" /\ replies'[j].op # "commit"
    <3>1. \A j \in DOMAIN replies' : Rivals(e, replies'[j]) => replies'[j].op # "commit"
      <4> SUFFICES ASSUME NEW j \in DOMAIN replies', Rivals(e, replies'[j]) PROVE replies'[j].op # "commit"
        OBVIOUS
      <4>1. Rivals(replies[1], replies[j + 1])
        BY <1>2, <1>3 DEF Rivals, Dropped
      <4> QED
        BY <1>2, <4>1, SMTT(60) DEF Lines, NoOvertaking, Leads, Dropped
    <3>2. \A i \in DOMAIN requests, j \in DOMAIN replies' :
            Rivals(requests[i], replies'[j]) => requests[i].op = "commit" /\ replies'[j].op # "commit"
      BY <1>2 DEF Lines, NoOvertaking, Dropped
    <3> QED
      BY <1>3, <1>4, <3>1, <3>2, SMTT(60) DEF Added
  <2> QED
    BY <2>1, <2>2, <2>3, <2>4 DEF NoOvertaking
<1>7. UNCHANGED Inserting
  BY <1>3, <1>4 DEF Inserting, Added
<1>8. Durable' \subseteq Durable
  BY <1>2 DEF Durable, Dropped
<1>9. h \in Ran
  BY <1>2 DEF Ran, Dropped
<1>10. \A x \in Calls' : x \in Calls \/ x = e
  <2>1. \A i \in DOMAIN requests' : requests'[i] \in Calls \/ requests'[i] = e
    BY <1>4 DEF Calls, Added
  <2>2. \A i \in DOMAIN replies' : replies'[i] \in Calls
    BY <1>2 DEF Calls, Dropped
  <2> QED
    BY <2>1, <2>2 DEF Calls
<1>11. \A x \in Ran' : x \in Ran \/ x = e
  BY <1>2, <1>4 DEF Ran, Dropped, Added
<1> QED
  BY <1>2, <1>5, <1>6, <1>7, <1>8, <1>9, <1>10, <1>11 DEF Lines, e
---------------------------------------------------------------------------
(* Where messages are: what a step does to Stage.                          *)

LEMMA StageType == ASSUME TypeOK PROVE \A m \in Msgs : Stage(m) \in (WorkerStates \ {"idle"}) \cup {"line", "out"}
BY PipelineAssumption DEF TypeOK, Stage

\* A message in the hands of a worker is at the stage of this worker.
LEMMA StageHeld ==
    ASSUME Typed, WaitsOnce, NEW n \in Nodes, worker[n] # "idle"
    PROVE  held[n] \in Msgs /\ Target[held[n]] = n /\ ~InQueue(held[n]) /\ Stage(held[n]) = worker[n]
<1>1. held[n] \in Msgs /\ Target[held[n]] = n
  BY DEF Typed, WorkerHolds, WaitsOnce
<1>2. ~InQueue(held[n])
  BY <1>1 DEF InQueue, WaitsOnce
<1> QED
  BY <1>1, <1>2 DEF Stage

\* A message in a queue is in that of its target; the head is there once.
LEMMA StageQueued ==
    ASSUME Typed, WaitsOnce, NEW m \in Msgs, Stage(m) = "line"
    PROVE  InQueue(m) /\ \E i \in DOMAIN queue[Target[m]] : queue[Target[m]][i] = m
<1>1. InQueue(m)
  <2>1. worker[Target[m]] \in WorkerStates
    BY PipelineAssumption DEF Typed, TypeOK
  <2> QED
    BY <2>1 DEF Stage, WorkerStates
<1> QED
  BY <1>1 DEF InQueue, WaitsOnce

LEMMA StageOut ==
    ASSUME WaitsOnce, NEW m \in Msgs, m \notin arrived
    PROVE  Stage(m) = "out" /\ ~InQueue(m)
<1>1. ~InQueue(m)
  BY DEF InQueue, WaitsOnce
<1>2. ~(worker[Target[m]] # "idle" /\ held[Target[m]] = m)
  BY PipelineAssumption DEF WaitsOnce
<1> QED
  BY <1>1, <1>2 DEF Stage

\* Recovery is about messages nobody else has.
LEMMA StageRecovery ==
    ASSUME PlaceInv, NEW r \in orphans, r.msg \in Msgs
    PROVE  Stage(r.msg) = "out" /\ phase = "recovering" /\ r.msg \in arrived /\ ~InQueue(r.msg)
<1>1. phase = "recovering" /\ ~InQueue(r.msg) /\ r.msg \in arrived
  BY DEF PlaceInv, Phases, OrphansApart, InQueue
<1>2. worker[Target[r.msg]] = "idle"
  BY <1>1, PipelineAssumption DEF PlaceInv, Phases
<1> QED
  BY <1>1, <1>2 DEF Stage

LEMMA StageSame ==
    ASSUME UNCHANGED <<queue, worker, held>>
    PROVE  \A m \in Msgs : Stage(m)' = Stage(m)
BY DEF Stage, InQueue

\* The worker of node n takes the head of its queue.
LEMMA StageTake ==
    ASSUME Typed, WaitsOnce, NEW n \in Nodes, NEW m \in Msgs, NEW w \in WorkerStates \ {"idle"},
           Take(n, m), worker' = [worker EXCEPT ![n] = w]
    PROVE  /\ Stage(m) = "line" /\ Stage(m)' = w /\ Target[m] = n
           /\ \A o \in Msgs : o # m => Stage(o)' = Stage(o)
<1>1. /\ worker[n] = "idle" /\ queue[n] # <<>> /\ m = Head(queue[n]) /\ queue[n] \in Seq(Msgs)
      /\ queue' = [queue EXCEPT ![n] = Tail(@)] /\ held' = [held EXCEPT ![n] = m]
      /\ queue \in [Nodes -> Seq(Msgs)] /\ held \in [Nodes -> Msgs \cup {NoMsg}]
      /\ worker \in [Nodes -> WorkerStates]
  BY DEF Take, Typed, TypeOK
<1>2. /\ 1 \in DOMAIN queue[n] /\ m = queue[n][1]
      /\ \A i \in DOMAIN queue'[n] : i + 1 \in DOMAIN queue[n] /\ queue'[n][i] = queue[n][i + 1] /\ i + 1 # 1
      /\ \A i \in DOMAIN queue[n] : i # 1 => i - 1 \in DOMAIN queue'[n] /\ queue'[n][i - 1] = queue[n][i]
  <2>1. queue'[n] = Tail(queue[n])
    BY <1>1
  <2> DEFINE s == queue[n]
  <2> HIDE DEF s
  <2>2. /\ 1 \in DOMAIN s /\ Head(s) = s[1]
        /\ \A i \in DOMAIN Tail(s) : i + 1 \in DOMAIN s /\ Tail(s)[i] = s[i + 1] /\ i + 1 # 1
        /\ \A i \in DOMAIN s : i # 1 => i - 1 \in DOMAIN Tail(s) /\ Tail(s)[i - 1] = s[i]
    <3>1. s \in Seq(Msgs) /\ s # <<>>
      BY <1>1 DEF s
    <3> QED
      BY <3>1
  <2> QED
    BY <1>1, <2>1, <2>2 DEF s
<1>3. Target[m] = n /\ InQueue(m)
  BY <1>2 DEF WaitsOnce, InQueue
<1>4. \A p \in Nodes : p # n => queue'[p] = queue[p] /\ worker'[p] = worker[p] /\ held'[p] = held[p]
  BY <1>1
<1>5. worker'[n] = w /\ held'[n] = m
  BY <1>1
<1>6. ~InQueue(m)'
  <2> SUFFICES ASSUME NEW p \in Nodes, NEW i \in DOMAIN queue'[p], queue'[p][i] = m PROVE FALSE
    BY DEF InQueue
  <2>1. CASE p = n
    BY <1>2, <2>1 DEF WaitsOnce
  <2>2. CASE p # n
    BY <1>3, <1>4, <2>2 DEF WaitsOnce
  <2> QED
    BY <2>1, <2>2
<1>7. ASSUME NEW o \in Msgs, o # m PROVE InQueue(o)' <=> InQueue(o)
  <2>1. ASSUME NEW p \in Nodes, NEW i \in DOMAIN queue'[p], queue'[p][i] = o PROVE InQueue(o)
    BY <1>2, <1>4, <2>1 DEF InQueue
  <2>2. ASSUME NEW p \in Nodes, NEW i \in DOMAIN queue[p], queue[p][i] = o
        PROVE  \E q \in Nodes : \E j \in DOMAIN queue'[q] : queue'[q][j] = o
    <3>1. CASE p = n
      <4>1. i # 1
        BY <1>2, <1>7, <2>2, <3>1
      <4>2. i - 1 \in DOMAIN queue'[n] /\ queue'[n][i - 1] = o
        BY <1>2, <2>2, <3>1, <4>1
      <4> QED
        BY <4>2
    <3>2. CASE p # n
      BY <1>4, <2>2, <3>2
    <3> QED
      BY <3>1, <3>2
  <2> QED
    BY <2>1, <2>2 DEF InQueue
<1>8. ASSUME NEW o \in Msgs, o # m PROVE Stage(o)' = Stage(o)
  <2>1. Target[o] \in Nodes
    BY PipelineAssumption
  <2>2. CASE Target[o] = n
    BY <1>1, <1>5, <1>7, <1>8, <2>2 DEF Stage
  <2>3. CASE Target[o] # n
    BY <1>4, <1>7, <1>8, <2>1, <2>3 DEF Stage
  <2> QED
    BY <2>2, <2>3
<1> QED
  BY <1>3, <1>5, <1>6, <1>8 DEF Stage

\* The worker of node n goes on with the message it has.
LEMMA StageMove ==
    ASSUME Typed, WaitsOnce, NEW n \in Nodes, worker[n] # "idle", NEW w \in WorkerStates \ {"idle"},
           NEW m, m = held[n], worker' = [worker EXCEPT ![n] = w], UNCHANGED <<queue, held>>
    PROVE  /\ m \in Msgs /\ Stage(m) = worker[n] /\ Stage(m)' = w
           /\ \A o \in Msgs : o # m => Stage(o)' = Stage(o)
<1>1. m \in Msgs /\ Target[m] = n /\ ~InQueue(m) /\ Stage(m) = worker[n]
  BY StageHeld
<1>2. worker'[n] = w /\ \A p \in Nodes : p # n => worker'[p] = worker[p]
  BY DEF Typed, TypeOK
<1>3. \A o \in Msgs : Target[o] \in Nodes /\ (InQueue(o)' <=> InQueue(o))
  BY PipelineAssumption DEF InQueue
<1>4. ASSUME NEW o \in Msgs, o # m PROVE Stage(o)' = Stage(o)
  BY <1>2, <1>3, <1>4 DEF Stage
<1>5. Stage(m)' = w
  BY <1>1, <1>2, <1>3 DEF Stage
<1> QED
  BY <1>1, <1>4, <1>5

\* The worker of node n is done with its message.
LEMMA StageRelease ==
    ASSUME Typed, WaitsOnce, NEW n \in Nodes, worker[n] # "idle", NEW m, m = held[n],
           worker' = [worker EXCEPT ![n] = "idle"], held' = [held EXCEPT ![n] = NoMsg], UNCHANGED queue
    PROVE  /\ m \in Msgs /\ Stage(m) = worker[n] /\ Stage(m)' = "out"
           /\ \A o \in Msgs : o # m => Stage(o)' = Stage(o)
<1>1. m \in Msgs /\ Target[m] = n /\ ~InQueue(m) /\ Stage(m) = worker[n]
  BY StageHeld
<1>2. worker'[n] = "idle" /\ \A p \in Nodes : p # n => worker'[p] = worker[p] /\ held'[p] = held[p]
  BY DEF Typed, TypeOK
<1>3. \A o \in Msgs : Target[o] \in Nodes /\ (InQueue(o)' <=> InQueue(o))
  BY PipelineAssumption DEF InQueue
<1>4. ASSUME NEW o \in Msgs, o # m PROVE Stage(o)' = Stage(o)
  BY <1>2, <1>3, <1>4 DEF Stage
<1>5. Stage(m)' = "out"
  BY <1>1, <1>2, <1>3 DEF Stage
<1> QED
  BY <1>1, <1>4, <1>5

\* A message is put into its queue.
LEMMA StagePut ==
    ASSUME TypeOK, NEW m \in Msgs, queue' = [queue EXCEPT ![Target[m]] = Append(@, m)],
           UNCHANGED <<worker, held>>
    PROVE  Stage(m)' = "line" /\ \A o \in Msgs : o # m => Stage(o)' = Stage(o)
<1> DEFINE n == Target[m]
<1>1. n \in Nodes /\ queue \in [Nodes -> Seq(Msgs)] /\ queue[n] \in Seq(Msgs)
  BY PipelineAssumption DEF TypeOK
<1>2. /\ queue'[n] = Append(queue[n], m)
      /\ \A p \in Nodes : p # n => queue'[p] = queue[p]
  BY <1>1
<1> HIDE DEF n
<1>3. /\ Len(queue[n]) + 1 \in DOMAIN queue'[n] /\ queue'[n][Len(queue[n]) + 1] = m
      /\ \A i \in DOMAIN queue'[n] : i = Len(queue[n]) + 1 \/ i \in DOMAIN queue[n]
      /\ \A i \in DOMAIN queue[n] : i \in DOMAIN queue'[n] /\ queue'[n][i] = queue[n][i]
  BY <1>1, <1>2
<1>4. InQueue(m)'
  BY <1>1, <1>3 DEF InQueue
<1>5. ASSUME NEW o \in Msgs, o # m PROVE InQueue(o)' <=> InQueue(o)
  BY <1>1, <1>2, <1>3, <1>5 DEF InQueue
<1> QED
  BY <1>4, <1>5 DEF Stage
---------------------------------------------------------------------------
(* The invariant, message by message.                                      *)

\* A step that is not about message o.
Same(o) ==
    /\ Stage(o)' = Stage(o)
    /\ Says(db', o) = Says(db, o) /\ Says(disk', o) = Says(disk, o)
    /\ shown'[o] = shown[o] /\ mirrored'[o] = mirrored[o]
    /\ o \in begun' <=> o \in begun
    /\ InRecovery(o, "PENDING")' => InRecovery(o, "PENDING")
    /\ InRecovery(o, "TRANSMITTING")' <=> InRecovery(o, "TRANSMITTING")
    /\ o \in Inserting => o \in Inserting'

LEMMA SameMsg ==
    ASSUME NEW o \in Msgs, Same(o), MsgInv(o), phase' = phase, arrived \subseteq arrived'
    PROVE  MsgInv(o)'
<1>1. Rows(o)'
  BY DEF Same, MsgInv, Rows
<1>2. Aloft(o)'
  BY DEF Same, MsgInv, Aloft
<1>3. Backed(o)'
  BY DEF Same, MsgInv, Backed
<1>4. Told(o)'
  BY DEF Same, MsgInv, Told, ToldRow, FromMessenger
<1>5. Copied(o)'
  BY DEF Same, MsgInv, Copied
<1> QED
  BY <1>1, <1>2, <1>3, <1>4, <1>5 DEF MsgInv

LEMMA SameCall ==
    ASSUME NEW x \in Calls, x.msg \in Msgs, Same(x.msg), CallFits(x), x \in Ran' => x \in Ran,
           x \in Durable' => x \in Durable
    PROVE  CallFits(x)'
<1> DEFINE o == x.msg
<1>1. Awaited(x)'
  BY DEF Same, CallFits, Awaited
<1>2. ASSUME x \in Ran' PROVE Shows(db, x)'
  BY <1>2 DEF Same, CallFits, Shows
<1>3. ASSUME x \in Durable' PROVE Shows(disk, x)'
  BY <1>3 DEF Same, CallFits, Shows
<1> QED
  BY <1>1, <1>2, <1>3 DEF CallFits

\* While bridge.run() is on, a TRANSMITTING row is that of a message in the hands of its worker.
LEMMA OneAirUp ==
    ASSUME TypeOK', phase' = "up", \A m \in Msgs : MsgInv(m)'
    PROVE  OneAir(db)' /\ OneAir(disk)'
<1>1. ASSUME NEW m \in Msgs, Says(db', m) = "TRANSMITTING" \/ Says(disk', m) = "TRANSMITTING"
      PROVE  held'[Target[m]] = m
  <2>1. Stage(m)' # "out"
    BY <1>1 DEF MsgInv, Aloft
  <2>2. Stage(m)' # "line"
    BY <1>1 DEF MsgInv, Rows, MaySay
  <2> QED
    BY <2>1, <2>2 DEF Stage
<1> QED
  BY <1>1 DEF OneAir

\* A step about one message m.
LEMMA OneMessage ==
    ASSUME TypeOK, TypeOK', SafeInv, NEW m \in Msgs, Lines', Down',
           phase' = phase, arrived \subseteq arrived',
           \A o \in Msgs : o # m => Same(o),
           \A x \in Calls' : x.msg # m => x \in Calls /\ (x \in Ran' => x \in Ran) /\ (x \in Durable' => x \in Durable),
           \A x \in Calls' : x.msg = m => CallFits(x)',
           phase # "up" /\ Says(db', m) = "TRANSMITTING" => Says(db, m) = "TRANSMITTING",
           phase # "up" /\ Says(disk', m) = "TRANSMITTING" => Says(disk, m) = "TRANSMITTING",
           MsgInv(m)'
    PROVE  SafeInv'
<1>1. \A o \in Msgs : MsgInv(o)'
  BY SameMsg DEF SafeInv
<1>2. ASSUME NEW x \in Calls' PROVE CallFits(x)'
  <2>1. x.msg \in Msgs
    BY CallsTyped DEF Calls, TypeOK, Request
  <2>2. CASE x.msg # m
    BY <1>2, <2>1, <2>2, SameCall DEF SafeInv
  <2>3. CASE x.msg = m
    BY <1>2, <2>3
  <2> QED
    BY <2>2, <2>3
<1>3. OneAir(db)' /\ OneAir(disk)'
  <2>1. CASE phase = "up"
    BY <1>1, <2>1, OneAirUp
  <2>2. CASE phase # "up"
    <3>1. /\ \A o \in Msgs : Says(db', o) = "TRANSMITTING" => Says(db, o) = "TRANSMITTING"
          /\ \A o \in Msgs : Says(disk', o) = "TRANSMITTING" => Says(disk, o) = "TRANSMITTING"
      BY <2>2 DEF Same
    <3>2. OneAir(db) /\ OneAir(disk)
      BY DEF SafeInv
    <3> QED
      BY <3>1, <3>2 DEF OneAir
  <2> QED
    BY <2>1, <2>2
<1> QED
  BY <1>1, <1>2, <1>3 DEF SafeInv
---------------------------------------------------------------------------
(* The thread.                                                             *)

LEMMA RecoveryOut ==
    ASSUME TypeOK, PlaceInv, NEW m \in Msgs, NEW st, InRecovery(m, st)
    PROVE  Stage(m) = "out" /\ phase = "recovering"
<1>1. PICK r \in orphans : r.msg = m
  BY DEF InRecovery
<1> QED
  BY <1>1, StageRecovery

\* The statement of call h runs.
LEMMA SafeRun ==
    ASSUME UniqueKeys, TypeOK, TypeOK', PlaceInv, SafeInv, RunStatement
    PROVE  SafeInv'
<1> SUFFICES ASSUME NEW h, h = Head(requests), NEW m, m = h.msg PROVE SafeInv'
  OBVIOUS
<1>1. /\ requests # <<>> /\ h.op # "commit" /\ db' = Execute(db, h) /\ disk' = disk
      /\ requests' = Tail(requests) /\ replies' = Append(replies, h)
      /\ UNCHANGED <<phase, orphans, arrived, queue, worker, held, shown, begun, mirrored>>
  BY DEF RunStatement, processVars, intakeVars, queueVars, workerVars, historyVars
<1>2. Lines
  BY DEF SafeInv
<1>3. /\ Lines' /\ h \in Request /\ h \in Calls /\ UNCHANGED Calls /\ UNCHANGED Durable
      /\ Ran' = Ran \cup {h} /\ h \notin Durable
      /\ \A x \in Ran : ~Twins(x, h) /\ ~Rivals(h, x)
      /\ \A o \in Inserting : o \in Inserting' \/ (h.op = "insert" /\ h.msg = o)
      /\ \A i \in DOMAIN requests : requests[i].op = "insert" => ~Rivals(requests[i], h)
  BY <1>1, <1>2, LinesRun
<1>4. m \in Msgs /\ CallFits(h) /\ MsgInv(m)
  BY <1>3 DEF Request, SafeInv
<1> DEFINE s == Says(db, m)
           t == Says(db', m)
           g == Stage(m)
<1>5. /\ \A o \in Msgs : Stage(o)' = Stage(o)
      /\ \A o \in Msgs : o # m => Says(db', o) = Says(db, o)
      /\ \A st : \A o \in Msgs : InRecovery(o, st)' <=> InRecovery(o, st)
  BY <1>1, <1>3, StageSame, SaysExecute DEF TypeOK, InRecovery
<1>6. /\ h.op = "insert" => t = "PENDING"
      /\ h.op = "set" => t = IF s = "none" THEN "none" ELSE h.st
      /\ h.op = "delete" => t = "none"
  BY <1>1, <1>3, SaysExecute DEF TypeOK
<1>7. \A o \in Msgs : o # m => Same(o)
  BY <1>1, <1>3, <1>5 DEF Same
<1>8. h.by = "egress" => m \notin Inserting
  <2> SUFFICES ASSUME h.by = "egress", NEW i \in DOMAIN requests, requests[i].op = "insert", requests[i].msg = m
               PROVE  FALSE
    BY DEF Inserting
  <2>1. requests[i].by = "consume"
    <3>1. requests[i] \in Calls
      BY DEF Calls
    <3>2. Awaited(requests[i])
      BY <3>1 DEF SafeInv, CallFits
    <3> QED
      BY <3>2 DEF Awaited, CallAt
  <2> QED
    BY <1>3, <2>1 DEF Rivals
<1>9. ASSUME InRecovery(m, "PENDING") PROVE g = "out"
  BY <1>4, <1>9, RecoveryOut
<1>10. \/ /\ h.by = "consume" /\ h.op = "insert" /\ g \in Early /\ shown[m] = "none"
          /\ t = "PENDING" /\ ~InRecovery(m, "PENDING") /\ ~InRecovery(m, "TRANSMITTING")
       \/ /\ h.by = "egress" /\ g \in Waits /\ t = Aim(g) /\ (g # "pruning" => s # "none" /\ t # "none")
          /\ ~InRecovery(m, "PENDING") /\ ~InRecovery(m, "TRANSMITTING")
       \/ /\ h.by = "recover" /\ InRecovery(m, "TRANSMITTING") /\ t = "UNKNOWN"
          /\ s \in {"TRANSMITTING", "UNKNOWN"} /\ g = "out" /\ phase = "recovering"
  <2>1. ASSUME InRecovery(m, "TRANSMITTING") PROVE g = "out" /\ phase = "recovering"
    BY <1>4, <2>1, RecoveryOut
  <2>2. CASE h.by = "consume"
    BY <1>1, <1>4, <1>6, <1>9, <2>1, <2>2 DEF CallFits, Awaited, Early
  <2>3. CASE h.by = "egress"
    <3>1. h.op = CallAt(g) /\ g \in Waits /\ (h.op = "set" => h.st = Aim(g))
      BY <1>1, <1>4, <2>3 DEF CallFits, Awaited
    <3>2. g # "pruning" => s # "none"
      BY <1>4, <1>8, <2>3, <3>1 DEF MsgInv, Backed, Rows, MaySay, Waits, Early
    <3>3. ~InRecovery(m, "PENDING") /\ ~InRecovery(m, "TRANSMITTING")
      BY <1>9, <2>1, <3>1 DEF Waits
    <3>4. t = Aim(g) /\ (g # "pruning" => t # "none")
      BY <1>6, <3>1, <3>2 DEF CallAt, Aim, Waits
    <3> QED
      BY <2>3, <3>1, <3>2, <3>3, <3>4
  <2>4. CASE h.by = "recover"
    <3>1. InRecovery(m, "TRANSMITTING") /\ h.op = "set" /\ h.st = "UNKNOWN"
      BY <1>1, <1>4, <2>4 DEF CallFits, Awaited
    <3>2. s \in {"TRANSMITTING", "UNKNOWN"}
      BY <1>4, <3>1 DEF MsgInv, Rows
    <3> QED
      BY <1>6, <2>1, <2>4, <3>1, <3>2
  <2> QED
    BY <1>3, <2>2, <2>3, <2>4 DEF Request
<1>11. Rows(m)'
  <2>1. t \in MaySay(g)
    BY <1>10 DEF MaySay, Aim, Waits, Early, Statuses
  <2>2. Says(disk', m) = Says(disk, m) /\ Stage(m)' = g
    BY <1>1, <1>4, <1>5
  <2> QED
    BY <1>4, <1>5, <1>10, <2>1, <2>2 DEF MsgInv, Rows
<1>12. Aloft(m)'
  BY <1>1, <1>4, <1>5, <1>10 DEF MsgInv, Aloft, Waits, Early
<1>13. Backed(m)'
  BY <1>4, <1>5, <1>10 DEF Backed, Early, Waits
<1>14. Told(m)'
  <2>1. ToldRow(db, m)'
    <3>1. shown[m] \in {"PENDING", "TRANSMITTING"} => t # "none"
      BY <1>4, <1>10 DEF MsgInv, Told, Aim, Early, Waits
    <3>2. t = "PENDING" => shown[m] \in {"none", "PENDING"}
      BY <1>10 DEF Aim, Waits
    <3>3. t = "TRANSMITTING" => shown[m] \in {"none", "PENDING", "TRANSMITTING", "UNKNOWN"}
      BY <1>4, <1>10 DEF MsgInv, Told, Aim, Early, Waits
    <3> QED
      BY <1>1, <3>1, <3>2, <3>3 DEF ToldRow
  <2> QED
    BY <1>1, <1>4, <1>5, <2>1 DEF MsgInv, Told, ToldRow, FromMessenger
<1>15. Copied(m)'
  BY <1>1, <1>4, <1>5, <1>10 DEF MsgInv, Copied, Early, Waits, Rows, Aim
<1>16. MsgInv(m)'
  BY <1>11, <1>12, <1>13, <1>14, <1>15 DEF MsgInv
<1>17. ASSUME NEW x \in Calls', x.msg = m PROVE CallFits(x)'
  <2>1. x \in Calls /\ CallFits(x)
    BY <1>3, <1>17 DEF SafeInv
  <2>2. Awaited(x)'
    BY <1>1, <1>4, <1>5, <1>17, <2>1 DEF CallFits, Awaited
  <2>3. ASSUME x \in Ran' PROVE Shows(db, x)'
    <3>1. CASE x = h
      BY <1>5, <1>10, <1>4, <3>1 DEF Shows
    <3>2. CASE x \in Ran /\ x # h
      <4>1. ~Twins(x, h) /\ ~Rivals(h, x)
        BY <1>3, <3>2
      <4>2. x.by # h.by /\ ~(h.by = "consume" /\ x.by = "egress")
        BY <1>17, <4>1 DEF Twins, Rivals
      <4>3. h.by = "egress" /\ x.by = "consume"
        BY <1>10, <1>4, <1>17, <2>1, <4>2 DEF CallFits, Awaited, Early, Waits
      <4>4. g # "pruning"
        BY <1>17, <2>1, <4>3 DEF CallFits, Awaited, Early
      <4> QED
        BY <1>10, <1>17, <4>3, <4>4 DEF Shows
    <3> QED
      BY <1>3, <2>3, <3>1, <3>2
  <2>4. ASSUME x \in Durable' PROVE Shows(disk, x)'
    BY <1>1, <1>3, <1>4, <1>5, <1>17, <2>1, <2>4 DEF CallFits, Shows
  <2> QED
    BY <2>2, <2>3, <2>4 DEF CallFits
<1>18. Down'
  BY <1>1, <1>4 DEF SafeInv, Down
<1>19. phase # "up" /\ t = "TRANSMITTING" => s = "TRANSMITTING"
  <2> SUFFICES ASSUME phase # "up", t = "TRANSMITTING" PROVE g # "marking"
    BY <1>10 DEF Aim, Waits
  <2>1. \A n \in Nodes : worker[n] = "idle"
    BY DEF PlaceInv, Phases
  <2> QED
    BY <1>4, <2>1, PipelineAssumption DEF Stage
<1> QED
  BY <1>1, <1>3, <1>4, <1>7, <1>16, <1>17, <1>18, <1>19, OneMessage
\* The COMMIT of call h runs.
LEMMA SafeCommit ==
    ASSUME TypeOK, TypeOK', SafeInv, RunCommit
    PROVE  SafeInv'
<1> SUFFICES ASSUME NEW h, h = Head(requests) PROVE SafeInv'
  OBVIOUS
<1>1. /\ requests # <<>> /\ h.op = "commit" /\ disk' = db /\ db' = db
      /\ requests' = Tail(requests) /\ replies' = Append(replies, h)
      /\ UNCHANGED <<phase, orphans, arrived, queue, worker, held, shown, begun, mirrored>>
  BY DEF RunCommit, processVars, intakeVars, queueVars, workerVars, historyVars
<1>2. /\ Lines' /\ UNCHANGED <<Calls, Ran, Inserting>> /\ Durable' = Durable \cup {h} /\ Durable' \subseteq Ran
  BY <1>1, LinesCommit DEF SafeInv
<1>3. /\ \A o \in Msgs : Stage(o)' = Stage(o)
      /\ \A st : \A o \in Msgs : InRecovery(o, st)' <=> InRecovery(o, st)
  BY <1>1, StageSame DEF InRecovery
<1>4. ASSUME NEW m \in Msgs PROVE MsgInv(m)'
  <2>1. MsgInv(m)
    BY DEF SafeInv
  <2> QED
    BY <1>1, <1>2, <1>3, <2>1 DEF MsgInv, Rows, Aloft, Backed, Told, ToldRow, Copied, FromMessenger
<1>5. ASSUME NEW x \in Calls' PROVE CallFits(x)'
  <2>1. CallFits(x) /\ x.msg \in Msgs
    BY <1>2, CallsTyped DEF SafeInv, Request
  <2>2. Awaited(x)'
    BY <1>1, <1>3, <2>1 DEF CallFits, Awaited
  <2>3. x \in Ran => Shows(db, x)' /\ Shows(disk, x)'
    BY <1>1, <1>3, <2>1 DEF CallFits, Shows
  <2> QED
    BY <1>2, <2>2, <2>3 DEF CallFits
<1>6. OneAir(db)' /\ OneAir(disk)'
  BY <1>1 DEF SafeInv, OneAir
<1>7. Down'
  BY <1>1 DEF SafeInv, Down
<1> QED
  BY <1>2, <1>4, <1>5, <1>6, <1>7 DEF SafeInv

\* The caller of h resumes after its statement and asks for the COMMIT.
LEMMA SafeResume ==
    ASSUME TypeOK, TypeOK', SafeInv, ResumeStatement
    PROVE  SafeInv'
<1> SUFFICES ASSUME NEW h, h = Head(replies), NEW e, e = [h EXCEPT !.op = "commit"] PROVE SafeInv'
  OBVIOUS
<1>1. /\ replies # <<>> /\ h.op # "commit" /\ UNCHANGED <<db, disk>>
      /\ replies' = Tail(replies) /\ requests' = Append(requests, [h EXCEPT !.op = "commit"])
      /\ UNCHANGED <<phase, orphans, arrived, queue, worker, held, shown, begun, mirrored>>
  BY DEF ResumeStatement, processVars, intakeVars, queueVars, workerVars, historyVars
<1>2. /\ Lines' /\ UNCHANGED Inserting /\ Durable' \subseteq Durable /\ h \in Ran /\ h \in Request
      /\ \A x \in Calls' : x \in Calls \/ x = e
      /\ \A x \in Ran' : x \in Ran \/ x = e
  BY <1>1, LinesResume DEF SafeInv
<1>3. /\ \A o \in Msgs : Stage(o)' = Stage(o)
      /\ \A st : \A o \in Msgs : InRecovery(o, st)' <=> InRecovery(o, st)
  BY <1>1, StageSame DEF InRecovery
<1>4. h \in Calls /\ CallFits(h) /\ h.msg \in Msgs
      /\ e.op = "commit" /\ e.by = h.by /\ e.msg = h.msg
  BY <1>2, CallsTyped DEF SafeInv, Request
<1>5. ASSUME NEW m \in Msgs PROVE MsgInv(m)'
  <2>1. MsgInv(m)
    BY DEF SafeInv
  <2> QED
    BY <1>1, <1>2, <1>3, <2>1 DEF MsgInv, Rows, Aloft, Backed, Told, ToldRow, Copied, FromMessenger
<1>6. ASSUME NEW x \in Calls' PROVE CallFits(x)'
  <2>1. CASE x \in Calls /\ x # e
    <3>1. CallFits(x) /\ x.msg \in Msgs
      BY <2>1, CallsTyped DEF SafeInv, Request
    <3>2. Awaited(x)'
      BY <1>1, <1>3, <3>1 DEF CallFits, Awaited
    <3>3. x \in Ran' => Shows(db, x)'
      BY <1>1, <1>2, <1>3, <2>1, <3>1 DEF CallFits, Shows
    <3>4. x \in Durable' => Shows(disk, x)'
      BY <1>1, <1>2, <1>3, <3>1 DEF CallFits, Shows
    <3> QED
      BY <3>2, <3>3, <3>4 DEF CallFits
  <2>2. CASE x = e
    <3>1. Awaited(x)'
      BY <1>1, <1>3, <1>4, <2>2 DEF CallFits, Awaited
    <3>2. Shows(db, x)'
      BY <1>1, <1>2, <1>3, <1>4, <2>2 DEF CallFits, Shows
    <3>3. x \in Durable' => Shows(disk, x)'
      <4> SUFFICES ASSUME e \in Durable PROVE Shows(disk, e)'
        BY <1>2, <2>2
      <4>1. CallFits(e)
        BY CallsTyped DEF SafeInv
      <4> QED
        BY <1>1, <1>3, <1>4, <4>1 DEF CallFits, Shows
    <3> QED
      BY <3>1, <3>2, <3>3 DEF CallFits
  <2> QED
    BY <1>2, <2>1, <2>2
<1>7. OneAir(db)' /\ OneAir(disk)'
  BY <1>1 DEF SafeInv, OneAir
<1>8. Down'
  BY <1>1 DEF SafeInv, Down
<1> QED
  BY <1>2, <1>5, <1>6, <1>7, <1>8 DEF SafeInv
---------------------------------------------------------------------------
(* The tasks: a step of a task is about one message.                       *)

LEMMA ShowEffect ==
    ASSUME TypeOK, NEW m \in Msgs, NEW st, Show(m, st)
    PROVE  /\ shown'[m] = IF FromMessenger(m) THEN st ELSE shown[m]
           /\ \A o \in Msgs : o # m => shown'[o] = shown[o]
BY DEF Show, TypeOK

LEMMA OthersSame ==
    ASSUME NEW m \in Msgs, \A o \in Msgs : o # m => Stage(o)' = Stage(o),
           UNCHANGED <<orphans, db, disk>>, Inserting \subseteq Inserting',
           \A o \in Msgs : o # m => shown'[o] = shown[o] /\ mirrored'[o] = mirrored[o],
           begun \subseteq begun', begun' \subseteq begun \cup {m}
    PROVE  \A o \in Msgs : o # m => Same(o)
BY DEF Same, InRecovery

\* No call about a message that is out, unless recovery has read its row.
LEMMA NoCalls ==
    ASSUME TypeOK, PlaceInv, SafeInv, NEW m \in Msgs,
           \/ Stage(m) = "out" /\ ~InRecovery(m, "TRANSMITTING")
           \/ Stage(m) \in {"sending", "backoff", "mirroring"}
    PROVE  \A x \in Calls : x.msg # m
<1> SUFFICES ASSUME NEW x \in Calls, x.msg = m PROVE FALSE
  OBVIOUS
<1>1. Awaited(x)
  BY DEF SafeInv, CallFits
<1>2. InRecovery(m, "TRANSMITTING") => Stage(m) = "out"
  BY RecoveryOut
<1> QED
  BY <1>1, <1>2 DEF Awaited, Early, Waits

LEMMA StageNotUp ==
    ASSUME PlaceInv, phase # "up", NEW m \in Msgs
    PROVE  Stage(m) \in {"line", "out"} /\ (phase = "down" => Stage(m) = "out")
BY PipelineAssumption DEF PlaceInv, Phases, Stage, InQueue

\* A worker asks the journal: it has taken m from the queue, tried it, or copied it.
LEMMA SafeAsks ==
    ASSUME TypeOK, TypeOK', PlaceInv, SafeInv, NEW m \in Msgs, NEW w, NEW op, NEW st,
           \/ Stage(m) = "line" /\ w \in {"marking", "expiring"}
           \/ Stage(m) = "sending" /\ w \in {"committing", "failing"}
           \/ Stage(m) = "mirroring" /\ w = "pruning",
           Stage(m)' = w, \A o \in Msgs : o # m => Stage(o)' = Stage(o),
           op = CallAt(w), st \in Statuses, op = "set" => st = Aim(w),
           Submit(op, "egress", m, st, 0),
           UNCHANGED <<phase, orphans, arrived, replies, db, disk, shown, begun, mirrored>>
    PROVE  SafeInv'
<1> SUFFICES ASSUME NEW e, e = [op |-> op, by |-> "egress", msg |-> m, st |-> st, rowid |-> 0] PROVE SafeInv'
  OBVIOUS
<1>1. /\ e \in Request /\ requests' = Append(requests, e) /\ e.op = op /\ e.op # "commit" /\ e.op # "insert"
      /\ e.by = "egress" /\ e.msg = m /\ e.st = st
  BY DEF Submit, Request, CallAt
<1>2. MsgInv(m)
  BY DEF SafeInv
<1>3. ~InRecovery(m, "TRANSMITTING") /\ ~InRecovery(m, "PENDING")
  BY RecoveryOut
<1>4. ASSUME NEW x \in Calls, x.msg = m
      PROVE  CallFits(x) /\ x.by = "consume" /\ Stage(m) = "line" /\ shown[m] = "none" /\ x.op \in {"insert", "commit"}
  <2>1. CallFits(x)
    BY DEF SafeInv
  <2> QED
    BY <1>3, <1>4, <2>1 DEF CallFits, Awaited, Early, Waits
<1>5. \A x \in Calls : ~Twins(x, e) /\ ~Rivals(e, x)
  BY <1>1, <1>4 DEF Twins, Rivals
<1>6. /\ Lines' /\ Calls' = Calls \cup {e} /\ UNCHANGED <<Ran, Durable, Inserting>>
  BY <1>1, <1>5, LinesSubmit DEF SafeInv
<1>7. \A o \in Msgs : o # m => Same(o)
  BY <1>6, OthersSame
<1>8. e \notin Ran /\ e \notin Durable
  BY <1>1, <1>4, CallsTyped
<1>9. ASSUME NEW x \in Calls', x.msg = m PROVE CallFits(x)'
  <2>1. CASE x = e
    <3>1. Awaited(e)'
      BY <1>1 DEF Awaited, Waits
    <3> QED
      BY <1>6, <1>8, <2>1, <3>1 DEF CallFits
  <2>2. CASE x # e
    <3>1. /\ x \in Calls /\ CallFits(x) /\ x.by = "consume" /\ x.op \in {"insert", "commit"}
          /\ shown'[m] = "none" /\ Stage(m)' \in Early
      BY <1>4, <1>6, <1>9, <2>2 DEF Early
    <3>2. Awaited(x)'
      BY <1>9, <3>1 DEF Awaited
    <3>3. (x \in Ran' => Shows(db, x)') /\ (x \in Durable' => Shows(disk, x)')
      BY <1>6, <3>1 DEF CallFits, Shows
    <3> QED
      BY <3>2, <3>3 DEF CallFits
  <2> QED
    BY <2>1, <2>2
<1>10. MsgInv(m)'
  <2>1. ~InRecovery(m, "TRANSMITTING")' /\ ~InRecovery(m, "PENDING")'
    BY <1>3 DEF InRecovery
  <2>2. Rows(m)'
    BY <1>2, <2>1 DEF MsgInv, Rows, MaySay
  <2>3. Aloft(m)'
    BY DEF Aloft
  <2>4. Backed(m)'
    BY <1>2, <1>6 DEF MsgInv, Backed, Early
  <2>5. Told(m)'
    BY <1>2, <2>1 DEF MsgInv, Told, ToldRow, FromMessenger, Early
  <2>6. Copied(m)'
    BY <1>2 DEF MsgInv, Copied, Early
  <2> QED
    BY <2>2, <2>3, <2>4, <2>5, <2>6 DEF MsgInv
<1>11. Down'
  <2>1. phase # "down"
    BY StageNotUp
  <2> QED
    BY <2>1 DEF Down
<1> QED
  BY <1>6, <1>7, <1>9, <1>10, <1>11, OneMessage
\* A task takes the answer of its call about m: both tables show what it asked for. When it is a
\* worker nothing about m is under way any more.
LEMMA Answered ==
    ASSUME TypeOK, PlaceInv, SafeInv, NEW by \in {"consume", "egress", "recover"}, NEW m \in Msgs,
           Returned(by, m), UNCHANGED requests
    PROVE  /\ Lines' /\ Calls' \subseteq Calls /\ Ran' \subseteq Ran /\ Durable' \subseteq Durable
           /\ UNCHANGED <<Inserting, db, disk>> /\ phase # "down"
           /\ by = "consume" => /\ Stage(m) \in Early /\ shown[m] = "none"
                                /\ Says(db, m) # "none" /\ Says(disk, m) # "none"
                                /\ \A x \in Calls' : x.msg = m => x.by = "egress"
           /\ by = "egress"  => /\ Stage(m) \in Waits /\ Says(db, m) = Aim(Stage(m)) /\ Says(disk, m) = Aim(Stage(m))
                                /\ \A x \in Calls' : x.msg # m
           /\ by = "recover" => /\ InRecovery(m, "TRANSMITTING") /\ Stage(m) = "out"
                                /\ \A x \in Calls' : x.msg # m
<1>1. /\ Lines' /\ Calls' \subseteq Calls /\ Ran' \subseteq Ran /\ Durable' \subseteq Durable
      /\ UNCHANGED <<Inserting, db, disk>>
      /\ \E h \in Durable : h.by = by /\ h.msg = m /\ h.op = "commit"
      /\ \A x \in Calls' : x.msg = m => x.by # by /\ (by = "egress" => x.by # "consume")
  BY LinesReturn DEF SafeInv
<1>2. PICK h \in Durable : h.by = by /\ h.msg = m /\ h.op = "commit"
  BY <1>1
<1>3. h \in Calls /\ h \in Ran /\ CallFits(h)
  BY CallsTyped DEF SafeInv
<1>4. Awaited(h) /\ Shows(db, h) /\ Shows(disk, h)
  BY <1>3 DEF CallFits
<1>5. InRecovery(m, "TRANSMITTING") => Stage(m) = "out"
  BY RecoveryOut
<1>6. ASSUME NEW x \in Calls', x.msg = m
      PROVE  /\ x.by # by /\ (by = "egress" => x.by # "consume")
             /\ \/ x.by = "consume" /\ Stage(m) \in Early
                \/ x.by = "egress" /\ Stage(m) \in Waits
                \/ x.by = "recover" /\ Stage(m) = "out"
  <2>1. Awaited(x)
    BY <1>1 DEF SafeInv, CallFits
  <2> QED
    BY <1>1, <1>5, <1>6, <2>1 DEF Awaited
<1>7. phase # "down"
  <2>1. DOMAIN replies # {}
    BY DEF Returned, TypeOK
  <2> QED
    BY DEF SafeInv, Down, Returned
<1>8. ASSUME by = "consume"
      PROVE  /\ Stage(m) \in Early /\ shown[m] = "none"
             /\ Says(db, m) # "none" /\ Says(disk, m) # "none"
             /\ \A x \in Calls' : x.msg = m => x.by = "egress"
  BY <1>2, <1>4, <1>6, <1>8 DEF Awaited, Shows, Early
<1>9. ASSUME by = "egress"
      PROVE  /\ Stage(m) \in Waits /\ Says(db, m) = Aim(Stage(m)) /\ Says(disk, m) = Aim(Stage(m))
             /\ \A x \in Calls' : x.msg # m
  <2>1. Stage(m) \in Waits /\ Says(db, m) = Aim(Stage(m)) /\ Says(disk, m) = Aim(Stage(m))
    BY <1>2, <1>4, <1>9 DEF Awaited, Shows
  <2> QED
    BY <1>6, <1>9, <2>1 DEF Waits
<1>10. ASSUME by = "recover"
       PROVE  /\ InRecovery(m, "TRANSMITTING") /\ Stage(m) = "out"
              /\ \A x \in Calls' : x.msg # m
  <2>1. InRecovery(m, "TRANSMITTING") /\ Stage(m) = "out"
    BY <1>2, <1>4, <1>5, <1>10 DEF Awaited
  <2> QED
    BY <1>6, <1>10, <2>1 DEF Waits, Early
<1> QED
  BY <1>1, <1>7, <1>8, <1>9, <1>10

\* A worker has its answer: what remains is to look at the message.
LEMMA SafeAnswered ==
    ASSUME TypeOK, TypeOK', PlaceInv, SafeInv, NEW m \in Msgs,
           Returned("egress", m), UNCHANGED <<requests, phase, orphans, arrived, mirrored>>,
           \A o \in Msgs : o # m => Stage(o)' = Stage(o) /\ shown'[o] = shown[o],
           begun \subseteq begun', begun' \subseteq begun \cup {m},
           MsgInv(m)'
    PROVE  SafeInv'
<1>1. /\ Lines' /\ Calls' \subseteq Calls /\ Ran' \subseteq Ran /\ Durable' \subseteq Durable
      /\ UNCHANGED <<Inserting, db, disk>> /\ phase # "down"
      /\ \A x \in Calls' : x.msg # m
  BY Answered
<1>2. \A o \in Msgs : o # m => Same(o)
  BY <1>1, OthersSame
<1>3. Down'
  BY <1>1 DEF Down
<1> QED
  BY <1>1, <1>2, <1>3, OneMessage
\* A step that is about m, of which no call is under way, and touches no table and no call.
LEMMA SafeQuiet ==
    ASSUME TypeOK, TypeOK', SafeInv, NEW m \in Msgs, \A x \in Calls : x.msg # m,
           UNCHANGED <<phase, requests, replies, db, disk>>, arrived \subseteq arrived',
           \A o \in Msgs : o # m => Same(o), MsgInv(m)'
    PROVE  SafeInv'
<1>1. Lines' /\ UNCHANGED <<Calls, Ran, Durable, Inserting>>
  BY LinesIdle DEF SafeInv
<1>2. Down'
  BY DEF SafeInv, Down
<1> QED
  BY <1>1, <1>2, OneMessage

\* A step that changes nothing the invariant is about.
LEMMA SafeIdle ==
    ASSUME TypeOK, TypeOK', SafeInv,
           UNCHANGED <<phase, orphans, arrived, queue, worker, held, requests, replies, db, disk,
                       shown, begun, mirrored>>
    PROVE  SafeInv'
<1>1. Lines' /\ UNCHANGED <<Calls, Ran, Durable, Inserting>>
  BY LinesIdle DEF SafeInv
<1>2. \A o \in Msgs : Same(o)
  BY <1>1, StageSame DEF Same, InRecovery
<1>3. \A o \in Msgs : MsgInv(o)'
  BY <1>2, SameMsg DEF SafeInv
<1>4. \A x \in Calls' : CallFits(x)'
  <2> SUFFICES ASSUME NEW x \in Calls PROVE CallFits(x)'
    BY <1>1
  <2>1. x.msg \in Msgs
    BY CallsTyped DEF Request
  <2> QED
    BY <1>1, <1>2, <2>1, SameCall DEF SafeInv
<1> QED
  BY <1>1, <1>3, <1>4 DEF SafeInv, Down, OneAir

\* What a step may show the sender.
Forward == \A m \in Msgs : shown'[m] # shown[m] => shown'[m] \in Successors(shown[m])

LEMMA ForwardShow ==
    ASSUME TypeOK, NEW m \in Msgs, NEW st, Show(m, st), FromMessenger(m) => st \in Successors(shown[m])
    PROVE  Forward
BY ShowEffect DEF Forward

---------------------------------------------------------------------------
(* The worker.                                                             *)

LEMMA SafeTakeStale ==
    ASSUME Typed, Typed', PlaceInv, SafeInv, NEW n \in Nodes, TakeStale(n)
    PROVE  SafeInv' /\ UNCHANGED shown
<1>1. PICK m \in stale : /\ Take(n, m) /\ Submit("set", "egress", m, "REJECTED", 0)
                         /\ worker' = [worker EXCEPT ![n] = "expiring"]
                         /\ UNCHANGED <<phase, orphans, arrived, replies, db, disk, shown, begun, mirrored>>
  BY DEF TakeStale, processVars, intakeVars, historyVars
<1>2. m \in Msgs /\ "expiring" \in WorkerStates \ {"idle"}
  BY DEF Typed, TypeOK, WorkerStates
<1>3. Stage(m) = "line" /\ Stage(m)' = "expiring" /\ \A o \in Msgs : o # m => Stage(o)' = Stage(o)
  BY <1>1, <1>2, StageTake DEF PlaceInv
<1>4. CallAt("expiring") = "set" /\ Aim("expiring") = "REJECTED" /\ "REJECTED" \in Statuses
  BY DEF CallAt, Aim, Statuses
<1> QED
  BY <1>1, <1>2, <1>3, <1>4, SafeAsks DEF Typed

LEMMA SafeTakeFresh ==
    ASSUME Typed, Typed', PlaceInv, SafeInv, NEW n \in Nodes, TakeFresh(n)
    PROVE  SafeInv' /\ UNCHANGED shown
<1>1. PICK m \in Msgs \ stale : /\ Take(n, m) /\ Submit("set", "egress", m, "TRANSMITTING", 0)
                         /\ worker' = [worker EXCEPT ![n] = "marking"]
                         /\ UNCHANGED <<phase, orphans, arrived, replies, db, disk, shown, begun, mirrored>>
  BY DEF TakeFresh, processVars, intakeVars, historyVars
<1>2. m \in Msgs /\ "marking" \in WorkerStates \ {"idle"}
  BY DEF Typed, TypeOK, WorkerStates
<1>3. Stage(m) = "line" /\ Stage(m)' = "marking" /\ \A o \in Msgs : o # m => Stage(o)' = Stage(o)
  BY <1>1, <1>2, StageTake DEF PlaceInv
<1>4. CallAt("marking") = "set" /\ Aim("marking") = "TRANSMITTING" /\ "TRANSMITTING" \in Statuses
  BY DEF CallAt, Aim, Statuses
<1> QED
  BY <1>1, <1>2, <1>3, <1>4, SafeAsks DEF Typed

LEMMA SafeSendOk ==
    ASSUME Typed, Typed', PlaceInv, SafeInv, NEW n \in Nodes, SendOk(n)
    PROVE  SafeInv' /\ UNCHANGED shown
<1> SUFFICES ASSUME NEW m, m = held[n] PROVE SafeInv' /\ UNCHANGED shown
  OBVIOUS
<1>1. /\ worker[n] = "sending" /\ worker' = [worker EXCEPT ![n] = "committing"]
      /\ Submit("set", "egress", m, "SENT", 0)
      /\ UNCHANGED <<phase, orphans, arrived, queue, held, replies, db, disk, shown, begun, mirrored>>
  BY DEF SendOk, processVars, intakeVars, queueVars, historyVars
<1>2. "committing" \in WorkerStates \ {"idle"}
  BY DEF WorkerStates
<1>3. /\ m \in Msgs /\ Stage(m) = "sending" /\ Stage(m)' = "committing"
      /\ \A o \in Msgs : o # m => Stage(o)' = Stage(o)
  BY <1>1, <1>2, StageMove DEF PlaceInv
<1>4. CallAt("committing") = "set" /\ Aim("committing") = "SENT" /\ "SENT" \in Statuses
  BY DEF CallAt, Aim, Statuses
<1> QED
  BY <1>1, <1>3, <1>4, SafeAsks DEF Typed

LEMMA SafeSendFailed ==
    ASSUME Typed, Typed', PlaceInv, SafeInv, NEW n \in Nodes, SendFailed(n)
    PROVE  SafeInv' /\ UNCHANGED shown
<1> SUFFICES ASSUME NEW m, m = held[n] PROVE SafeInv' /\ UNCHANGED shown
  OBVIOUS
<1>1. /\ worker[n] = "sending" /\ worker' = [worker EXCEPT ![n] = "failing"]
      /\ Submit("set", "egress", m, "FAILED", 0)
      /\ UNCHANGED <<phase, orphans, arrived, queue, held, replies, db, disk, shown, begun, mirrored>>
  BY DEF SendFailed, processVars, intakeVars, queueVars, historyVars
<1>2. "failing" \in WorkerStates \ {"idle"}
  BY DEF WorkerStates
<1>3. /\ m \in Msgs /\ Stage(m) = "sending" /\ Stage(m)' = "failing"
      /\ \A o \in Msgs : o # m => Stage(o)' = Stage(o)
  BY <1>1, <1>2, StageMove DEF PlaceInv
<1>4. CallAt("failing") = "set" /\ Aim("failing") = "FAILED" /\ "FAILED" \in Statuses
  BY DEF CallAt, Aim, Statuses
<1> QED
  BY <1>1, <1>3, <1>4, SafeAsks DEF Typed

LEMMA SafePrune ==
    ASSUME Typed, Typed', PlaceInv, SafeInv, NEW n \in Nodes, Prune(n)
    PROVE  SafeInv' /\ UNCHANGED shown
<1> SUFFICES ASSUME NEW m, m = held[n] PROVE SafeInv' /\ UNCHANGED shown
  OBVIOUS
<1>1. /\ worker[n] = "mirroring" /\ worker' = [worker EXCEPT ![n] = "pruning"]
      /\ Submit("delete", "egress", m, "SENT", 0)
      /\ UNCHANGED <<phase, orphans, arrived, queue, held, replies, db, disk, shown, begun, mirrored>>
  BY DEF Prune, processVars, intakeVars, queueVars, historyVars
<1>2. "pruning" \in WorkerStates \ {"idle"}
  BY DEF WorkerStates
<1>3. /\ m \in Msgs /\ Stage(m) = "mirroring" /\ Stage(m)' = "pruning"
      /\ \A o \in Msgs : o # m => Stage(o)' = Stage(o)
  BY <1>1, <1>2, StageMove DEF PlaceInv
<1>4. CallAt("pruning") = "delete" /\ "SENT" \in Statuses
  BY DEF CallAt, Statuses
<1> QED
  BY <1>1, <1>3, <1>4, SafeAsks DEF Typed

LEMMA SafeExpiryRecorded ==
    ASSUME Typed, Typed', PlaceInv, SafeInv, NEW n \in Nodes, ExpiryRecorded(n)
    PROVE  SafeInv' /\ Forward
<1> SUFFICES ASSUME NEW m, m = held[n] PROVE SafeInv' /\ Forward
  OBVIOUS
<1>1. /\ worker[n] = "expiring" /\ Returned("egress", m) /\ Show(m, "REJECTED")
      /\ worker' = [worker EXCEPT ![n] = "idle"]
      /\ held' = [held EXCEPT ![n] = NoMsg]
      /\ UNCHANGED <<requests, phase, orphans, arrived, queue, mirrored>>
      /\ begun' = begun
  BY DEF ExpiryRecorded, processVars, intakeVars, queueVars, historyVars
<1>2. m \in Msgs /\ Stage(m) = "expiring" /\ Stage(m)' = "out" /\ \A o \in Msgs : o # m => Stage(o)' = Stage(o)
  BY <1>1, StageRelease DEF PlaceInv
<1>3. UNCHANGED <<db, disk>> /\ Says(db, m) = "REJECTED" /\ Says(disk, m) = "REJECTED"
  BY <1>1, <1>2, Answered DEF Typed, Aim
<1>4. /\ MsgInv(m) /\ ~InRecovery(m, "TRANSMITTING")' /\ ~InRecovery(m, "PENDING")'
  <2>1. ~InRecovery(m, "TRANSMITTING") /\ ~InRecovery(m, "PENDING")
    BY <1>2, RecoveryOut DEF Typed
  <2> QED
    BY <1>1, <1>2, <2>1 DEF SafeInv, InRecovery
<1>5. /\ shown'[m] = IF FromMessenger(m) THEN "REJECTED" ELSE shown[m]
      /\ \A o \in Msgs : o # m => shown'[o] = shown[o]
  BY <1>1, <1>2, ShowEffect DEF Typed
<1>6. m \in arrived
  BY <1>1 DEF PlaceInv, WaitsOnce
<1>7. Rows(m)'
  BY <1>2, <1>3, <1>4 DEF Rows, MaySay, Statuses
<1>8. Aloft(m)' /\ Backed(m)'
  BY <1>2, <1>3 DEF Aloft, Backed, Early
<1>9. Told(m)'
  BY <1>1, <1>2, <1>3, <1>4, <1>5, <1>6 DEF MsgInv, Told, ToldRow, FromMessenger, Early
<1>10. Copied(m)'
  BY <1>1, <1>2, <1>3, <1>4 DEF MsgInv, Copied, Early
<1>11. SafeInv'
  BY <1>1, <1>2, <1>5, <1>7, <1>8, <1>9, <1>10, SafeAnswered DEF Typed, MsgInv
<1>12. Forward
  <2>1. FromMessenger(m) => "REJECTED" \in Successors(shown[m])
    BY <1>2, <1>4 DEF MsgInv, Told, Early, Successors
  <2> QED
    BY <1>1, <1>2, <2>1, ForwardShow DEF Typed
<1> QED
  BY <1>11, <1>12

LEMMA SafeTransmittingRecorded ==
    ASSUME Typed, Typed', PlaceInv, SafeInv, NEW n \in Nodes, TransmittingRecorded(n)
    PROVE  SafeInv' /\ Forward
<1> SUFFICES ASSUME NEW m, m = held[n] PROVE SafeInv' /\ Forward
  OBVIOUS
<1>1. /\ worker[n] = "marking" /\ Returned("egress", m) /\ Show(m, "TRANSMITTING")
      /\ worker' = [worker EXCEPT ![n] = "sending"]
      /\ UNCHANGED held
      /\ UNCHANGED <<requests, phase, orphans, arrived, queue, mirrored>>
      /\ begun' = begun \cup {m}
  BY DEF TransmittingRecorded, processVars, intakeVars, queueVars, historyVars
<1>2. m \in Msgs /\ Stage(m) = "marking" /\ Stage(m)' = "sending" /\ \A o \in Msgs : o # m => Stage(o)' = Stage(o)
  <2>1. "sending" \in WorkerStates \ {"idle"}
    BY DEF WorkerStates
  <2> QED
    BY <1>1, <2>1, StageMove DEF PlaceInv
<1>3. UNCHANGED <<db, disk>> /\ Says(db, m) = "TRANSMITTING" /\ Says(disk, m) = "TRANSMITTING"
  BY <1>1, <1>2, Answered DEF Typed, Aim
<1>4. /\ MsgInv(m) /\ ~InRecovery(m, "TRANSMITTING")' /\ ~InRecovery(m, "PENDING")'
  <2>1. ~InRecovery(m, "TRANSMITTING") /\ ~InRecovery(m, "PENDING")
    BY <1>2, RecoveryOut DEF Typed
  <2> QED
    BY <1>1, <1>2, <2>1 DEF SafeInv, InRecovery
<1>5. /\ shown'[m] = IF FromMessenger(m) THEN "TRANSMITTING" ELSE shown[m]
      /\ \A o \in Msgs : o # m => shown'[o] = shown[o]
  BY <1>1, <1>2, ShowEffect DEF Typed
<1>6. m \in arrived
  BY <1>1 DEF PlaceInv, WaitsOnce
<1>7. Rows(m)'
  BY <1>2, <1>3, <1>4 DEF Rows, MaySay, Statuses
<1>8. Aloft(m)' /\ Backed(m)'
  BY <1>2, <1>3 DEF Aloft, Backed, Early
<1>9. Told(m)'
  BY <1>1, <1>2, <1>3, <1>4, <1>5, <1>6 DEF MsgInv, Told, ToldRow, FromMessenger, Early
<1>10. Copied(m)'
  BY <1>1, <1>2, <1>3, <1>4 DEF MsgInv, Copied, Early
<1>11. SafeInv'
  BY <1>1, <1>2, <1>5, <1>7, <1>8, <1>9, <1>10, SafeAnswered DEF Typed, MsgInv
<1>12. Forward
  <2>1. FromMessenger(m) => "TRANSMITTING" \in Successors(shown[m])
    BY <1>2, <1>4 DEF MsgInv, Told, Early, Successors
  <2> QED
    BY <1>1, <1>2, <2>1, ForwardShow DEF Typed
<1> QED
  BY <1>11, <1>12

LEMMA SafeFailureRecorded ==
    ASSUME Typed, Typed', PlaceInv, SafeInv, NEW n \in Nodes, FailureRecorded(n)
    PROVE  SafeInv' /\ Forward
<1> SUFFICES ASSUME NEW m, m = held[n] PROVE SafeInv' /\ Forward
  OBVIOUS
<1>1. /\ worker[n] = "failing" /\ Returned("egress", m) /\ Show(m, "FAILED")
      /\ worker' = [worker EXCEPT ![n] = "idle"]
      /\ held' = [held EXCEPT ![n] = NoMsg]
      /\ UNCHANGED <<requests, phase, orphans, arrived, queue, mirrored>>
      /\ begun' = begun
  BY DEF FailureRecorded, processVars, intakeVars, queueVars, historyVars
<1>2. m \in Msgs /\ Stage(m) = "failing" /\ Stage(m)' = "out" /\ \A o \in Msgs : o # m => Stage(o)' = Stage(o)
  BY <1>1, StageRelease DEF PlaceInv
<1>3. UNCHANGED <<db, disk>> /\ Says(db, m) = "FAILED" /\ Says(disk, m) = "FAILED"
  BY <1>1, <1>2, Answered DEF Typed, Aim
<1>4. /\ MsgInv(m) /\ ~InRecovery(m, "TRANSMITTING")' /\ ~InRecovery(m, "PENDING")'
  <2>1. ~InRecovery(m, "TRANSMITTING") /\ ~InRecovery(m, "PENDING")
    BY <1>2, RecoveryOut DEF Typed
  <2> QED
    BY <1>1, <1>2, <2>1 DEF SafeInv, InRecovery
<1>5. /\ shown'[m] = IF FromMessenger(m) THEN "FAILED" ELSE shown[m]
      /\ \A o \in Msgs : o # m => shown'[o] = shown[o]
  BY <1>1, <1>2, ShowEffect DEF Typed
<1>6. m \in arrived
  BY <1>1 DEF PlaceInv, WaitsOnce
<1>7. Rows(m)'
  BY <1>2, <1>3, <1>4 DEF Rows, MaySay, Statuses
<1>8. Aloft(m)' /\ Backed(m)'
  BY <1>2, <1>3 DEF Aloft, Backed, Early
<1>9. Told(m)'
  BY <1>1, <1>2, <1>3, <1>4, <1>5, <1>6 DEF MsgInv, Told, ToldRow, FromMessenger, Early
<1>10. Copied(m)'
  BY <1>1, <1>2, <1>3, <1>4 DEF MsgInv, Copied, Early
<1>11. SafeInv'
  BY <1>1, <1>2, <1>5, <1>7, <1>8, <1>9, <1>10, SafeAnswered DEF Typed, MsgInv
<1>12. Forward
  <2>1. FromMessenger(m) => "FAILED" \in Successors(shown[m])
    BY <1>2, <1>4 DEF MsgInv, Told, Early, Successors
  <2> QED
    BY <1>1, <1>2, <2>1, ForwardShow DEF Typed
<1> QED
  BY <1>11, <1>12

LEMMA SafeSentRecorded ==
    ASSUME Typed, Typed', PlaceInv, SafeInv, NEW n \in Nodes, SentRecorded(n)
    PROVE  SafeInv' /\ Forward
<1> SUFFICES ASSUME NEW m, m = held[n] PROVE SafeInv' /\ Forward
  OBVIOUS
<1>1. /\ worker[n] = "committing" /\ Returned("egress", m) /\ Show(m, "SENT")
      /\ worker' = [worker EXCEPT ![n] = "mirroring"]
      /\ UNCHANGED held
      /\ UNCHANGED <<requests, phase, orphans, arrived, queue, mirrored>>
      /\ begun' = begun
  BY DEF SentRecorded, processVars, intakeVars, queueVars, historyVars
<1>2. m \in Msgs /\ Stage(m) = "committing" /\ Stage(m)' = "mirroring" /\ \A o \in Msgs : o # m => Stage(o)' = Stage(o)
  <2>1. "mirroring" \in WorkerStates \ {"idle"}
    BY DEF WorkerStates
  <2> QED
    BY <1>1, <2>1, StageMove DEF PlaceInv
<1>3. UNCHANGED <<db, disk>> /\ Says(db, m) = "SENT" /\ Says(disk, m) = "SENT"
  BY <1>1, <1>2, Answered DEF Typed, Aim
<1>4. /\ MsgInv(m) /\ ~InRecovery(m, "TRANSMITTING")' /\ ~InRecovery(m, "PENDING")'
  <2>1. ~InRecovery(m, "TRANSMITTING") /\ ~InRecovery(m, "PENDING")
    BY <1>2, RecoveryOut DEF Typed
  <2> QED
    BY <1>1, <1>2, <2>1 DEF SafeInv, InRecovery
<1>5. /\ shown'[m] = IF FromMessenger(m) THEN "SENT" ELSE shown[m]
      /\ \A o \in Msgs : o # m => shown'[o] = shown[o]
  BY <1>1, <1>2, ShowEffect DEF Typed
<1>6. m \in arrived
  BY <1>1 DEF PlaceInv, WaitsOnce
<1>7. Rows(m)'
  BY <1>2, <1>3, <1>4 DEF Rows, MaySay, Statuses
<1>8. Aloft(m)' /\ Backed(m)'
  BY <1>2, <1>3 DEF Aloft, Backed, Early
<1>9. Told(m)'
  BY <1>1, <1>2, <1>3, <1>4, <1>5, <1>6 DEF MsgInv, Told, ToldRow, FromMessenger, Early
<1>10. Copied(m)'
  BY <1>1, <1>2, <1>3, <1>4 DEF MsgInv, Copied, Early
<1>11. SafeInv'
  BY <1>1, <1>2, <1>5, <1>7, <1>8, <1>9, <1>10, SafeAnswered DEF Typed, MsgInv
<1>12. Forward
  <2>1. FromMessenger(m) => "SENT" \in Successors(shown[m])
    BY <1>2, <1>4 DEF MsgInv, Told, Early, Successors
  <2> QED
    BY <1>1, <1>2, <2>1, ForwardShow DEF Typed
<1> QED
  BY <1>11, <1>12

LEMMA SafePruned ==
    ASSUME Typed, Typed', PlaceInv, SafeInv, NEW n \in Nodes, Pruned(n)
    PROVE  SafeInv' /\ UNCHANGED shown
<1> SUFFICES ASSUME NEW m, m = held[n] PROVE SafeInv' /\ UNCHANGED shown
  OBVIOUS
<1>1. /\ worker[n] = "pruning" /\ Returned("egress", m)
      /\ worker' = [worker EXCEPT ![n] = "idle"] /\ held' = [held EXCEPT ![n] = NoMsg]
      /\ UNCHANGED <<requests, phase, orphans, arrived, queue, shown, begun, mirrored>>
  BY DEF Pruned, processVars, intakeVars, queueVars, historyVars
<1>2. m \in Msgs /\ Stage(m) = "pruning" /\ Stage(m)' = "out" /\ \A o \in Msgs : o # m => Stage(o)' = Stage(o)
  BY <1>1, StageRelease DEF PlaceInv
<1>3. UNCHANGED <<db, disk>> /\ Says(db, m) = "none" /\ Says(disk, m) = "none"
  BY <1>1, <1>2, Answered DEF Typed, Aim
<1>4. /\ MsgInv(m) /\ ~InRecovery(m, "TRANSMITTING")' /\ ~InRecovery(m, "PENDING")'
  <2>1. ~InRecovery(m, "TRANSMITTING") /\ ~InRecovery(m, "PENDING")
    BY <1>2, RecoveryOut DEF Typed
  <2> QED
    BY <1>1, <1>2, <2>1 DEF SafeInv, InRecovery
<1>5. Rows(m)'
  BY <1>2, <1>3, <1>4 DEF Rows, MaySay
<1>6. Aloft(m)' /\ Backed(m)'
  BY <1>2, <1>3 DEF Aloft, Backed, Early
<1>7. Told(m)'
  BY <1>1, <1>2, <1>3, <1>4 DEF MsgInv, Told, ToldRow, FromMessenger, Early
<1>8. Copied(m)'
  BY <1>1, <1>2, <1>3, <1>4 DEF MsgInv, Copied, Early
<1> QED
  BY <1>1, <1>2, <1>5, <1>6, <1>7, <1>8, SafeAnswered DEF Typed, MsgInv

\* From one attempt to the pause after "busy", and back.
LEMMA SafeAttempt ==
    ASSUME Typed, Typed', PlaceInv, SafeInv, NEW n \in Nodes, SendBusy(n) \/ Retry(n)
    PROVE  SafeInv' /\ UNCHANGED shown
<1> SUFFICES ASSUME NEW m, m = held[n], NEW w \in {"sending", "backoff"}, worker' = [worker EXCEPT ![n] = w]
             PROVE  SafeInv' /\ UNCHANGED shown
  BY DEF SendBusy, Retry
<1>1. /\ worker[n] \in {"sending", "backoff"}
      /\ UNCHANGED <<phase, orphans, arrived, queue, held, requests, replies, db, disk, shown, begun, mirrored>>
  BY DEF SendBusy, Retry, processVars, intakeVars, queueVars, historyVars, journalVars
<1>2. /\ m \in Msgs /\ Stage(m) \in {"sending", "backoff"} /\ Stage(m)' \in {"sending", "backoff"}
      /\ \A o \in Msgs : o # m => Stage(o)' = Stage(o)
  <2>1. w \in WorkerStates \ {"idle"} /\ worker[n] # "idle"
    BY <1>1 DEF WorkerStates
  <2> QED
    BY <1>1, <2>1, StageMove DEF PlaceInv
<1>3. \A x \in Calls : x.msg # m
  BY <1>2, NoCalls DEF Typed
<1>4. UNCHANGED Inserting
  BY <1>1 DEF Inserting
<1>5. \A o \in Msgs : o # m => Same(o)
  BY <1>1, <1>2, <1>4, OthersSame
<1>6. MsgInv(m) /\ (\A st : InRecovery(m, st)' <=> InRecovery(m, st))
  BY <1>1, <1>2 DEF SafeInv, InRecovery
<1>7. Rows(m)'
  BY <1>1, <1>2, <1>6 DEF MsgInv, Rows, MaySay
<1>8. Aloft(m)' /\ Backed(m)' /\ Copied(m)'
  BY <1>1, <1>2, <1>6 DEF MsgInv, Aloft, Backed, Copied, Early
<1>9. Told(m)'
  BY <1>1, <1>2, <1>6 DEF MsgInv, Told, ToldRow, FromMessenger, Early
<1> QED
  BY <1>1, <1>2, <1>3, <1>5, <1>7, <1>8, <1>9, SafeQuiet DEF Typed, MsgInv

LEMMA SafeMirror ==
    ASSUME Typed, Typed', PlaceInv, SafeInv, NEW n \in Nodes, Mirror(n)
    PROVE  SafeInv' /\ UNCHANGED shown
<1> SUFFICES ASSUME NEW m, m = held[n] PROVE SafeInv' /\ UNCHANGED shown
  OBVIOUS
<1>1. /\ worker[n] = "mirroring"
      /\ UNCHANGED <<phase, orphans, arrived, queue, worker, held, requests, replies, db, disk, shown, begun>>
  BY DEF Mirror, processVars, intakeVars, queueVars, journalVars
<1>2. m \in Msgs /\ Stage(m) = "mirroring" /\ \A o \in Msgs : Stage(o)' = Stage(o)
  BY <1>1, StageHeld, StageSame DEF PlaceInv
<1>3. \A o \in Msgs : o # m => mirrored'[o] = mirrored[o]
  BY DEF Mirror, Typed, TypeOK
<1>4. \A x \in Calls : x.msg # m
  BY <1>2, NoCalls DEF Typed
<1>5. UNCHANGED Inserting
  BY <1>1 DEF Inserting
<1>6. \A o \in Msgs : o # m => Same(o)
  BY <1>1, <1>2, <1>3, <1>5, OthersSame
<1>7. MsgInv(m) /\ (\A st : InRecovery(m, st)' <=> InRecovery(m, st))
  BY <1>1, <1>2 DEF SafeInv, InRecovery
<1>8. Rows(m)' /\ Aloft(m)' /\ Backed(m)' /\ Told(m)'
  BY <1>1, <1>2, <1>5, <1>7 DEF MsgInv, Rows, Aloft, Backed, Told, ToldRow, FromMessenger
<1>9. Copied(m)'
  <2>1. m \in begun /\ Says(db, m) = "SENT" /\ Says(disk, m) = "SENT"
    BY <1>2, <1>7 DEF MsgInv, Rows, Copied, MaySay, Early
  <2> QED
    BY <1>1, <1>2, <2>1 DEF Copied, Early
<1> QED
  BY <1>1, <1>2, <1>4, <1>6, <1>8, <1>9, SafeQuiet DEF Typed, MsgInv
---------------------------------------------------------------------------
(* Intake.                                                                 *)

\* Nobody knows anything of a message that has not arrived.
LEMMA NewMsg ==
    ASSUME UniqueKeys, Typed, OnceInv, SafeInv, NEW m \in Msgs \ arrived
    PROVE  /\ Stage(m) = "out" /\ shown[m] = "none" /\ mirrored[m] = {} /\ m \notin begun
           /\ Says(db, m) = "none" /\ Says(disk, m) = "none"
           /\ \A st : ~InRecovery(m, st)
           /\ \A x \in Calls : x.msg # m
<1>1. Stage(m) = "out"
  BY StageOut DEF OnceInv, PlaceInv
<1>2. m \notin begun
  BY DEF OnceInv, CallsInv, BegunIsSettled
<1>3. MsgInv(m)
  BY DEF SafeInv
<1>4. shown[m] = "none" /\ mirrored[m] = {}
  BY <1>2, <1>3 DEF MsgInv, Told, Copied
<1>5. Says(db, m) = "none" /\ Says(disk, m) = "none"
  BY SaysNew DEF Typed, TypeOK, OnceInv, CallsInv, RowsKeyed
<1>6. \A st : ~InRecovery(m, st)
  BY DEF InRecovery, OnceInv, PlaceInv, OrphansApart
<1>7. \A x \in Calls : x.msg # m
  BY DEF Calls, OnceInv, CallsInv, CallsSane
<1> QED
  BY <1>1, <1>2, <1>4, <1>5, <1>6, <1>7

\* Refused, or the queue had no room: the message is answered and never seen again.
LEMMA SafeTurnedAway ==
    ASSUME UniqueKeys, Typed, Typed', OnceInv, SafeInv, NEW m \in Msgs, Refuse(m) \/ Overload(m)
    PROVE  SafeInv' /\ Forward
<1>1. /\ m \notin arrived /\ arrived' = arrived \cup {m} /\ Show(m, "REJECTED")
      /\ UNCHANGED <<phase, orphans, queue, worker, held, requests, replies, db, disk, begun, mirrored>>
  BY DEF Refuse, Overload, Arrives, processVars, queueVars, workerVars, journalVars, historyVars
<1>2. /\ Stage(m) = "out" /\ shown[m] = "none" /\ mirrored[m] = {} /\ m \notin begun
      /\ Says(db, m) = "none" /\ Says(disk, m) = "none"
      /\ \A st : ~InRecovery(m, st)
      /\ \A x \in Calls : x.msg # m
  BY <1>1, NewMsg
<1>3. /\ shown'[m] = IF FromMessenger(m) THEN "REJECTED" ELSE shown[m]
      /\ \A o \in Msgs : o # m => shown'[o] = shown[o]
  BY <1>1, ShowEffect DEF Typed
<1>4. \A o \in Msgs : Stage(o)' = Stage(o)
  BY <1>1, StageSame
<1>5. UNCHANGED Inserting /\ ~InRecovery(m, "TRANSMITTING")' /\ ~InRecovery(m, "PENDING")'
  BY <1>1, <1>2 DEF Inserting, InRecovery
<1>6. \A o \in Msgs : o # m => Same(o)
  BY <1>1, <1>3, <1>4, <1>5, OthersSame
<1>7. Rows(m)'
  BY <1>1, <1>2, <1>4, <1>5 DEF Rows, MaySay
<1>8. Aloft(m)' /\ Backed(m)' /\ Copied(m)'
  BY <1>1, <1>2, <1>4 DEF Aloft, Backed, Copied, Early
<1>9. Told(m)'
  BY <1>1, <1>2, <1>3, <1>4, <1>5 DEF Told, ToldRow, FromMessenger, Early
<1>10. SafeInv'
  BY <1>1, <1>2, <1>6, <1>7, <1>8, <1>9, SafeQuiet DEF Typed, MsgInv
<1>11. Forward
  <2>1. "REJECTED" \in Successors(shown[m])
    BY <1>2 DEF Successors
  <2> QED
    BY <1>1, <2>1, ForwardShow DEF Typed
<1> QED
  BY <1>10, <1>11

LEMMA SafeEnqueue ==
    ASSUME UniqueKeys, Typed, Typed', OnceInv, SafeInv, NEW m \in Msgs, Enqueue(m)
    PROVE  SafeInv' /\ UNCHANGED shown
<1> SUFFICES ASSUME NEW e, e = [op |-> "insert", by |-> "consume", msg |-> m, st |-> "PENDING",
                                rowid |-> Len(admitted)]
             PROVE  SafeInv' /\ UNCHANGED shown
  OBVIOUS
<1>1. /\ m \notin arrived /\ arrived' = arrived \cup {m} /\ phase = "up"
      /\ queue' = [queue EXCEPT ![Target[m]] = Append(@, m)]
      /\ Submit("insert", "consume", m, "PENDING", Len(admitted))
      /\ UNCHANGED <<phase, orphans, worker, held, replies, db, disk, shown, begun, mirrored>>
  BY DEF Enqueue, Arrives, processVars, workerVars, historyVars
<1>2. /\ e \in Request /\ requests' = Append(requests, e)
      /\ e.op = "insert" /\ e.by = "consume" /\ e.msg = m
  <2>1. Len(admitted) \in Nat
    BY DEF Typed, TypeOK
  <2> QED
    BY <1>1, <2>1 DEF Submit, Request, Statuses
<1>3. /\ Stage(m) = "out" /\ shown[m] = "none" /\ mirrored[m] = {} /\ m \notin begun
      /\ Says(db, m) = "none" /\ Says(disk, m) = "none"
      /\ \A st : ~InRecovery(m, st)
      /\ \A x \in Calls : x.msg # m
  BY <1>1, NewMsg
<1>4. Stage(m)' = "line" /\ \A o \in Msgs : o # m => Stage(o)' = Stage(o)
  BY <1>1, StagePut DEF Typed
<1>5. /\ Lines' /\ Calls' = Calls \cup {e} /\ UNCHANGED <<Ran, Durable>>
      /\ Inserting' = Inserting \cup {m}
  <2>1. \A x \in Calls : ~Twins(x, e) /\ ~Rivals(e, x)
    BY <1>2, <1>3 DEF Twins, Rivals
  <2> QED
    BY <1>1, <1>2, <2>1, LinesSubmit DEF SafeInv, Typed
<1>6. \A o \in Msgs : o # m => Same(o)
  BY <1>1, <1>4, <1>5, OthersSame
<1>7. ~InRecovery(m, "TRANSMITTING")' /\ ~InRecovery(m, "PENDING")'
  BY <1>1, <1>3 DEF InRecovery
<1>8. MsgInv(m)'
  BY <1>1, <1>3, <1>4, <1>5, <1>7
  DEF MsgInv, Rows, MaySay, Aloft, Backed, Told, ToldRow, Copied, Early
<1>9. ASSUME NEW x \in Calls', x.msg = m PROVE CallFits(x)'
  <2>1. x = e /\ e \notin Ran' /\ e \notin Durable'
    BY <1>2, <1>3, <1>5, <1>9, CallsTyped DEF Typed
  <2>2. Awaited(e)'
    BY <1>1, <1>2, <1>3, <1>4 DEF Awaited, Early
  <2> QED
    BY <2>1, <2>2 DEF CallFits
<1>10. Down'
  BY <1>1 DEF Down
<1> QED
  BY <1>1, <1>5, <1>6, <1>8, <1>9, <1>10, OneMessage DEF Typed

\* record_pending has returned: the worker may have taken the message and asked meanwhile.
LEMMA SafePendingRecorded ==
    ASSUME Typed, Typed', OnceInv, SafeInv, NEW m \in Msgs, PendingRecorded(m)
    PROVE  SafeInv' /\ Forward
<1>1. /\ Returned("consume", m) /\ Show(m, "PENDING")
      /\ UNCHANGED <<phase, orphans, arrived, queue, worker, held, requests, begun, mirrored>>
  BY DEF PendingRecorded, processVars, queueVars, workerVars, historyVars
<1>2. /\ Lines' /\ Calls' \subseteq Calls /\ Ran' \subseteq Ran /\ Durable' \subseteq Durable
      /\ UNCHANGED <<Inserting, db, disk>> /\ phase # "down"
      /\ Stage(m) \in Early /\ shown[m] = "none" /\ Says(db, m) # "none" /\ Says(disk, m) # "none"
      /\ \A x \in Calls' : x.msg = m => x.by = "egress"
  BY <1>1, Answered DEF Typed, OnceInv
<1>3. /\ shown'[m] = IF FromMessenger(m) THEN "PENDING" ELSE shown[m]
      /\ \A o \in Msgs : o # m => shown'[o] = shown[o]
  BY <1>1, ShowEffect DEF Typed
<1>4. \A o \in Msgs : Stage(o)' = Stage(o)
  BY <1>1, StageSame
<1>5. ~InRecovery(m, "TRANSMITTING") /\ ~InRecovery(m, "PENDING")
  BY <1>2, RecoveryOut DEF OnceInv, Typed, Early
<1>6. ~InRecovery(m, "TRANSMITTING")' /\ ~InRecovery(m, "PENDING")' /\ MsgInv(m)
  BY <1>1, <1>5 DEF InRecovery, SafeInv
<1>7. \A o \in Msgs : o # m => Same(o)
  BY <1>1, <1>2, <1>3, <1>4, OthersSame
<1>8. m \in arrived
  <2>1. CASE Stage(m) = "line"
    BY <2>1, StageQueued, PipelineAssumption DEF OnceInv, PlaceInv, WaitsOnce
  <2>2. CASE Stage(m) # "line"
    BY <1>2, <2>2, StageOut DEF OnceInv, PlaceInv, Early
  <2> QED
    BY <2>1, <2>2
<1>9. Rows(m)'
  BY <1>2, <1>4, <1>6 DEF MsgInv, Rows
<1>10. Aloft(m)' /\ Backed(m)' /\ Copied(m)'
  <2>1. Aloft(m)'
    BY <1>2, <1>4 DEF Aloft, Early
  <2>2. Backed(m)'
    BY <1>2, <1>4 DEF Backed
  <2>3. Copied(m)'
    BY <1>1, <1>2, <1>4, <1>6 DEF MsgInv, Copied
  <2> QED
    BY <2>1, <2>2, <2>3
<1>11. Told(m)'
  BY <1>1, <1>2, <1>3, <1>4, <1>6, <1>8 DEF MsgInv, Told, ToldRow, FromMessenger, Early
<1>12. ASSUME NEW x \in Calls', x.msg = m PROVE CallFits(x)'
  <2>1. x \in Calls /\ CallFits(x) /\ x.by = "egress"
    BY <1>2, <1>12 DEF SafeInv
  <2> QED
    BY <1>2, <1>4, <1>12, <2>1 DEF CallFits, Awaited, Shows
<1>13. SafeInv'
  BY <1>1, <1>2, <1>7, <1>9, <1>10, <1>11, <1>12, OneMessage DEF Typed, MsgInv, Down
<1>14. Forward
  <2>1. "PENDING" \in Successors(shown[m])
    BY <1>2 DEF Successors
  <2> QED
    BY <1>1, <2>1, ForwardShow DEF Typed
<1> QED
  BY <1>13, <1>14
---------------------------------------------------------------------------
(* Recovery, start and death.                                              *)

\* While recovery looks at a row, no call is under way.
LEMMA NoCallsAtAll == ASSUME requests = <<>>, replies = <<>> PROVE Calls = {}
BY DEF Calls

LEMMA SafeRecoverTransmitting ==
    ASSUME Typed, Typed', OnceInv, SafeInv, NEW r \in orphans, RecoverTransmitting(r)
    PROVE  SafeInv' /\ Forward
<1> SUFFICES ASSUME NEW m, m = r.msg,
                    NEW e, e = [op |-> "set", by |-> "recover", msg |-> m, st |-> "UNKNOWN", rowid |-> 0]
             PROVE  SafeInv' /\ Forward
  OBVIOUS
<1>1. /\ phase = "recovering" /\ requests = <<>> /\ replies = <<>> /\ r.st = "TRANSMITTING"
      /\ Show(m, "UNKNOWN") /\ Submit("set", "recover", m, "UNKNOWN", 0)
      /\ UNCHANGED <<phase, orphans, arrived, queue, worker, held, replies, db, disk, begun, mirrored>>
  BY DEF RecoverTransmitting, NextOrphan, processVars, intakeVars, queueVars, workerVars, historyVars
<1>2. m \in Msgs
  BY DEF Typed, TypeOK, Row
<1>3. /\ e \in Request /\ requests' = Append(requests, e)
      /\ e.op = "set" /\ e.by = "recover" /\ e.msg = m /\ e.st = "UNKNOWN"
  BY <1>1, <1>2 DEF Submit, Request, Statuses
<1>4. Calls = {}
  BY <1>1, NoCallsAtAll
<1>5. InRecovery(m, "TRANSMITTING") /\ Stage(m) = "out" /\ m \in arrived /\ MsgInv(m)
  BY <1>1, <1>2, StageRecovery DEF InRecovery, OnceInv, SafeInv
<1>6. ~InRecovery(m, "PENDING")
  BY <1>5 DEF MsgInv, Rows
<1>7. /\ Lines' /\ Calls' = {e} /\ UNCHANGED <<Ran, Durable, Inserting>>
  BY <1>1, <1>3, <1>4, LinesSubmit DEF SafeInv, Typed
<1>8. /\ shown'[m] = IF FromMessenger(m) THEN "UNKNOWN" ELSE shown[m]
      /\ \A o \in Msgs : o # m => shown'[o] = shown[o]
  BY <1>1, <1>2, ShowEffect DEF Typed
<1>9. \A o \in Msgs : Stage(o)' = Stage(o)
  BY <1>1, StageSame
<1>10. \A o \in Msgs : o # m => Same(o)
  BY <1>1, <1>7, <1>8, <1>9, <1>2, OthersSame
<1>11. InRecovery(m, "TRANSMITTING")' /\ ~InRecovery(m, "PENDING")'
  BY <1>1, <1>5, <1>6 DEF InRecovery
<1>12. Rows(m)' /\ Aloft(m)' /\ Copied(m)'
  BY <1>1, <1>2, <1>5, <1>9, <1>11 DEF MsgInv, Rows, Aloft, Copied
<1>13. Backed(m)' /\ Told(m)'
  BY <1>1, <1>2, <1>5, <1>8, <1>9, <1>11 DEF MsgInv, Backed, Told, ToldRow, FromMessenger, Early, Rows
<1>14. ASSUME NEW x \in Calls' PROVE x = e /\ CallFits(x)'
  <2>1. x = e /\ e \notin Ran' /\ e \notin Durable'
    BY <1>4, <1>7, <1>14, CallsTyped DEF Typed
  <2>2. Awaited(e)'
    BY <1>3, <1>11 DEF Awaited
  <2> QED
    BY <2>1, <2>2 DEF CallFits
<1>15. Down'
  BY <1>1 DEF Down
<1>16. SafeInv'
  BY <1>1, <1>2, <1>3, <1>7, <1>10, <1>12, <1>13, <1>14, <1>15, OneMessage DEF Typed, MsgInv
<1>17. Forward
  <2>1. "UNKNOWN" \in Successors(shown[m])
    BY <1>5 DEF Successors, MsgInv, Told
  <2> QED
    BY <1>1, <1>2, <2>1, ForwardShow DEF Typed
<1> QED
  BY <1>16, <1>17

\* recover() is done with the row of m: it is marked, put back, or left alone.
LEMMA OrphanGone ==
    ASSUME Typed, OnceInv, NEW r \in orphans, orphans' = orphans \ {r}
    PROVE  /\ \A st : ~InRecovery(r.msg, st)'
           /\ \A o \in Msgs : o # r.msg => \A st : InRecovery(o, st)' <=> InRecovery(o, st)
<1> SUFFICES ASSUME NEW m, m = r.msg
             PROVE  /\ \A st : ~InRecovery(m, st)'
                    /\ \A o \in Msgs : o # m => \A st : InRecovery(o, st)' <=> InRecovery(o, st)
  BY DEF InRecovery
<1>1. \A q \in orphans : q.msg = m => q = r
  BY DEF OnceInv, PlaceInv, OrphansApart
<1> QED
  BY <1>1 DEF InRecovery

LEMMA SafeUnknownRecorded ==
    ASSUME Typed, Typed', OnceInv, SafeInv, NEW r \in orphans, UnknownRecorded(r)
    PROVE  SafeInv' /\ UNCHANGED shown
<1> SUFFICES ASSUME NEW m, m = r.msg PROVE SafeInv' /\ UNCHANGED shown
  OBVIOUS
<1>1. /\ Returned("recover", m) /\ orphans' = orphans \ {r}
      /\ UNCHANGED <<phase, arrived, queue, worker, held, requests, shown, begun, mirrored>>
  BY DEF UnknownRecorded, intakeVars, queueVars, workerVars, historyVars
<1>2. m \in Msgs
  BY DEF Typed, TypeOK, Row
<1>3. /\ Lines' /\ Calls' \subseteq Calls /\ Ran' \subseteq Ran /\ Durable' \subseteq Durable
      /\ UNCHANGED <<Inserting, db, disk>> /\ phase # "down" /\ Stage(m) = "out"
      /\ \A x \in Calls' : x.msg # m
      /\ \E h \in Durable : h.by = "recover" /\ h.msg = m /\ h.op = "commit"
  BY <1>1, <1>2, Answered, LinesReturn DEF Typed, OnceInv, SafeInv
<1>4. Says(db, m) = "UNKNOWN" /\ Says(disk, m) = "UNKNOWN"
  BY <1>3, CallsTyped DEF SafeInv, CallFits, Shows, Typed
<1>5. \A o \in Msgs : Stage(o)' = Stage(o)
  BY <1>1, StageSame
<1>6. /\ ~InRecovery(m, "TRANSMITTING")' /\ ~InRecovery(m, "PENDING")'
      /\ \A o \in Msgs : o # m => \A st : InRecovery(o, st)' <=> InRecovery(o, st)
  BY <1>1, OrphanGone
<1>7. \A o \in Msgs : o # m => Same(o)
  BY <1>1, <1>3, <1>5, <1>6 DEF Same
<1>8. MsgInv(m)
  BY <1>2 DEF SafeInv
<1>9. Rows(m)' /\ Aloft(m)'
  BY <1>2, <1>3, <1>4, <1>5, <1>6 DEF Rows, Aloft, MaySay, Statuses
<1>10. Backed(m)' /\ Copied(m)'
  BY <1>1, <1>2, <1>3, <1>4, <1>5, <1>8 DEF MsgInv, Backed, Copied, Early
<1>11. Told(m)'
  BY <1>1, <1>2, <1>3, <1>4, <1>5, <1>6, <1>8 DEF MsgInv, Told, ToldRow, FromMessenger, Early
<1> QED
  BY <1>1, <1>2, <1>3, <1>7, <1>9, <1>10, <1>11, OneMessage DEF Typed, MsgInv, Down

\* A PENDING row: its message goes back into the queue, is dropped, or its node is gone.
LEMMA SafeRecoverRow ==
    ASSUME Typed, Typed', OnceInv, SafeInv, NEW r \in orphans, RecoverPending(r) \/ RecoverVanished(r)
    PROVE  SafeInv' /\ Forward
<1> SUFFICES ASSUME NEW m, m = r.msg PROVE SafeInv' /\ Forward
  OBVIOUS
<1>1. /\ phase = "recovering" /\ requests = <<>> /\ replies = <<>> /\ r.st = "PENDING"
      /\ orphans' = orphans \ {r}
      /\ \/ queue' = [queue EXCEPT ![Target[m]] = Append(@, m)] /\ Show(m, "PENDING")
         \/ queue' = queue /\ (Show(m, "PENDING") \/ shown' = shown)
      /\ UNCHANGED <<phase, arrived, worker, held, requests, replies, db, disk, begun, mirrored>>
  BY DEF RecoverPending, RecoverVanished, NextOrphan, intakeVars, queueVars, workerVars, journalVars, historyVars
<1>2. m \in Msgs
  BY DEF Typed, TypeOK, Row
<1>3. InRecovery(m, "PENDING") /\ Stage(m) = "out" /\ m \in arrived /\ MsgInv(m) /\ m \notin begun
  <2>1. m \notin begun
    BY <1>1 DEF OnceInv, NeverRequeued
  <2> QED
    BY <1>1, <1>2, <2>1, StageRecovery DEF InRecovery, OnceInv, SafeInv
<1>4. /\ Says(db, m) = "PENDING" /\ Says(disk, m) = "PENDING" /\ shown[m] \in {"none", "PENDING"}
      /\ mirrored[m] = {}
  BY <1>3 DEF MsgInv, Rows, Told, ToldRow, Copied
<1>5. Calls = {} /\ UNCHANGED Inserting
  BY <1>1, NoCallsAtAll DEF Inserting
<1>6. /\ ~InRecovery(m, "TRANSMITTING")' /\ ~InRecovery(m, "PENDING")'
      /\ \A o \in Msgs : o # m => \A st : InRecovery(o, st)' <=> InRecovery(o, st)
  BY <1>1, OrphanGone
<1>7. Stage(m)' \in {"line", "out"} /\ \A o \in Msgs : o # m => Stage(o)' = Stage(o)
  <2>1. CASE queue' = queue
    BY <1>1, <1>2, <1>3, <2>1, StageSame
  <2>2. CASE queue' = [queue EXCEPT ![Target[m]] = Append(@, m)]
    BY <1>1, <1>2, <2>2, StagePut DEF Typed
  <2> QED
    BY <1>1, <2>1, <2>2
<1>8. /\ shown'[m] \in {"none", "PENDING"} /\ (shown'[m] # "none" => FromMessenger(m))
      /\ \A o \in Msgs : o # m => shown'[o] = shown[o]
  <2>1. CASE Show(m, "PENDING")
    BY <1>2, <1>3, <1>4, <2>1, ShowEffect DEF Typed, MsgInv, Told
  <2>2. CASE shown' = shown
    BY <1>3, <1>4, <2>2 DEF MsgInv, Told
  <2> QED
    BY <1>1, <2>1, <2>2
<1>9. \A o \in Msgs : o # m => Same(o)
  BY <1>1, <1>5, <1>6, <1>7, <1>8 DEF Same
<1>10. Rows(m)' /\ Aloft(m)'
  BY <1>1, <1>4, <1>6, <1>7 DEF Rows, Aloft, MaySay, Statuses
<1>11. Backed(m)' /\ Copied(m)'
  BY <1>1, <1>3, <1>4, <1>7 DEF Backed, Copied, Early
<1>12. Told(m)'
  BY <1>1, <1>3, <1>4, <1>6, <1>7, <1>8 DEF Told, ToldRow, FromMessenger, Early
<1>13. SafeInv'
  BY <1>1, <1>2, <1>5, <1>9, <1>10, <1>11, <1>12, SafeQuiet DEF Typed, MsgInv
<1>14. Forward
  <2>1. "PENDING" \in Successors(shown[m])
    BY <1>4 DEF Successors
  <2>2. CASE Show(m, "PENDING")
    BY <1>2, <2>1, <2>2, ForwardShow DEF Typed
  <2>3. CASE shown' = shown
    BY <2>3 DEF Forward
  <2> QED
    BY <1>1, <2>2, <2>3
<1> QED
  BY <1>13, <1>14
\* bridge.run() starts: every row that was on the air has been dealt with.
LEMMA SafeOpen ==
    ASSUME Typed, Typed', SafeInv, Open
    PROVE  SafeInv' /\ UNCHANGED shown
<1>1. /\ phase = "recovering" /\ orphans = {} /\ phase' = "up"
      /\ UNCHANGED <<orphans, arrived, queue, worker, held, requests, replies, db, disk, shown, begun, mirrored>>
  BY DEF Open, intakeVars, queueVars, workerVars, journalVars, historyVars
<1>2. Lines' /\ UNCHANGED <<Calls, Ran, Durable, Inserting>>
  BY <1>1, LinesIdle DEF SafeInv
<1>3. /\ \A o \in Msgs : Stage(o)' = Stage(o)
      /\ \A st : \A o \in Msgs : ~InRecovery(o, st) /\ ~InRecovery(o, st)'
  BY <1>1, StageSame DEF InRecovery
<1>4. \A o \in Msgs : Same(o)
  BY <1>1, <1>2, <1>3 DEF Same
<1>5. ASSUME NEW m \in Msgs PROVE MsgInv(m)'
  <2>1. MsgInv(m)
    BY DEF SafeInv
  <2>2. Aloft(m)'
    BY <1>1, <1>3, <2>1 DEF MsgInv, Aloft
  <2> QED
    BY <1>1, <1>2, <1>3, <2>1, <2>2 DEF MsgInv, Rows, Backed, Told, ToldRow, Copied, FromMessenger
<1>6. ASSUME NEW x \in Calls' PROVE CallFits(x)'
  <2>1. x \in Calls /\ x.msg \in Msgs
    BY <1>2, <1>6, CallsTyped DEF Request, Typed
  <2> QED
    BY <1>2, <1>4, <2>1, SameCall DEF SafeInv
<1>7. OneAir(db)' /\ OneAir(disk)'
  BY <1>1 DEF SafeInv, OneAir
<1> QED
  BY <1>1, <1>2, <1>5, <1>6, <1>7 DEF SafeInv, Down

\* The process starts, and recover() reads the rows that are not terminal.
LEMMA SafeStart ==
    ASSUME UniqueKeys, Typed, Typed', OnceInv, SafeInv, Start
    PROVE  SafeInv' /\ UNCHANGED shown
<1>1. /\ phase = "down" /\ phase' = "recovering"
      /\ orphans' = {disk[k] : k \in {k \in Keys : /\ disk[k] # NoRow
                                                  /\ disk[k].st \in {"PENDING", "TRANSMITTING"}}}
      /\ UNCHANGED <<arrived, queue, worker, held, requests, replies, db, disk, shown, begun, mirrored>>
  BY DEF Start, intakeVars, queueVars, workerVars, journalVars, historyVars
<1>2. Lines' /\ UNCHANGED <<Calls, Ran, Durable, Inserting>>
  BY <1>1, LinesIdle DEF SafeInv
<1>3. db = disk /\ Calls = {} /\ \A m \in Msgs : Stage(m) = "out" /\ Stage(m)' = "out"
  <2>1. db = disk /\ requests = <<>> /\ replies = <<>>
    BY <1>1 DEF SafeInv, Down
  <2>2. \A m \in Msgs : Stage(m) = "out"
    BY <1>1, StageNotUp DEF OnceInv
  <2> QED
    BY <1>1, <2>1, <2>2, StageSame, NoCallsAtAll
<1>4. Keyed(disk) /\ disk \in Table
  BY DEF OnceInv, CallsInv, RowsKeyed, Typed, TypeOK
<1>5. ASSUME NEW m \in Msgs, NEW st, InRecovery(m, st)' PROVE Says(disk, m) = st
  <2>1. PICK k \in Keys : disk[k] # NoRow /\ disk[k].msg = m /\ disk[k].st = st
    BY <1>1, <1>5 DEF InRecovery
  <2> QED
    BY <1>4, <2>1, SaysRow
<1>6. ASSUME NEW m \in Msgs, Says(disk, m) = "TRANSMITTING" PROVE InRecovery(m, "TRANSMITTING")'
  <2>1. Key(m) \in Keys /\ disk[Key(m)] # NoRow /\ disk[Key(m)].st = "TRANSMITTING"
    BY <1>6 DEF Says, Keys
  <2>2. disk[Key(m)].msg = m
    BY <1>4, <2>1, SaysRow DEF UniqueKeys
  <2>3. disk[Key(m)] \in orphans'
    BY <1>1, <2>1
  <2> QED
    BY <2>1, <2>2, <2>3 DEF InRecovery
<1>7. ASSUME NEW m \in Msgs PROVE MsgInv(m)'
  <2>1. MsgInv(m)
    BY DEF SafeInv
  <2>2. Rows(m)'
    BY <1>1, <1>3, <1>5, <2>1 DEF MsgInv, Rows
  <2>3. Aloft(m)'
    BY <1>1, <1>3, <1>6 DEF Aloft
  <2>4. Backed(m)' /\ Copied(m)'
    BY <1>1, <1>2, <1>3, <2>1 DEF MsgInv, Backed, Copied, Early
  <2>5. Told(m)'
    BY <1>1, <1>3, <1>5, <2>1 DEF MsgInv, Told, ToldRow, FromMessenger, Early
  <2> QED
    BY <2>2, <2>3, <2>4, <2>5 DEF MsgInv
<1>8. OneAir(db)' /\ OneAir(disk)'
  BY <1>1 DEF SafeInv, OneAir
<1> QED
  BY <1>1, <1>2, <1>3, <1>7, <1>8 DEF SafeInv, Down

\* The process dies: the committed table is all there is.
LEMMA SafeCrash ==
    ASSUME Typed, Typed', SafeInv, Crash
    PROVE  SafeInv' /\ UNCHANGED shown
<1>1. /\ phase' = "down" /\ orphans' = {} /\ db' = disk /\ requests' = <<>> /\ replies' = <<>>
      /\ queue' = [n \in Nodes |-> <<>>] /\ worker' = [n \in Nodes |-> "idle"]
      /\ UNCHANGED <<arrived, disk, shown, begun, mirrored>>
  BY DEF Crash, historyVars
<1>2. \A m \in Msgs : Stage(m)' = "out"
  BY <1>1, PipelineAssumption DEF Stage, InQueue
<1>3. Lines' /\ Calls' = {}
  BY <1>1 DEF Lines, NoTwins, NoOvertaking, Calls
<1>4. \A m \in Msgs : \A st : ~InRecovery(m, st)'
  BY <1>1 DEF InRecovery
<1>5. ASSUME NEW m \in Msgs PROVE MsgInv(m)'
  <2>1. MsgInv(m) /\ Says(disk, m) \in Statuses \cup {"none"}
    BY SaysType DEF SafeInv, Typed, TypeOK
  <2>2. Rows(m)'
    BY <1>1, <1>2, <1>4, <2>1 DEF Rows, MaySay
  <2>3. Aloft(m)' /\ Backed(m)'
    BY <1>1, <1>2 DEF Aloft, Backed, Early
  <2>4. Told(m)'
    BY <1>1, <1>2, <1>4, <2>1 DEF MsgInv, Told, ToldRow, FromMessenger, Early
  <2>5. Copied(m)'
    BY <1>1, <1>2, <2>1 DEF MsgInv, Copied, Early
  <2> QED
    BY <2>2, <2>3, <2>4, <2>5 DEF MsgInv
<1>6. OneAir(db)' /\ OneAir(disk)'
  BY <1>1 DEF SafeInv, OneAir
<1> QED
  BY <1>1, <1>3, <1>5, <1>6 DEF SafeInv, Down

---------------------------------------------------------------------------
LEMMA InitSafe == Init => SafeInv
<1> SUFFICES ASSUME Init PROVE SafeInv
  OBVIOUS
<1> USE DEF Init
<1>1. \A m \in Msgs : Stage(m) = "out"
  <2>1. queue = [n \in Nodes |-> <<>>] /\ worker = [n \in Nodes |-> "idle"]
    OBVIOUS
  <2>2. \A n \in Nodes : DOMAIN queue[n] = {} /\ worker[n] = "idle"
    BY <2>1
  <2> QED
    BY <2>2, PipelineAssumption DEF Stage, InQueue
<1>2. Lines /\ Calls = {} /\ \A m \in Msgs : \A st : ~InRecovery(m, st)
  BY DEF Lines, NoTwins, NoOvertaking, Calls, InRecovery
<1>3. \A m \in Msgs : Says(db, m) = "none" /\ Says(disk, m) = "none"
  BY DEF Says, EmptyTable, Keys
<1>4. ASSUME NEW m \in Msgs PROVE MsgInv(m)
  BY <1>1, <1>2, <1>3 DEF MsgInv, Rows, MaySay, Aloft, Backed, Told, ToldRow, Copied, Early
<1> QED
  BY <1>2, <1>3, <1>4 DEF SafeInv, Down, OneAir

LEMMA StepSafe ==
    ASSUME UniqueKeys, Typed, Typed', OnceInv, SafeInv, [Next]_vars
    PROVE  SafeInv' /\ Forward
<1> USE DEF Typed, OnceInv
<1>1. UNCHANGED shown => Forward
  BY DEF Forward
<1>2. ASSUME RunStatement PROVE SafeInv' /\ Forward
  BY <1>1, <1>2, SafeRun DEF RunStatement
<1>3. ASSUME RunCommit PROVE SafeInv' /\ Forward
  BY <1>1, <1>3, SafeCommit DEF RunCommit
<1>4. ASSUME ResumeStatement PROVE SafeInv' /\ Forward
  BY <1>1, <1>4, SafeResume DEF ResumeStatement
<1>5. ASSUME NEW m \in Msgs, Intake(m) \/ PendingRecorded(m) PROVE SafeInv' /\ Forward
  BY <1>1, <1>5, SafeTurnedAway, SafeEnqueue, SafePendingRecorded DEF Intake
<1>6. ASSUME NEW m \in Msgs, Expire(m) PROVE SafeInv' /\ Forward
  BY <1>1, <1>6, SafeIdle DEF Expire, processVars, intakeVars, workerVars, journalVars, historyVars
<1>7. ASSUME NEW n \in Nodes, Radio(n) PROVE SafeInv' /\ Forward
  BY <1>1, <1>7, SafeSendOk, SafeSendFailed, SafeAttempt DEF Radio
<1>8. ASSUME NEW n \in Nodes, Worker(n) PROVE SafeInv' /\ Forward
  BY <1>1, <1>8, SafeTakeStale, SafeTakeFresh, SafeExpiryRecorded, SafeTransmittingRecorded, SafeAttempt,
     SafeFailureRecorded, SafeSentRecorded, SafeMirror, SafePrune, SafePruned DEF Worker
<1>9. ASSUME NEW n \in Nodes, Refill(n) PROVE SafeInv' /\ Forward
  BY <1>1, <1>9, SafeIdle DEF Refill, processVars, intakeVars, workerVars, journalVars, historyVars
<1>10. ASSUME Crash \/ Start \/ Open PROVE SafeInv' /\ Forward
  BY <1>1, <1>10, SafeCrash, SafeStart, SafeOpen
<1>11. ASSUME NEW r \in orphans,
              RecoverTransmitting(r) \/ UnknownRecorded(r) \/ RecoverPending(r) \/ RecoverVanished(r)
       PROVE  SafeInv' /\ Forward
  BY <1>1, <1>11, SafeRecoverTransmitting, SafeUnknownRecorded, SafeRecoverRow
<1>12. ASSUME UNCHANGED vars PROVE SafeInv' /\ Forward
  BY <1>1, <1>12, SafeIdle DEF vars, processVars, intakeVars, queueVars, workerVars, journalVars, historyVars
<1> QED
  BY <1>2, <1>3, <1>4, <1>5, <1>6, <1>7, <1>8, <1>9, <1>10, <1>11, <1>12
  DEF Next, Journal, Recovery

\* The inductive invariant of the pipeline.
THEOREM PipelineInvariant == ASSUME UniqueKeys PROVE Spec => [](Typed /\ OnceInv /\ SafeInv)
<1>1. Typed /\ OnceInv /\ SafeInv /\ [Next]_vars => (Typed /\ OnceInv /\ SafeInv)'
  BY StepTyped, StepOnce, StepSafe
<1> QED
  BY InitTyped, InitOnce, InitSafe, <1>1, PTL DEF Spec

\* At most one message of a node is TRANSMITTING in the committed journal, crashes included.
THEOREM AtMostOneInTheAir == ASSUME UniqueKeys PROVE Spec => []OneInTheAir
<1>1. ASSUME Typed, OnceInv, SafeInv PROVE OneInTheAir
  <2>1. \A m \in Msgs : RowIn(disk, m, {"TRANSMITTING"}) <=> Says(disk, m) \in {"TRANSMITTING"}
    BY <1>1, RowInSays DEF Statuses, Typed, TypeOK, OnceInv, CallsInv, RowsKeyed
  <2> QED
    BY <1>1, <2>1 DEF OneInTheAir, SafeInv, OneAir
<1> QED
  BY <1>1, PipelineInvariant, PTL

\* While a worker is at the radio, or waits to try again, its message is TRANSMITTING on the disk.
THEOREM PersistedBeforeSent == ASSUME UniqueKeys PROVE Spec => []PersistBeforeAct
<1>1. ASSUME Typed, OnceInv, SafeInv PROVE PersistBeforeAct
  <2> SUFFICES ASSUME NEW n \in Nodes, worker[n] \in {"sending", "backoff"}
               PROVE  RowIn(disk, held[n], {"TRANSMITTING"})
    BY DEF PersistBeforeAct
  <2>1. held[n] \in Msgs /\ Stage(held[n]) \in {"sending", "backoff"}
    BY <1>1, StageHeld DEF OnceInv, PlaceInv
  <2>2. Says(disk, held[n]) = "TRANSMITTING"
    BY <1>1, <2>1 DEF SafeInv, MsgInv, Rows, MaySay
  <2>3. \A m \in Msgs : RowIn(disk, m, {"TRANSMITTING"}) <=> Says(disk, m) \in {"TRANSMITTING"}
    BY <1>1, RowInSays DEF Statuses, Typed, TypeOK, OnceInv, CallsInv, RowsKeyed
  <2> QED
    BY <2>1, <2>2, <2>3
<1> QED
  BY <1>1, PipelineInvariant, PTL

\* A message that was copied to another chat is SENT on the disk, or its row is gone.
THEOREM CopiedOnlyIfCommitted == ASSUME UniqueKeys PROVE Spec => []MirrorAfterCommit
<1>1. ASSUME Typed, OnceInv, SafeInv PROVE MirrorAfterCommit
  <2>1. \A m \in Msgs : /\ RowIn(disk, m, {"SENT"}) <=> Says(disk, m) \in {"SENT"}
                        /\ RowIn(disk, m, Statuses) <=> Says(disk, m) \in Statuses
    BY <1>1, RowInSays DEF Statuses, Typed, TypeOK, OnceInv, CallsInv, RowsKeyed
  <2>2. \A m \in Msgs : mirrored[m] # {} => Says(disk, m) \in {"none", "SENT"}
    BY <1>1 DEF SafeInv, MsgInv, Copied
  <2>3. "none" \notin Statuses
    BY DEF Statuses
  <2> QED
    BY <2>1, <2>2, <2>3 DEF MirrorAfterCommit
<1> QED
  BY <1>1, PipelineInvariant, PTL

\* What the sender was told is accepted still has its row on the disk.
THEOREM AcceptedIsBacked == ASSUME UniqueKeys PROVE Spec => []PendingIsBacked
<1>1. ASSUME Typed, OnceInv, SafeInv PROVE PendingIsBacked
  <2>1. \A m \in Msgs : RowIn(disk, m, Statuses) <=> Says(disk, m) \in Statuses
    BY <1>1, RowInSays DEF Typed, TypeOK, OnceInv, CallsInv, RowsKeyed
  <2>2. \A m \in Msgs : Says(disk, m) \in Statuses \cup {"none"}
    BY <1>1, SaysType DEF Typed, TypeOK
  <2>3. \A m \in Msgs : shown[m] \in {"PENDING", "TRANSMITTING"} => Says(disk, m) # "none"
    BY <1>1 DEF SafeInv, MsgInv, Told, ToldRow
  <2> QED
    BY <2>1, <2>2, <2>3 DEF PendingIsBacked
<1> QED
  BY <1>1, PipelineInvariant, PTL

\* No status the sender sees goes backwards, whatever the interleaving and the crashes.
THEOREM StatusesGoForward == ASSUME UniqueKeys PROVE Spec => StatusForward
<1>1. Typed /\ Typed' /\ OnceInv /\ SafeInv /\ [Next]_vars => Forward
  BY StepSafe
<1>2. Forward => [\A m \in Msgs : shown'[m] # shown[m] => shown'[m] \in Successors(shown[m])]_vars
  BY DEF Forward
<1> QED
  BY <1>1, <1>2, PipelineInvariant, PTL DEF Spec, StatusForward
---------------------------------------------------------------------------
(* The order of admission: the queues are sorted by it, the rows carry it. *)

\* What is known of the order stays true when a message is admitted after the others.
OrderKept ==
    /\ \A m, o : Earlier(admitted, m, o) => Earlier(admitted', m, o)
    /\ \A m : IsAdmitted(admitted, m) => IsAdmitted(admitted', m)
    /\ \A m : \A id : Numbered(admitted, m, id) => Numbered(admitted', m, id)

LEMMA SameOrder == ASSUME UNCHANGED admitted PROVE OrderKept
BY DEF OrderKept, Earlier, IsAdmitted, Numbered

LEMMA NewlyAdmitted ==
    ASSUME admitted \in Seq(Msgs), NEW m \in Msgs, admitted' = Append(admitted, m),
           NEW id, id = Len(admitted)
    PROVE  /\ OrderKept /\ IsAdmitted(admitted', m) /\ Numbered(admitted', m, id)
           /\ \A o : IsAdmitted(admitted, o) => Earlier(admitted', o, m)
<1>1. /\ DOMAIN admitted = 1..Len(admitted) /\ Len(admitted) \in Nat
      /\ DOMAIN admitted' = 1..(Len(admitted) + 1) /\ admitted'[Len(admitted) + 1] = m
      /\ \A i \in DOMAIN admitted : admitted'[i] = admitted[i]
  OBVIOUS
<1>2. \A i \in DOMAIN admitted : i \in DOMAIN admitted' /\ i < Len(admitted) + 1
  BY <1>1
<1>3. Len(admitted) + 1 \in DOMAIN admitted'
  BY <1>1
<1>4. OrderKept
  BY <1>1, <1>2 DEF OrderKept, Earlier, IsAdmitted, Numbered
<1>5. IsAdmitted(admitted', m) /\ Numbered(admitted', m, id)
  BY <1>1, <1>3 DEF IsAdmitted, Numbered
<1>6. ASSUME NEW o, IsAdmitted(admitted, o) PROVE Earlier(admitted', o, m)
  BY <1>1, <1>2, <1>3, <1>6 DEF IsAdmitted, Earlier
<1> QED
  BY <1>4, <1>5, <1>6

\* Two messages that were admitted are in the order of their numbers.
LEMMA NumbersOrder ==
    ASSUME NEW a \in Row, NEW b \in Row, Numbered(admitted, a.msg, a.rowid), Numbered(admitted, b.msg, b.rowid),
           a.rowid <= b.rowid, a.msg # b.msg
    PROVE  Earlier(admitted, a.msg, b.msg)
<1>1. a.rowid \in Nat /\ b.rowid \in Nat /\ a.rowid # b.rowid
  BY DEF Row, Numbered
<1>2. a.rowid + 1 < b.rowid + 1
  BY <1>1
<1> QED
  BY <1>2 DEF Earlier, Numbered

LEMMA NumberedIsAdmitted == \A m : \A id : Numbered(admitted, m, id) => IsAdmitted(admitted, m)
BY DEF Numbered, IsAdmitted

LEMMA NumberedExecute ==
    ASSUME NEW table \in Table, NEW r \in Request, r.op # "commit", NumberedRows(admitted, table),
           r.op = "insert" => Numbered(admitted, r.msg, r.rowid)
    PROVE  NumberedRows(admitted, Execute(table, r))
<1>1. /\ Key(r.msg) \in Keys
      /\ \A k \in Keys : k # Key(r.msg) => Execute(table, r)[k] = table[k]
      /\ r.op = "delete" => Execute(table, r)[Key(r.msg)] = NoRow
      /\ r.op \in {"insert", "set", "delete"}
  BY ExecuteEffect
<1>2. CASE r.op = "insert"
  <2>1. Execute(table, r)[Key(r.msg)] = [msg |-> r.msg, st |-> "PENDING", rowid |-> r.rowid]
    BY <1>1, <1>2 DEF Execute, Table
  <2> QED
    BY <1>1, <1>2, <2>1 DEF NumberedRows
<1>3. CASE r.op = "set" /\ table[Key(r.msg)] = NoRow
  BY <1>3 DEF Execute
<1>4. CASE r.op = "set" /\ table[Key(r.msg)] # NoRow
  <2>1. Execute(table, r)[Key(r.msg)] = [table[Key(r.msg)] EXCEPT !.st = r.st] /\ table[Key(r.msg)] \in Row
    BY <1>1, <1>4 DEF Execute, Table
  <2>2. /\ Execute(table, r)[Key(r.msg)].msg = table[Key(r.msg)].msg
        /\ Execute(table, r)[Key(r.msg)].rowid = table[Key(r.msg)].rowid
    BY <2>1 DEF Row
  <2> QED
    BY <1>1, <1>4, <2>2 DEF NumberedRows
<1>5. CASE r.op = "delete"
  BY <1>1, <1>5 DEF NumberedRows
<1> QED
  BY <1>1, <1>2, <1>3, <1>4, <1>5
\* A step that leaves the queues alone; a worker may be done with its message or go on with it.
LEMMA SortedQuiet ==
    ASSUME LinesSorted, OrderKept, UNCHANGED queue, orphans' \subseteq orphans,
           \A n \in Nodes : worker'[n] \in {"marking", "expiring"} =>
               worker[n] \in {"marking", "expiring"} /\ held'[n] = held[n]
    PROVE  LinesSorted'
<1>1. \A n \in Nodes : \A i \in DOMAIN queue[n] : IsAdmitted(admitted, queue[n][i])
  BY DEF LinesSorted
<1> QED
  BY DEF LinesSorted, OrderKept

\* The rows, when no INSERT is made and no statement runs.
LEMMA RowsQuiet ==
    ASSUME RowsNumbered, UNCHANGED <<admitted, requests, db, disk>>, orphans' \subseteq orphans
    PROVE  RowsNumbered'
BY DEF RowsNumbered, NumberedRows, Numbered

LEMMA AdmittedQuiet ==
    ASSUME AdmittedOnce, UNCHANGED admitted, arrived \subseteq arrived'
    PROVE  AdmittedOnce'
BY DEF AdmittedOnce

\* A worker or recover() submits a statement.
LEMMA RowsSubmit ==
    ASSUME TypeOK, RowsNumbered, UNCHANGED <<admitted, db, disk, orphans>>,
           NEW e \in Request, e.op # "insert", requests' = Append(requests, e)
    PROVE  RowsNumbered'
<1>1. Added(requests, e, requests', Len(requests) + 1)
  BY AppendMembers DEF TypeOK
<1>2. \A i \in DOMAIN requests' : requests'[i].op = "insert" => i \in DOMAIN requests /\ requests'[i] = requests[i]
  BY <1>1 DEF Added
<1> QED
  BY <1>2 DEF RowsNumbered, NumberedRows, Numbered

LEMMA OrderQuiet ==
    ASSUME OrderInv, UNCHANGED <<admitted, queue, requests, db, disk>>, arrived \subseteq arrived',
           orphans' \subseteq orphans,
           \A n \in Nodes : worker'[n] \in {"marking", "expiring"} =>
               worker[n] \in {"marking", "expiring"} /\ held'[n] = held[n]
    PROVE  OrderInv'
BY SameOrder, AdmittedQuiet, RowsQuiet, SortedQuiet DEF OrderInv

LEMMA OrderSubmit ==
    ASSUME TypeOK, OrderInv, UNCHANGED <<admitted, arrived, queue, db, disk, orphans>>,
           NEW op \in {"set", "delete"}, NEW by \in {"egress", "recover"}, NEW m \in Msgs, NEW st \in Statuses,
           Submit(op, by, m, st, 0),
           \A n \in Nodes : worker'[n] \in {"marking", "expiring"} =>
               worker[n] \in {"marking", "expiring"} /\ held'[n] = held[n]
    PROVE  OrderInv'
<1> DEFINE e == [op |-> op, by |-> by, msg |-> m, st |-> st, rowid |-> 0]
<1>1. e \in Request /\ e.op # "insert" /\ requests' = Append(requests, e)
  BY DEF Submit, Request
<1> HIDE DEF e
<1>2. RowsNumbered'
  BY <1>1, RowsSubmit DEF OrderInv
<1> QED
  BY <1>2, SameOrder, AdmittedQuiet, SortedQuiet DEF OrderInv

LEMMA OrderRun == ASSUME TypeOK, OrderInv, RunStatement PROVE OrderInv'
<1>1. /\ requests # <<>> /\ requests \in Seq(Request) /\ Head(requests).op # "commit"
      /\ requests' = Tail(requests) /\ db' = Execute(db, Head(requests))
      /\ UNCHANGED <<disk, admitted, arrived, queue, orphans, worker, held>>
  BY DEF RunStatement, TypeOK, processVars, intakeVars, queueVars, workerVars
<1>2. Dropped(requests, requests')
  BY <1>1, TailMembers
<1>3. /\ Head(requests) = requests[1] /\ 1 \in DOMAIN requests /\ Head(requests) \in Request
      /\ \A i \in DOMAIN requests' : i + 1 \in DOMAIN requests /\ requests'[i] = requests[i + 1]
  BY <1>2 DEF Dropped
<1>4. NumberedRows(admitted, Execute(db, Head(requests)))
  BY <1>1, <1>3, NumberedExecute DEF OrderInv, RowsNumbered, TypeOK
<1>5. RowsNumbered'
  BY <1>1, <1>3, <1>4 DEF OrderInv, RowsNumbered, NumberedRows, Numbered
<1> QED
  BY <1>1, <1>5, SameOrder, AdmittedQuiet, SortedQuiet DEF OrderInv

LEMMA OrderCommit == ASSUME TypeOK, OrderInv, RunCommit PROVE OrderInv'
<1>1. /\ requests # <<>> /\ requests \in Seq(Request)
      /\ requests' = Tail(requests) /\ disk' = db
      /\ UNCHANGED <<db, admitted, arrived, queue, orphans, worker, held>>
  BY DEF RunCommit, TypeOK, processVars, intakeVars, queueVars, workerVars
<1>2. Dropped(requests, requests')
  BY <1>1, TailMembers
<1>3. \A i \in DOMAIN requests' : i + 1 \in DOMAIN requests /\ requests'[i] = requests[i + 1]
  BY <1>2 DEF Dropped
<1>4. RowsNumbered'
  BY <1>1, <1>3 DEF OrderInv, RowsNumbered, NumberedRows, Numbered
<1> QED
  BY <1>1, <1>4, SameOrder, AdmittedQuiet, SortedQuiet DEF OrderInv

LEMMA OrderResume == ASSUME TypeOK, OrderInv, ResumeStatement PROVE OrderInv'
<1>1. /\ replies # <<>> /\ replies \in Seq(Request)
      /\ requests' = Append(requests, [Head(replies) EXCEPT !.op = "commit"])
      /\ UNCHANGED <<db, disk, admitted, arrived, queue, orphans, worker, held>>
  BY DEF ResumeStatement, TypeOK, processVars, intakeVars, queueVars, workerVars
<1> DEFINE e == [Head(replies) EXCEPT !.op = "commit"]
<1>2. Head(replies) \in Request
  BY <1>1
<1>3. e \in Request /\ e.op # "insert"
  BY <1>2 DEF Request
<1> HIDE DEF e
<1>4. requests' = Append(requests, e)
  BY <1>1 DEF e
<1>5. RowsNumbered'
  BY <1>1, <1>3, <1>4, RowsSubmit DEF OrderInv
<1> QED
  BY <1>1, <1>5, SameOrder, AdmittedQuiet, SortedQuiet DEF OrderInv
\* The worker takes the head of its queue, which is ahead of all that is left in it.
LEMMA SortedTake ==
    ASSUME Typed, LinesSorted, NEW n \in Nodes, NEW m \in Msgs, NEW w \in WorkerStates, Take(n, m),
           worker' = [worker EXCEPT ![n] = w], UNCHANGED <<admitted, orphans>>
    PROVE  LinesSorted'
<1>1. /\ queue[n] # <<>> /\ m = Head(queue[n]) /\ queue \in [Nodes -> Seq(Msgs)]
      /\ queue' = [queue EXCEPT ![n] = Tail(@)] /\ held' = [held EXCEPT ![n] = m]
      /\ worker \in [Nodes -> WorkerStates] /\ held \in [Nodes -> Msgs \cup {NoMsg}]
  BY DEF Take, Typed, TypeOK
<1>2. queue'[n] = Tail(queue[n]) /\ held'[n] = m
  BY <1>1
<1>3. \A p \in Nodes : p # n => queue'[p] = queue[p] /\ held'[p] = held[p] /\ worker'[p] = worker[p]
  BY <1>1
<1>4. /\ 1 \in DOMAIN queue[n] /\ m = queue[n][1]
      /\ \A i \in DOMAIN queue'[n] : i + 1 \in DOMAIN queue[n] /\ queue'[n][i] = queue[n][i + 1] /\ 1 < i + 1
      /\ \A i, j \in DOMAIN queue'[n] : i < j => i + 1 < j + 1
  <2>1. queue[n] \in Seq(Msgs)
    BY <1>1
  <2>2. /\ 1 \in DOMAIN queue[n] /\ Head(queue[n]) = queue[n][1]
        /\ \A i \in DOMAIN Tail(queue[n]) : /\ i + 1 \in DOMAIN queue[n] /\ i \in Nat /\ i >= 1
                                            /\ Tail(queue[n])[i] = queue[n][i + 1]
    BY <1>1, <2>1, TailOf
  <2>3. \A i \in DOMAIN queue'[n] : /\ i + 1 \in DOMAIN queue[n] /\ i \in Nat /\ i >= 1
                                    /\ queue'[n][i] = queue[n][i + 1]
    BY <1>2, <2>2
  <2> QED
    BY <1>1, <2>2, <2>3
<1>5. OrderKept
  BY SameOrder
<1>6. /\ IsAdmitted(admitted, queue[n][1]) /\ \A i \in DOMAIN queue[n] : IsAdmitted(admitted, queue[n][i])
      /\ \A i, j \in DOMAIN queue[n] : i < j => Earlier(admitted, queue[n][i], queue[n][j])
  BY <1>4 DEF LinesSorted
<1>7. /\ \A i \in DOMAIN queue'[n] : IsAdmitted(admitted', queue'[n][i]) /\ Earlier(admitted', m, queue'[n][i])
      /\ \A i, j \in DOMAIN queue'[n] : i < j => Earlier(admitted', queue'[n][i], queue'[n][j])
      /\ IsAdmitted(admitted', m)
  BY <1>4, <1>5, <1>6 DEF OrderKept
<1>8. \A p \in Nodes : /\ \A i \in DOMAIN queue'[p] : IsAdmitted(admitted', queue'[p][i])
                       /\ \A i, j \in DOMAIN queue'[p] : i < j => Earlier(admitted', queue'[p][i], queue'[p][j])
  BY <1>3, <1>5, <1>7 DEF LinesSorted, OrderKept
<1>9. \A p \in Nodes : worker'[p] \in {"marking", "expiring"} =>
          IsAdmitted(admitted', held'[p]) /\ \A i \in DOMAIN queue'[p] : Earlier(admitted', held'[p], queue'[p][i])
  BY <1>2, <1>3, <1>5, <1>7 DEF LinesSorted, OrderKept
<1>10. \A r \in orphans, p \in Nodes : \A i \in DOMAIN queue'[p] : Earlier(admitted', queue'[p][i], r.msg)
  BY <1>3, <1>4, <1>5 DEF LinesSorted, OrderKept
<1> QED
  BY <1>8, <1>9, <1>10 DEF LinesSorted

\* A message that comes after all that is in its queue, and after all that its worker has, is put
\* at the end.
LEMMA SortedPut ==
    ASSUME Typed, LinesSorted, NEW n \in Nodes, NEW m \in Msgs, OrderKept, IsAdmitted(admitted', m),
           queue' = [queue EXCEPT ![n] = Append(@, m)], UNCHANGED <<worker, held>>,
           orphans' \subseteq orphans, \A r \in orphans' : Earlier(admitted', m, r.msg),
           \A i \in DOMAIN queue[n] : Earlier(admitted', queue[n][i], m),
           worker[n] \in {"marking", "expiring"} => Earlier(admitted', held[n], m)
    PROVE  LinesSorted'
<1>1. queue[n] \in Seq(Msgs) /\ queue \in [Nodes -> Seq(Msgs)]
  BY DEF Typed, TypeOK
<1>2. queue'[n] = Append(queue[n], m) /\ \A p \in Nodes : p # n => queue'[p] = queue[p]
  BY <1>1
<1> DEFINE s == queue[n]
<1>3. PICK last : /\ last \notin DOMAIN s
                  /\ \A i \in DOMAIN Append(s, m) : i = last \/ i \in DOMAIN s
                  /\ \A i \in DOMAIN s : Append(s, m)[i] = s[i] /\ ~(last < i)
                  /\ Append(s, m)[last] = m /\ ~(last < last)
  <2>1. s \in Seq(Msgs)
    BY <1>1
  <2> HIDE DEF s
  <2>2. /\ Len(s) + 1 \notin DOMAIN s
        /\ \A i \in DOMAIN Append(s, m) : i = Len(s) + 1 \/ i \in DOMAIN s
        /\ \A i \in DOMAIN s : Append(s, m)[i] = s[i] /\ ~(Len(s) + 1 < i)
        /\ Append(s, m)[Len(s) + 1] = m /\ ~(Len(s) + 1 < Len(s) + 1)
    BY <2>1
  <2> QED
    BY <2>2
<1>4. /\ \A i \in DOMAIN queue'[n] : i = last \/ i \in DOMAIN queue[n]
      /\ \A i \in DOMAIN queue[n] : queue'[n][i] = queue[n][i] /\ ~(last < i)
      /\ queue'[n][last] = m /\ ~(last < last)
  BY <1>2, <1>3
<1>5. \A i \in DOMAIN queue'[n] : IsAdmitted(admitted', queue'[n][i])
  BY <1>4 DEF LinesSorted, OrderKept
<1>6. \A i, j \in DOMAIN queue'[n] : i < j => Earlier(admitted', queue'[n][i], queue'[n][j])
  BY <1>4 DEF LinesSorted, OrderKept
<1>7. \A p \in Nodes : /\ \A i \in DOMAIN queue'[p] : IsAdmitted(admitted', queue'[p][i])
                       /\ \A i, j \in DOMAIN queue'[p] : i < j => Earlier(admitted', queue'[p][i], queue'[p][j])
  BY <1>2, <1>5, <1>6 DEF LinesSorted, OrderKept
<1>8. \A p \in Nodes : worker[p] \in {"marking", "expiring"} =>
          IsAdmitted(admitted', held[p]) /\ \A i \in DOMAIN queue'[p] : Earlier(admitted', held[p], queue'[p][i])
  BY <1>2, <1>4 DEF LinesSorted, OrderKept
<1>9. \A r \in orphans', p \in Nodes : \A i \in DOMAIN queue'[p] : Earlier(admitted', queue'[p][i], r.msg)
  BY <1>2, <1>4 DEF LinesSorted, OrderKept
<1> QED
  BY <1>7, <1>8, <1>9 DEF LinesSorted

LEMMA OrderTake ==
    ASSUME Typed, OrderInv, NEW n \in Nodes, TakeStale(n) \/ TakeFresh(n)
    PROVE  OrderInv'
<1>1. PICK m \in Msgs, st \in {"REJECTED", "TRANSMITTING"}, w \in {"expiring", "marking"} :
        /\ Take(n, m) /\ Submit("set", "egress", m, st, 0)
        /\ worker' = [worker EXCEPT ![n] = w]
        /\ UNCHANGED <<orphans, arrived, admitted, db, disk>>
  BY DEF TakeStale, TakeFresh, Typed, TypeOK, processVars, intakeVars
<1> DEFINE e == [op |-> "set", by |-> "egress", msg |-> m, st |-> st, rowid |-> 0]
<1>2. e \in Request /\ e.op # "insert" /\ requests' = Append(requests, e)
  BY <1>1 DEF Submit, Request, Statuses
<1> HIDE DEF e
<1>3. RowsNumbered'
  BY <1>1, <1>2, RowsSubmit DEF OrderInv, Typed
<1>4. LinesSorted'
  <2>1. w \in WorkerStates
    BY DEF WorkerStates
  <2> QED
    BY <1>1, <2>1, SortedTake DEF OrderInv
<1> QED
  BY <1>1, <1>3, <1>4, AdmittedQuiet DEF OrderInv

LEMMA OrderEnqueue ==
    ASSUME Typed, PlaceInv, OrderInv, NEW m \in Msgs, Enqueue(m)
    PROVE  OrderInv'
<1>1. /\ phase = "up" /\ m \notin arrived /\ arrived' = arrived \cup {m}
      /\ queue' = [queue EXCEPT ![Target[m]] = Append(@, m)]
      /\ admitted' = Append(admitted, m) /\ admitted \in Seq(Msgs) /\ Len(admitted) \in Nat
      /\ Submit("insert", "consume", m, "PENDING", Len(admitted))
      /\ UNCHANGED <<orphans, worker, held, db, disk>>
  BY DEF Enqueue, Arrives, Typed, TypeOK, processVars, workerVars
<1>2. orphans = {}
  BY <1>1 DEF PlaceInv, Phases
<1> SUFFICES ASSUME NEW id \in Nat, id = Len(admitted) PROVE OrderInv'
  BY <1>1
<1>3. /\ OrderKept /\ IsAdmitted(admitted', m) /\ Numbered(admitted', m, id)
      /\ \A o : IsAdmitted(admitted, o) => Earlier(admitted', o, m)
  BY <1>1, NewlyAdmitted
<1>4. AdmittedOnce'
  <2>1. /\ DOMAIN admitted = 1..Len(admitted)
        /\ DOMAIN admitted' = 1..(Len(admitted) + 1) /\ admitted'[Len(admitted) + 1] = m
        /\ \A i \in DOMAIN admitted : admitted'[i] = admitted[i]
    BY <1>1
  <2> QED
    BY <1>1, <2>1 DEF OrderInv, AdmittedOnce
<1>5. RowsNumbered'
  <2> DEFINE e == [op |-> "insert", by |-> "consume", msg |-> m, st |-> "PENDING", rowid |-> id]
  <2>1. e \in Request /\ e.msg = m /\ e.rowid = id /\ requests' = Append(requests, e)
    BY <1>1 DEF Submit, Request, Statuses
  <2> HIDE DEF e
  <2>2. Added(requests, e, requests', Len(requests) + 1)
    BY <2>1, AppendMembers DEF Typed, TypeOK
  <2>3. \A i \in DOMAIN requests' : requests'[i] = e \/ (i \in DOMAIN requests /\ requests'[i] = requests[i])
    BY <2>2 DEF Added
  <2>4. \A i \in DOMAIN requests' : requests'[i].op = "insert" => Numbered(admitted', requests'[i].msg, requests'[i].rowid)
    BY <1>3, <2>1, <2>3 DEF OrderInv, RowsNumbered, OrderKept
  <2>5. NumberedRows(admitted', db) /\ NumberedRows(admitted', disk)
    BY <1>1, <1>3 DEF OrderInv, RowsNumbered, OrderKept, NumberedRows
  <2> QED
    BY <1>1, <1>2, <2>4, <2>5 DEF RowsNumbered
<1>6. LinesSorted'
  <2>1. Target[m] \in Nodes
    BY PipelineAssumption
  <2>2. /\ \A i \in DOMAIN queue[Target[m]] : Earlier(admitted', queue[Target[m]][i], m)
        /\ worker[Target[m]] \in {"marking", "expiring"} => Earlier(admitted', held[Target[m]], m)
    BY <1>3, <2>1 DEF OrderInv, LinesSorted
  <2> QED
    BY <1>1, <1>2, <1>3, <2>1, <2>2, SortedPut DEF OrderInv
<1> QED
  BY <1>4, <1>5, <1>6 DEF OrderInv

LEMMA OrderRecoverRow ==
    ASSUME Typed, PlaceInv, OrderInv, NEW r \in orphans, RecoverPending(r)
    PROVE  OrderInv'
<1>1. /\ phase = "recovering" /\ orphans' = orphans \ {r} /\ \A q \in orphans : r.rowid <= q.rowid
      /\ queue' = queue \/ queue' = [queue EXCEPT ![Target[r.msg]] = Append(@, r.msg)]
      /\ UNCHANGED <<admitted, arrived, worker, held, requests, db, disk>>
  BY DEF RecoverPending, NextOrphan, intakeVars, workerVars, journalVars
<1>2. r.msg \in Msgs /\ Target[r.msg] \in Nodes /\ orphans \subseteq Row
  BY PipelineAssumption DEF Typed, TypeOK, Row
<1>3. CASE queue' = queue
  BY <1>1, <1>3, OrderQuiet
<1>4. CASE queue' = [queue EXCEPT ![Target[r.msg]] = Append(@, r.msg)]
  <2>1. OrderKept
    BY <1>1, SameOrder
  <2>2. IsAdmitted(admitted, r.msg) /\ \A q \in orphans : Numbered(admitted, q.msg, q.rowid)
    BY NumberedIsAdmitted DEF OrderInv, RowsNumbered
  <2>3. \A q \in orphans' : Earlier(admitted, r.msg, q.msg)
    BY <1>1, <1>2, <2>2, NumbersOrder DEF PlaceInv, OrphansApart
  <2>4. worker[Target[r.msg]] = "idle"
    BY <1>1, <1>2 DEF PlaceInv, Phases
  <2>5. \A i \in DOMAIN queue[Target[r.msg]] : Earlier(admitted, queue[Target[r.msg]][i], r.msg)
    BY <1>2 DEF OrderInv, LinesSorted
  <2>6. LinesSorted'
    <3> SUFFICES ASSUME NEW m, m = r.msg PROVE LinesSorted'
      OBVIOUS
    <3>1. \A q \in orphans' : Earlier(admitted', m, q.msg)
      BY <2>1, <2>3 DEF OrderKept
    <3>2. \A i \in DOMAIN queue[Target[m]] : Earlier(admitted', queue[Target[m]][i], m)
      BY <2>1, <2>5 DEF OrderKept
    <3>3. IsAdmitted(admitted', m)
      BY <2>1, <2>2 DEF OrderKept
    <3> QED
      BY <1>1, <1>2, <1>4, <2>1, <2>4, <3>1, <3>2, <3>3, SortedPut DEF OrderInv
  <2> QED
    BY <1>1, <2>6, AdmittedQuiet, RowsQuiet DEF OrderInv
<1> QED
  BY <1>1, <1>3, <1>4
\* The process dies, and the next one reads its rows; neither makes a new one.
LEMMA OrderRestart == ASSUME Typed, PlaceInv, OrderInv, Crash \/ Start PROVE OrderInv'
<1>1. CASE Crash
  <2>1. /\ queue' = [n \in Nodes |-> <<>>] /\ worker' = [n \in Nodes |-> "idle"]
        /\ orphans' = {} /\ requests' = <<>> /\ db' = disk /\ UNCHANGED <<disk, arrived, admitted>>
    BY <1>1 DEF Crash
  <2>2. \A n \in Nodes : DOMAIN queue'[n] = {} /\ worker'[n] = "idle"
    BY <2>1
  <2>3. DOMAIN requests' = {}
    BY <2>1
  <2>4. LinesSorted'
    BY <2>1, <2>2 DEF LinesSorted
  <2>5. RowsNumbered'
    BY <2>1, <2>3 DEF OrderInv, RowsNumbered, NumberedRows
  <2> QED
    BY <2>1, <2>4, <2>5, AdmittedQuiet DEF OrderInv
<1>2. CASE Start
  <2>1. /\ phase = "down" /\ UNCHANGED <<queue, worker, held, requests, db, disk, arrived, admitted>>
        /\ \A r \in orphans' : \E k \in Keys : disk[k] # NoRow /\ r = disk[k]
    BY <1>2 DEF Start, intakeVars, queueVars, workerVars, journalVars
  <2>2. \A n \in Nodes : DOMAIN queue[n] = {} /\ worker[n] = "idle"
    BY <2>1 DEF PlaceInv, Phases
  <2>3. LinesSorted'
    BY <2>1, <2>2 DEF LinesSorted
  <2>4. RowsNumbered'
    BY <2>1 DEF OrderInv, RowsNumbered, NumberedRows
  <2> QED
    BY <2>1, <2>3, <2>4, AdmittedQuiet DEF OrderInv
<1> QED
  BY <1>1, <1>2

LEMMA InitOrder == Init => OrderInv
<1> SUFFICES ASSUME Init PROVE OrderInv
  OBVIOUS
<1>1. /\ admitted = <<>> /\ requests = <<>> /\ orphans = {} /\ db = EmptyTable /\ disk = EmptyTable
      /\ \A n \in Nodes : queue[n] = <<>> /\ worker[n] = "idle"
  BY DEF Init
<1> QED
  BY <1>1 DEF OrderInv, AdmittedOnce, RowsNumbered, NumberedRows, LinesSorted, EmptyTable

LEMMA StepOrder == ASSUME Typed, PlaceInv, OrderInv, [Next]_vars PROVE OrderInv'
<1> USE DEF processVars, intakeVars, queueVars, workerVars, journalVars, historyVars
<1>1. ASSUME Journal PROVE OrderInv'
  BY <1>1, OrderRun, OrderCommit, OrderResume DEF Journal, Typed
<1>2. ASSUME NEW m \in Msgs, Refuse(m) \/ Overload(m) \/ Expire(m) PROVE OrderInv'
  BY <1>2, OrderQuiet DEF Refuse, Overload, Expire, Arrives
<1>3. ASSUME NEW m \in Msgs, PendingRecorded(m) PROVE OrderInv'
  BY <1>3, OrderQuiet DEF PendingRecorded, Returned
<1>4. ASSUME NEW n \in Nodes, SendOk(n) \/ SendFailed(n) \/ Prune(n) PROVE OrderInv'
  <2>1. PICK op \in {"set", "delete"}, st \in {"SENT", "FAILED"} :
          /\ Submit(op, "egress", held[n], st, 0) /\ worker[n] # "idle"
          /\ UNCHANGED <<admitted, arrived, queue, held, db, disk, orphans>>
          /\ \A k \in Nodes : worker'[k] \in {"marking", "expiring"} => worker'[k] = worker[k]
    BY <1>4 DEF SendOk, SendFailed, Prune, Typed, TypeOK
  <2>2. held[n] \in Msgs
    BY <2>1 DEF Typed, WorkerHolds
  <2> QED
    BY <2>1, <2>2, OrderSubmit DEF Statuses, Typed
<1>5. ASSUME NEW n \in Nodes, SendBusy(n) \/ Retry(n) \/ Mirror(n) \/ Refill(n) PROVE OrderInv'
  <2>1. \A k \in Nodes : worker'[k] \in {"marking", "expiring"} => worker'[k] = worker[k]
    BY <1>5 DEF SendBusy, Retry, Mirror, Refill, Typed, TypeOK
  <2> QED
    BY <1>5, <2>1, OrderQuiet DEF SendBusy, Retry, Mirror, Refill
<1>6. ASSUME NEW n \in Nodes, TakeStale(n) \/ TakeFresh(n) PROVE OrderInv'
  BY <1>6, OrderTake
<1>7. ASSUME NEW n \in Nodes,
             ExpiryRecorded(n) \/ TransmittingRecorded(n) \/ FailureRecorded(n) \/ SentRecorded(n) \/ Pruned(n)
      PROVE  OrderInv'
  <2>1. \A k \in Nodes : worker'[k] \in {"marking", "expiring"} => worker'[k] = worker[k] /\ held'[k] = held[k]
    BY <1>7 DEF ExpiryRecorded, TransmittingRecorded, FailureRecorded, SentRecorded, Pruned, Typed, TypeOK
  <2> QED
    BY <1>7, <2>1, OrderQuiet DEF ExpiryRecorded, TransmittingRecorded, FailureRecorded, SentRecorded, Pruned,
       Returned
<1>8. ASSUME NEW m \in Msgs, Enqueue(m) PROVE OrderInv'
  BY <1>8, OrderEnqueue
<1>9. ASSUME Crash \/ Start PROVE OrderInv'
  BY <1>9, OrderRestart
<1>10. ASSUME Open PROVE OrderInv'
  BY <1>10, OrderQuiet DEF Open
<1>11. ASSUME NEW r \in orphans, RecoverTransmitting(r) PROVE OrderInv'
  <2>1. r.msg \in Msgs
    BY DEF Typed, TypeOK, Row
  <2> QED
    BY <1>11, <2>1, OrderSubmit DEF RecoverTransmitting, Statuses, Typed
<1>12. ASSUME NEW r \in orphans, UnknownRecorded(r) \/ RecoverVanished(r) PROVE OrderInv'
  BY <1>12, OrderQuiet DEF UnknownRecorded, RecoverVanished, Returned
<1>13. ASSUME NEW r \in orphans, RecoverPending(r) PROVE OrderInv'
  BY <1>13, OrderRecoverRow
<1>14. ASSUME UNCHANGED vars PROVE OrderInv'
  BY <1>14, OrderQuiet DEF vars
<1> QED
  BY <1>1, <1>2, <1>3, <1>4, <1>5, <1>6, <1>7, <1>8, <1>9, <1>10, <1>11, <1>12, <1>13, <1>14
  DEF Next, Intake, Radio, Worker, Recovery
---------------------------------------------------------------------------
(* The pipeline implements SerialSender.                                   *)

\* What waits, message by message.
Lined(m) ==
    IF phase = "down" THEN Says(disk, m) = "PENDING"
    ELSE Stage(m) \in {"line", "marking"} \/ InRecovery(m, "PENDING")
WaitingIs == Waiting = {m \in Msgs : Lined(m)}

LEMMA WaitingByMessage == ASSUME UniqueKeys, Typed, OnceInv PROVE WaitingIs
<1>1. ASSUME NEW m \in Msgs PROVE m \in PendingOf(orphans) <=> InRecovery(m, "PENDING")
  BY RowAssumption DEF PendingOf, InRecovery, Typed, TypeOK
<1>2. ASSUME NEW m \in Msgs PROVE m \in PendingOf({disk[k] : k \in Keys}) <=> Says(disk, m) = "PENDING"
  <2>1. Keyed(disk) /\ disk \in Table
    BY DEF OnceInv, CallsInv, RowsKeyed, Typed, TypeOK
  <2>2. ASSUME NEW k \in Keys, disk[k] # NoRow, disk[k].msg = m, disk[k].st = "PENDING"
        PROVE  Says(disk, m) = "PENDING"
    BY <2>1, <2>2, SaysRow
  <2>3. ASSUME Says(disk, m) = "PENDING"
        PROVE  \E k \in Keys : disk[k] # NoRow /\ disk[k].msg = m /\ disk[k].st = "PENDING"
    <3>1. Key(m) \in Keys /\ disk[Key(m)] # NoRow /\ disk[Key(m)].st = "PENDING"
      BY <2>3 DEF Says, Keys
    <3>2. disk[Key(m)].msg \in Msgs /\ Key(disk[Key(m)].msg) = Key(m)
      BY <2>1, <3>1, SaysRow
    <3> QED
      BY <3>1, <3>2 DEF UniqueKeys
  <2> QED
    BY <2>2, <2>3 DEF PendingOf
<1>3. ASSUME NEW m \in Msgs
      PROVE  m \in {held[n] : n \in {k \in Nodes : worker[k] = "marking"}} <=> Stage(m) = "marking"
  <2>1. ASSUME NEW n \in Nodes, worker[n] = "marking", m = held[n] PROVE Stage(m) = "marking"
    BY <2>1, StageHeld DEF OnceInv, PlaceInv
  <2>2. ASSUME Stage(m) = "marking" PROVE \E n \in Nodes : worker[n] = "marking" /\ m = held[n]
    BY <2>2, PipelineAssumption DEF Stage
  <2> QED
    BY <2>1, <2>2
<1>4. ASSUME NEW m \in Msgs PROVE InQueue(m) <=> Stage(m) = "line"
  BY StageQueued DEF Stage, OnceInv, PlaceInv
<1>5. \A m \in Msgs : held[Target[m]] = held[Target[m]] /\ (phase # "up" => Stage(m) # "marking")
  BY PipelineAssumption DEF OnceInv, PlaceInv, Phases, Stage
<1>6. phase = "up" => \A m \in Msgs : ~InRecovery(m, "PENDING")
  BY DEF OnceInv, PlaceInv, Phases, InRecovery
<1>7. {held[n] : n \in {k \in Nodes : worker[k] = "marking"}} \subseteq Msgs
  BY DEF Typed, WorkerHolds
<1>8. phase \in {"down", "recovering", "up"}
  BY DEF Typed, TypeOK
<1>9. CASE phase = "down"
  BY <1>2, <1>9 DEF WaitingIs, Waiting, Lined, PendingOf
<1>10. CASE phase = "recovering"
  BY <1>1, <1>4, <1>5, <1>10 DEF WaitingIs, Waiting, Lined, PendingOf
<1>11. CASE phase = "up"
  <2>1. Waiting = {m \in Msgs : InQueue(m)} \cup {held[n] : n \in {k \in Nodes : worker[k] = "marking"}}
    BY <1>11 DEF Waiting
  <2>2. ASSUME NEW m \in Msgs PROVE m \in Waiting <=> Lined(m)
    BY <1>3, <1>4, <1>6, <1>11, <2>1 DEF Lined
  <2> QED
    BY <1>7, <2>1, <2>2 DEF WaitingIs
<1> QED
  BY <1>8, <1>9, <1>10, <1>11

\* Everything that is known of a reachable state, and of what waits in it.
Known == Typed /\ OnceInv /\ SafeInv /\ OrderInv /\ WaitingIs

\* A step that changes neither what waits nor what is in the air.
LEMMA Stutter ==
    ASSUME WaitingIs, WaitingIs', UNCHANGED <<Mode, admitted, begun>>,
           \A m \in Msgs : Lined(m)' <=> Lined(m),
           \A n \in Nodes : OnAir(n)' = OnAir(n)
    PROVE  UNCHANGED Sender!senderVars
<1>1. Waiting' = Waiting
  BY DEF WaitingIs
<1>2. [n \in Nodes |-> OnAir(n)]' = [n \in Nodes |-> OnAir(n)]
  OBVIOUS
<1> QED
  BY <1>1, <1>2 DEF Sender!senderVars

\* What a step does to the workers' air.
LEMMA AirSame ==
    ASSUME UNCHANGED held, \A n \in Nodes : worker'[n] = worker[n] \/
               (worker[n] \in WorkerStates \ {"idle", "marking", "expiring"}
                /\ worker'[n] \in WorkerStates \ {"idle", "marking", "expiring"})
    PROVE  \A n \in Nodes : OnAir(n)' = OnAir(n)
BY DEF OnAir

\* A step that leaves queue, hands and orphans alone while the process runs, and lets no marking begin or end.
LEMMA LinedSame ==
    ASSUME phase # "down", phase' # "down", UNCHANGED orphans,
           \A m \in Msgs : Stage(m)' = Stage(m) \/ {Stage(m), Stage(m)'} \cap {"line", "marking"} = {}
    PROVE  \A m \in Msgs : Lined(m)' <=> Lined(m)
BY DEF Lined, InRecovery
LEMMA ImplQuiet ==
    ASSUME Known, WaitingIs', UNCHANGED <<phase, queue, worker, held, orphans, admitted, begun>>,
           phase = "down" => UNCHANGED disk
    PROVE  UNCHANGED Sender!senderVars
<1>1. \A m \in Msgs : Stage(m)' = Stage(m)
  BY StageSame
<1>2. \A m \in Msgs : Lined(m)' <=> Lined(m)
  BY <1>1 DEF Lined, InRecovery, Says
<1>3. \A n \in Nodes : OnAir(n)' = OnAir(n)
  BY DEF OnAir
<1> QED
  BY <1>2, <1>3, Stutter DEF Known, Mode

\* The worker of node n goes on with the message it has on the air.
Airborne == WorkerStates \ {"idle", "marking", "expiring"}
LEMMA ImplMove ==
    ASSUME Known, WaitingIs', NEW n \in Nodes, NEW w \in Airborne, worker[n] \in Airborne,
           worker' = [worker EXCEPT ![n] = w], UNCHANGED <<phase, queue, held, orphans, admitted, begun>>
    PROVE  UNCHANGED Sender!senderVars
<1> SUFFICES ASSUME NEW m, m = held[n] PROVE UNCHANGED Sender!senderVars
  OBVIOUS
<1>1. worker[n] # "idle" /\ w \in WorkerStates \ {"idle"} /\ w # "marking" /\ w # "line" /\ worker[n] # "line"
  BY DEF Airborne, WorkerStates
<1>2. Stage(m) = worker[n] /\ Stage(m)' = w /\ \A o \in Msgs : o # m => Stage(o)' = Stage(o)
  BY <1>1, StageMove DEF Known, OnceInv, PlaceInv
<1>3. phase = "up"
  BY <1>1 DEF Known, OnceInv, PlaceInv, Phases
<1>4. \A o \in Msgs : Lined(o)' <=> Lined(o)
  BY <1>1, <1>2, <1>3 DEF Lined, InRecovery, Airborne
<1>5. \A p \in Nodes : OnAir(p)' = OnAir(p)
  BY DEF OnAir, Airborne, Known, Typed, TypeOK
<1> QED
  BY <1>4, <1>5, Stutter DEF Known, Mode

\* The worker is done: with a message that was too old, or with one that was on the air.
LEMMA ImplDone ==
    ASSUME Known, WaitingIs', NEW n \in Nodes, worker[n] \in Airborne \cup {"expiring"},
           worker' = [worker EXCEPT ![n] = "idle"], held' = [held EXCEPT ![n] = NoMsg],
           UNCHANGED <<phase, queue, orphans, admitted, begun>>
    PROVE  IF worker[n] = "expiring" THEN UNCHANGED Sender!senderVars ELSE Sender!End(n)
<1> SUFFICES ASSUME NEW m, m = held[n]
             PROVE  IF worker[n] = "expiring" THEN UNCHANGED Sender!senderVars ELSE Sender!End(n)
  OBVIOUS
<1>1. worker[n] # "idle" /\ worker[n] # "marking" /\ worker[n] # "line"
  BY DEF Airborne, WorkerStates
<1>2. m \in Msgs /\ Stage(m) = worker[n] /\ Stage(m)' = "out" /\ \A o \in Msgs : o # m => Stage(o)' = Stage(o)
  BY <1>1, StageRelease DEF Known, OnceInv, PlaceInv
<1>3. phase = "up"
  BY <1>1 DEF Known, OnceInv, PlaceInv, Phases
<1>4. \A o \in Msgs : Lined(o)' <=> Lined(o)
  BY <1>1, <1>2, <1>3 DEF Lined, InRecovery
<1>5. /\ worker'[n] = "idle" /\ \A p \in Nodes : p # n => worker'[p] = worker[p] /\ held'[p] = held[p]
  BY DEF Known, Typed, TypeOK
<1>6. CASE worker[n] = "expiring"
  <2>1. \A p \in Nodes : OnAir(p)' = OnAir(p)
    BY <1>5, <1>6 DEF OnAir
  <2> QED
    BY <1>4, <1>6, <2>1, Stutter DEF Known, Mode
<1>7. CASE worker[n] # "expiring"
  <2>1. OnAir(n) = m /\ m # NoMsg /\ OnAir(n)' = NoMsg /\ \A p \in Nodes : p # n => OnAir(p)' = OnAir(p)
    BY <1>1, <1>2, <1>5, <1>7, PipelineAssumption DEF OnAir
  <2>2. [p \in Nodes |-> OnAir(p)]' = [[p \in Nodes |-> OnAir(p)] EXCEPT ![n] = NoMsg]
    BY <2>1
  <2>3. Waiting' = Waiting
    BY <1>4 DEF Known, WaitingIs
  <2> QED
    BY <1>3, <1>7, <2>1, <2>2, <2>3 DEF Sender!End, Mode
<1> QED
  BY <1>6, <1>7

\* The journal has the intention: the message begins, ahead of all that waits for its node.
LEMMA ImplBegin ==
    ASSUME Known, WaitingIs', NEW n \in Nodes, TransmittingRecorded(n)
    PROVE  Sender!Begin(held[n])
<1> SUFFICES ASSUME NEW m, m = held[n] PROVE Sender!Begin(m)
  OBVIOUS
<1>1. /\ worker[n] = "marking" /\ worker' = [worker EXCEPT ![n] = "sending"] /\ begun' = begun \cup {m}
      /\ UNCHANGED <<phase, queue, held, orphans, admitted>>
  BY DEF TransmittingRecorded, processVars, intakeVars, queueVars
<1>2. /\ m \in Msgs /\ Target[m] = n /\ Stage(m) = "marking" /\ Stage(m)' = "sending"
      /\ \A o \in Msgs : o # m => Stage(o)' = Stage(o)
  <2>1. "sending" \in WorkerStates \ {"idle"}
    BY DEF WorkerStates
  <2>2. Target[m] = n
    BY <1>1, StageHeld DEF Known, OnceInv, PlaceInv
  <2>3. worker[n] # "idle" /\ UNCHANGED <<queue, held>> /\ Typed /\ WaitsOnce
    BY <1>1 DEF Known, OnceInv, PlaceInv
  <2>4. m \in Msgs /\ Stage(m) = worker[n] /\ Stage(m)' = "sending" /\ \A o \in Msgs : o # m => Stage(o)' = Stage(o)
    BY <1>1, <2>1, <2>3, StageMove
  <2> QED
    BY <2>2, <2>3, <2>4, <1>1
<1>3. phase = "up" /\ orphans = {}
  BY <1>1 DEF Known, OnceInv, PlaceInv, Phases
<1>4. m \notin begun
  BY <1>2 DEF Known, SafeInv, MsgInv, Copied, Early
<1>5. m \in Waiting /\ Waiting' = Waiting \ {m}
  <2>1. \A o \in Msgs : Lined(o)' <=> Lined(o) /\ o # m
    BY <1>1, <1>2, <1>3 DEF Lined, InRecovery
  <2>2. Lined(m)
    BY <1>2, <1>3 DEF Lined
  <2> QED
    BY <1>2, <2>1, <2>2 DEF Known, WaitingIs
<1>6. ASSUME NEW o \in Waiting \ {m}, Target[o] = n PROVE Earlier(admitted, m, o)
  <2>1. o \in Msgs /\ Stage(o) \in {"line", "marking"}
    BY <1>3, <1>6 DEF Known, WaitingIs, Lined, InRecovery
  <2>2. Stage(o) = "line"
    BY <1>6, <2>1 DEF Stage
  <2>3. \E i \in DOMAIN queue[n] : queue[n][i] = o
    BY <1>6, <2>1, <2>2, StageQueued DEF Known, OnceInv, PlaceInv
  <2> QED
    BY <1>1, <2>3 DEF Known, OrderInv, LinesSorted
<1>7. OnAir(n) = NoMsg /\ OnAir(n)' = m /\ \A p \in Nodes : p # n => OnAir(p)' = OnAir(p)
  <2>1. worker'[n] = "sending" /\ \A p \in Nodes : p # n => worker'[p] = worker[p]
    BY <1>1 DEF Known, Typed, TypeOK
  <2> QED
    BY <1>1, <2>1 DEF OnAir
<1>8. [p \in Nodes |-> OnAir(p)]' = [[p \in Nodes |-> OnAir(p)] EXCEPT ![n] = m]
  BY <1>7
<1> QED
  BY <1>1, <1>2, <1>3, <1>4, <1>5, <1>6, <1>7, <1>8 DEF Sender!Begin, Sender!Before, Earlier, Mode
\* A new message: accepted once, after the others, and it waits.
LEMMA ImplAccept ==
    ASSUME Known, WaitingIs', NEW m \in Msgs, Enqueue(m)
    PROVE  Sender!Accept(m)
<1>1. /\ phase = "up" /\ m \notin arrived /\ admitted' = Append(admitted, m)
      /\ queue' = [queue EXCEPT ![Target[m]] = Append(@, m)]
      /\ UNCHANGED <<phase, orphans, worker, held, begun>>
  BY DEF Enqueue, Arrives, processVars, workerVars, historyVars
<1>2. Stage(m)' = "line" /\ \A o \in Msgs : o # m => Stage(o)' = Stage(o)
  BY <1>1, StagePut DEF Known, Typed
<1>3. \A o \in Msgs : Lined(o)' <=> Lined(o) \/ o = m
  BY <1>1, <1>2 DEF Lined, InRecovery
<1>4. Waiting' = Waiting \cup {m}
  BY <1>3 DEF Known, WaitingIs
<1>5. m \notin Sender!Accepted
  BY <1>1 DEF Known, OrderInv, AdmittedOnce, Sender!Accepted
<1>6. [p \in Nodes |-> OnAir(p)]' = [p \in Nodes |-> OnAir(p)]
  BY <1>1 DEF OnAir
<1> QED
  BY <1>1, <1>4, <1>5, <1>6 DEF Sender!Accept, Mode

\* The worker takes the head of the queue: to put it on the air, or to drop it.
LEMMA ImplTake ==
    ASSUME Known, WaitingIs', NEW n \in Nodes, NEW m \in Msgs, NEW w \in {"marking", "expiring"}, Take(n, m),
           worker' = [worker EXCEPT ![n] = w], UNCHANGED <<orphans, phase, admitted, begun>>
    PROVE  IF w = "marking" THEN UNCHANGED Sender!senderVars ELSE Sender!Drop(m)
<1>1. w \in WorkerStates \ {"idle"}
  BY DEF WorkerStates
<1>2. Stage(m) = "line" /\ Stage(m)' = w /\ \A o \in Msgs : o # m => Stage(o)' = Stage(o)
  BY <1>1, StageTake DEF Known, OnceInv, PlaceInv
<1>3. phase = "up" /\ orphans = {} /\ worker[n] = "idle"
  BY DEF Take, Known, OnceInv, PlaceInv, Phases
<1>4. \A o \in Msgs : Lined(o)' <=> Lined(o) /\ (w = "marking" \/ o # m)
  BY <1>2, <1>3 DEF Lined, InRecovery
<1>5. \A p \in Nodes : OnAir(p)' = OnAir(p)
  <2>1. held' = [held EXCEPT ![n] = m] /\ held \in [Nodes -> Msgs \cup {NoMsg}] /\ worker \in [Nodes -> WorkerStates]
    BY DEF Take, Known, Typed, TypeOK
  <2> QED
    BY <1>3, <2>1 DEF OnAir
<1>6. CASE w = "marking"
  BY <1>4, <1>5, <1>6, Stutter DEF Known, Mode
<1>7. CASE w = "expiring"
  <2>1. m \in Waiting /\ Waiting' = Waiting \ {m}
    BY <1>2, <1>3, <1>4, <1>7 DEF Known, WaitingIs, Lined
  <2>2. [p \in Nodes |-> OnAir(p)]' = [p \in Nodes |-> OnAir(p)]
    BY <1>5
  <2> QED
    BY <1>7, <2>1, <2>2 DEF Sender!Drop, Mode
<1> QED
  BY <1>6, <1>7

\* Recovery is done with a row: its message is in the queue again, or waits no longer.
LEMMA ImplRecover ==
    ASSUME Known, WaitingIs', NEW r \in orphans, RecoverPending(r) \/ RecoverVanished(r)
    PROVE  UNCHANGED Sender!senderVars \/ Sender!Drop(r.msg)
<1> SUFFICES ASSUME NEW m, m = r.msg PROVE UNCHANGED Sender!senderVars \/ Sender!Drop(m)
  OBVIOUS
<1>1. /\ phase = "recovering" /\ orphans' = orphans \ {r} /\ r.st = "PENDING"
      /\ queue' = queue \/ queue' = [queue EXCEPT ![Target[m]] = Append(@, m)]
      /\ UNCHANGED <<phase, admitted, begun, worker, held>>
  BY DEF RecoverPending, RecoverVanished, NextOrphan, intakeVars, queueVars, workerVars, historyVars
<1>2. m \in Msgs /\ InRecovery(m, "PENDING")
  BY <1>1 DEF Known, Typed, TypeOK, Row, InRecovery
<1>3. /\ ~InRecovery(m, "PENDING")'
      /\ \A o \in Msgs : o # m => \A st : InRecovery(o, st)' <=> InRecovery(o, st)
  BY <1>1, OrphanGone DEF Known
<1>4. [p \in Nodes |-> OnAir(p)]' = [p \in Nodes |-> OnAir(p)]
  BY <1>1 DEF OnAir
<1>5. m \in Waiting
  BY <1>1, <1>2 DEF Known, WaitingIs, Lined
<1>6. CASE queue' = queue
  <2>1. \A o \in Msgs : Stage(o)' = Stage(o)
    BY <1>1, <1>6, StageSame
  <2>2. Stage(m) = "out"
    BY <1>1, <1>2, StageRecovery DEF Known, OnceInv
  <2>3. \A o \in Msgs : Lined(o)' <=> Lined(o) /\ o # m
    BY <1>1, <1>3, <2>1, <2>2 DEF Lined
  <2>4. Waiting' = Waiting \ {m}
    BY <2>3 DEF Known, WaitingIs
  <2> QED
    BY <1>1, <1>4, <1>5, <2>4 DEF Sender!Drop, Mode
<1>7. CASE queue' = [queue EXCEPT ![Target[m]] = Append(@, m)]
  <2>1. Stage(m)' = "line" /\ \A o \in Msgs : o # m => Stage(o)' = Stage(o)
    BY <1>1, <1>2, <1>7, StagePut DEF Known, Typed
  <2>2. \A o \in Msgs : Lined(o)' <=> Lined(o)
    BY <1>1, <1>2, <1>3, <2>1 DEF Lined
  <2>3. Waiting' = Waiting
    BY <2>2 DEF Known, WaitingIs
  <2> QED
    BY <1>1, <1>4, <2>3 DEF Sender!senderVars, Mode
<1> QED
  BY <1>1, <1>6, <1>7

LEMMA ImplUnknown ==
    ASSUME Known, WaitingIs', NEW r \in orphans, UnknownRecorded(r)
    PROVE  UNCHANGED Sender!senderVars
<1> SUFFICES ASSUME NEW m, m = r.msg PROVE UNCHANGED Sender!senderVars
  OBVIOUS
<1>1. /\ Returned("recover", m) /\ orphans' = orphans \ {r}
      /\ UNCHANGED <<phase, admitted, begun, queue, worker, held, requests>>
  BY DEF UnknownRecorded, intakeVars, queueVars, workerVars, historyVars
<1>2. m \in Msgs
  BY DEF Known, Typed, TypeOK, Row
<1>3. InRecovery(m, "TRANSMITTING")
  <2>1. PICK h \in Durable : h.by = "recover" /\ h.msg = m
    BY <1>1, LinesReturn DEF Known, Typed, SafeInv
  <2>2. h \in Calls
    BY CallsTyped DEF Known, Typed
  <2> QED
    BY <2>1, <2>2 DEF Known, SafeInv, CallFits, Awaited
<1>4. ~InRecovery(m, "PENDING")
  BY <1>3 DEF Known, OnceInv, PlaceInv, OrphansApart, InRecovery
<1>5. /\ ~InRecovery(m, "PENDING")'
      /\ \A o \in Msgs : o # m => \A st : InRecovery(o, st)' <=> InRecovery(o, st)
  BY <1>1, OrphanGone DEF Known
<1>6. phase = "recovering"
  BY <1>2, StageRecovery DEF Known, OnceInv
<1>7. \A o \in Msgs : Stage(o)' = Stage(o)
  BY <1>1, StageSame
<1>8. \A o \in Msgs : Lined(o)' <=> Lined(o)
  BY <1>1, <1>4, <1>5, <1>6, <1>7 DEF Lined
<1>9. \A p \in Nodes : OnAir(p)' = OnAir(p)
  BY <1>1 DEF OnAir
<1> QED
  BY <1>1, <1>8, <1>9, Stutter DEF Known, Mode
\* Everything but the committed rows is forgotten: what waits then has not begun.
LEMMA ImplCrash ==
    ASSUME UniqueKeys, Known, Known', Crash
    PROVE  Sender!Restart
<1>1. phase' = "down" /\ worker' = [n \in Nodes |-> "idle"] /\ UNCHANGED <<disk, admitted, begun>>
  BY DEF Crash, historyVars
<1>2. [p \in Nodes |-> OnAir(p)]' = [p \in Nodes |-> NoMsg]
  BY <1>1 DEF OnAir
<1>3. ASSUME NEW m \in Waiting' PROVE m \in Sender!Accepted /\ m \notin begun
  <2>1. m \in Msgs /\ Says(disk, m) = "PENDING"
    BY <1>1, <1>3 DEF Known, WaitingIs, Lined
  <2>2. Keyed(disk) /\ disk \in Table
    BY DEF Known, OnceInv, CallsInv, RowsKeyed, Typed, TypeOK
  <2>3. Key(m) \in Keys /\ disk[Key(m)] # NoRow /\ disk[Key(m)].st = "PENDING"
    BY <2>1 DEF Says, Keys
  <2>4. disk[Key(m)].msg = m
    BY <2>1, <2>2, <2>3, SaysRow DEF UniqueKeys
  <2>5. IsAdmitted(admitted, m)
    BY <2>3, <2>4, NumberedIsAdmitted DEF Known, OrderInv, RowsNumbered, NumberedRows
  <2>6. RowIn(disk, m, {"PENDING"})
    BY <2>3, <2>4 DEF RowIn
  <2> QED
    BY <2>1, <2>5, <2>6 DEF Known, OnceInv, NeverRequeued, IsAdmitted, Sender!Accepted
<1> QED
  BY <1>1, <1>2, <1>3 DEF Sender!Restart, Mode

LEMMA ImplStart == ASSUME UniqueKeys, Known, Known', Start PROVE UNCHANGED Sender!senderVars
<1>1. /\ phase = "down" /\ phase' = "recovering" /\ UNCHANGED <<queue, worker, held, disk, admitted, begun>>
      /\ orphans' = {disk[k] : k \in {k \in Keys : /\ disk[k] # NoRow
                                                  /\ disk[k].st \in {"PENDING", "TRANSMITTING"}}}
  BY DEF Start, intakeVars, queueVars, workerVars, journalVars, historyVars
<1>2. \A m \in Msgs : Stage(m)' = "out"
  <2>1. \A m \in Msgs : Stage(m) = "out"
    BY <1>1, StageNotUp DEF Known, OnceInv
  <2> QED
    BY <1>1, <2>1, StageSame
<1>3. Keyed(disk) /\ disk \in Table
  BY DEF Known, OnceInv, CallsInv, RowsKeyed, Typed, TypeOK
<1>4. ASSUME NEW m \in Msgs, InRecovery(m, "PENDING")' PROVE Says(disk, m) = "PENDING"
  <2>1. PICK k \in Keys : disk[k] # NoRow /\ disk[k].msg = m /\ disk[k].st = "PENDING"
    BY <1>1, <1>4 DEF InRecovery
  <2> QED
    BY <1>3, <2>1, SaysRow
<1>5. ASSUME NEW m \in Msgs, Says(disk, m) = "PENDING" PROVE InRecovery(m, "PENDING")'
  <2>1. Key(m) \in Keys /\ disk[Key(m)] # NoRow /\ disk[Key(m)].st = "PENDING"
    BY <1>5 DEF Says, Keys
  <2>2. disk[Key(m)].msg = m
    BY <1>3, <2>1, SaysRow DEF UniqueKeys
  <2>3. disk[Key(m)] \in orphans'
    BY <1>1, <2>1
  <2> QED
    BY <2>1, <2>2, <2>3 DEF InRecovery
<1>6. \A m \in Msgs : Lined(m)' <=> Lined(m)
  BY <1>1, <1>2, <1>4, <1>5 DEF Lined
<1>7. \A n \in Nodes : OnAir(n)' = OnAir(n)
  BY <1>1 DEF OnAir
<1> QED
  BY <1>1, <1>6, <1>7, Stutter DEF Known, Mode

\* The recovery is over; what it has put back waits, and nothing else.
LEMMA ImplOpen == ASSUME Known, Known', Open PROVE Sender!Resume
<1>1. /\ phase = "recovering" /\ phase' = "up" /\ UNCHANGED <<orphans, queue, worker, held, admitted, begun>>
  BY DEF Open, intakeVars, queueVars, workerVars, historyVars
<1>2. \A m \in Msgs : Stage(m)' = Stage(m)
  BY <1>1, StageSame
<1>3. \A m \in Msgs : Lined(m)' <=> Lined(m)
  BY <1>1, <1>2 DEF Lined, InRecovery
<1>4. [n \in Nodes |-> OnAir(n)]' = [n \in Nodes |-> OnAir(n)]
  BY <1>1 DEF OnAir
<1>5. Waiting' = Waiting
  BY <1>3 DEF Known, WaitingIs
<1> QED
  BY <1>1, <1>4, <1>5 DEF Sender!Resume, Mode

LEMMA InitImplements == Init => Sender!SenderInit
<1> SUFFICES ASSUME Init PROVE Sender!SenderInit
  OBVIOUS
<1>1. phase = "down" /\ admitted = <<>> /\ begun = {} /\ disk = EmptyTable /\ worker = [n \in Nodes |-> "idle"]
  BY DEF Init
<1>2. Waiting = {}
  BY <1>1 DEF Waiting, PendingOf, EmptyTable
<1>3. [n \in Nodes |-> OnAir(n)] = [n \in Nodes |-> NoMsg]
  BY <1>1 DEF OnAir
<1> QED
  BY <1>1, <1>2, <1>3 DEF Sender!SenderInit, Mode

LEMMA StepImplements ==
    ASSUME UniqueKeys, Known, Known', [Next]_vars
    PROVE  [Sender!SenderNext]_(Sender!senderVars)
<1> USE DEF processVars, intakeVars, queueVars, workerVars, journalVars, historyVars
<1> DEFINE Goal == Sender!SenderNext \/ UNCHANGED Sender!senderVars
<1>1. WaitingIs'
  BY DEF Known
<1>2. ASSUME Journal PROVE Goal
  <2>1. phase # "down" \/ UNCHANGED disk
    BY <1>2 DEF Journal, RunStatement, RunCommit, ResumeStatement, Known, SafeInv, Down
  <2> QED
    BY <1>1, <1>2, <2>1, ImplQuiet DEF Journal, RunStatement, RunCommit, ResumeStatement
<1>3. ASSUME NEW m \in Msgs, Refuse(m) \/ Overload(m) \/ Expire(m) PROVE Goal
  BY <1>1, <1>3, ImplQuiet DEF Refuse, Overload, Expire
<1>4. ASSUME NEW m \in Msgs, PendingRecorded(m) PROVE Goal
  BY <1>1, <1>4, ImplQuiet DEF PendingRecorded, Returned
<1>5. ASSUME NEW n \in Nodes, Refill(n) \/ Mirror(n) PROVE Goal
  BY <1>1, <1>5, ImplQuiet DEF Refill, Mirror
<1>6. ASSUME NEW n \in Nodes,
             SendOk(n) \/ SendBusy(n) \/ SendFailed(n) \/ Retry(n) \/ SentRecorded(n) \/ Prune(n)
      PROVE  Goal
  <2>1. PICK w \in Airborne : worker' = [worker EXCEPT ![n] = w]
    BY <1>6 DEF SendOk, SendBusy, SendFailed, Retry, SentRecorded, Prune, Airborne, WorkerStates
  <2>2. worker[n] \in Airborne /\ UNCHANGED <<phase, queue, held, orphans, admitted, begun>>
    BY <1>6 DEF SendOk, SendBusy, SendFailed, Retry, SentRecorded, Prune, Airborne, WorkerStates
  <2> QED
    BY <1>1, <2>1, <2>2, ImplMove
<1>7. ASSUME NEW n \in Nodes, TakeStale(n) \/ TakeFresh(n) PROVE Goal
  <2>1. PICK m \in Msgs, w \in {"marking", "expiring"} :
          Take(n, m) /\ worker' = [worker EXCEPT ![n] = w] /\ UNCHANGED <<orphans, phase, admitted, begun>>
    BY <1>7 DEF TakeStale, TakeFresh, Known, Typed, TypeOK
  <2>2. UNCHANGED Sender!senderVars \/ Sender!Drop(m)
    BY <1>1, <2>1, ImplTake
  <2> QED
    BY <2>2 DEF Sender!SenderNext
<1>8. ASSUME NEW n \in Nodes, ExpiryRecorded(n) \/ FailureRecorded(n) \/ Pruned(n) PROVE Goal
  <2>1. /\ worker[n] \in Airborne \cup {"expiring"}
        /\ worker' = [worker EXCEPT ![n] = "idle"] /\ held' = [held EXCEPT ![n] = NoMsg]
        /\ UNCHANGED <<phase, queue, orphans, admitted, begun>>
    BY <1>8 DEF ExpiryRecorded, FailureRecorded, Pruned, Airborne, WorkerStates
  <2>2. UNCHANGED Sender!senderVars \/ Sender!End(n)
    BY <1>1, <2>1, ImplDone
  <2> QED
    BY <2>2 DEF Sender!SenderNext
<1>9. ASSUME NEW n \in Nodes, TransmittingRecorded(n) PROVE Goal
  <2>1. held[n] \in Msgs
    BY <1>9 DEF TransmittingRecorded, Known, Typed, WorkerHolds
  <2>2. Sender!Begin(held[n])
    BY <1>1, <1>9, ImplBegin
  <2> QED
    BY <2>1, <2>2 DEF Sender!SenderNext
<1>10. ASSUME NEW m \in Msgs, Enqueue(m) PROVE Goal
  <2>1. Sender!Accept(m)
    BY <1>1, <1>10, ImplAccept
  <2> QED
    BY <2>1 DEF Sender!SenderNext
<1>11. ASSUME Crash PROVE Goal
  BY <1>11, ImplCrash DEF Sender!SenderNext
<1>12. ASSUME Start \/ Open PROVE Goal
  BY <1>12, ImplStart, ImplOpen DEF Sender!SenderNext
<1>13. ASSUME NEW r \in orphans, RecoverTransmitting(r) PROVE Goal
  <2>1. phase # "down"
    BY <1>13 DEF RecoverTransmitting, NextOrphan
  <2> QED
    BY <1>1, <1>13, <2>1, ImplQuiet DEF RecoverTransmitting
<1>14. ASSUME NEW r \in orphans, UnknownRecorded(r) PROVE Goal
  BY <1>1, <1>14, ImplUnknown
<1>15. ASSUME NEW r \in orphans, RecoverPending(r) \/ RecoverVanished(r) PROVE Goal
  <2>1. r.msg \in Msgs
    BY DEF Known, Typed, TypeOK, Row
  <2>2. UNCHANGED Sender!senderVars \/ Sender!Drop(r.msg)
    BY <1>1, <1>15, ImplRecover
  <2> QED
    BY <2>1, <2>2 DEF Sender!SenderNext
<1>16. ASSUME UNCHANGED vars PROVE Goal
  BY <1>1, <1>16, ImplQuiet DEF vars
<1> QED
  BY <1>2, <1>3, <1>4, <1>5, <1>6, <1>7, <1>8, <1>9, <1>10, <1>11, <1>12, <1>13, <1>14, <1>15, <1>16
  DEF Next, Intake, Radio, Worker, Recovery

\* FIFO per node in the order of admission, one message of a node in the air, none begun twice,
\* none accepted or begun during a recovery, and none that was dropped comes back but by one: the
\* pipeline implements SerialSender.
THEOREM PipelineIsSerialSender == ASSUME UniqueKeys PROVE Spec => ImplementsSerialSender
<1>1. OrderInv /\ Typed /\ OnceInv /\ [Next]_vars => OrderInv'
  BY StepOrder DEF OnceInv
<1>2. Typed /\ OnceInv => WaitingIs
  BY WaitingByMessage
<1>3. Typed /\ OnceInv /\ SafeInv /\ OrderInv /\ WaitingIs => Known
  BY DEF Known
<1>4. Known /\ Known' /\ [Next]_vars => [Sender!SenderNext]_(Sender!senderVars)
  BY StepImplements
<1> QED
  BY PipelineInvariant, InitOrder, InitImplements, <1>1, <1>2, <1>3, <1>4, PTL
  DEF Spec, ImplementsSerialSender, Sender!SenderSpec
=============================================================================
