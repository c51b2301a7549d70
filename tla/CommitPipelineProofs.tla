------------------------ MODULE CommitPipelineProofs ------------------------
(* For every value of the constants: the types of CommitPipeline, and that *)
(* no message is transmitted twice.                                        *)
EXTENDS CommitPipeline, TLAPS

Typed == TypeOK /\ WorkerHolds

LEMMA InitTyped == Init => Typed
BY PipelineAssumption
DEF Init, Typed, TypeOK, WorkerHolds, Table, EmptyTable, Statuses, WorkerStates, Transports

\* The building blocks of the actions keep the types of what they touch.
LEMMA SubmitTyped ==
    ASSUME requests \in Seq(Request),
           NEW op \in {"insert", "set", "delete", "commit"},
           NEW by \in {"consume", "egress", "recover"},
           NEW m \in Msgs, NEW st \in Statuses, NEW id \in Nat,
           Submit(op, by, m, st, id)
    PROVE  requests' \in Seq(Request)
<1>1. [op |-> op, by |-> by, msg |-> m, st |-> st, rowid |-> id] \in Request
  BY DEF Request
<1> QED
  BY <1>1 DEF Submit

LEMMA ShowTyped ==
    ASSUME shown \in [Msgs -> Statuses \cup {"none"}],
           NEW m \in Msgs, NEW st \in Statuses, Show(m, st)
    PROVE  shown' \in [Msgs -> Statuses \cup {"none"}]
BY DEF Show

LEMMA ReturnedTyped ==
    ASSUME replies \in Seq(Request), NEW by, NEW m, Returned(by, m)
    PROVE  /\ replies' \in Seq(Request) /\ UNCHANGED <<db, disk>>
BY DEF Returned

LEMMA TokensTyped ==
    ASSUME tokens \in [Nodes -> 0..Burst], NEW n \in Nodes
    PROVE  TokensAfterPut(n) \in [Nodes -> 0..Burst]
BY PipelineAssumption DEF TokensAfterPut

LEMMA ExecuteTyped ==
    ASSUME NEW table \in Table, NEW r \in Request
    PROVE  Execute(table, r) \in Table
<1> DEFINE k == Key(r.msg)
<1>1. k \in Keys /\ r.msg \in Msgs /\ r.st \in Statuses /\ r.rowid \in Nat
  BY DEF Request, Keys
<1>2. [msg |-> r.msg, st |-> "PENDING", rowid |-> r.rowid] \in Row
  BY <1>1 DEF Row, Statuses
<1>3. [table EXCEPT ![k] = [msg |-> r.msg, st |-> "PENDING", rowid |-> r.rowid]] \in Table
  BY <1>1, <1>2 DEF Table
<1>4. [table EXCEPT ![k] = NoRow] \in Table
  BY <1>1 DEF Table
<1>5. ASSUME table[k] # NoRow PROVE [table EXCEPT ![k].st = r.st] \in Table
  <2>1. table[k] \in Row
    BY <1>1, <1>5 DEF Table
  <2>2. [table[k] EXCEPT !.st = r.st] \in Row
    BY <1>1, <2>1 DEF Row
  <2> QED
    BY <1>1, <2>2 DEF Table
<1> QED
  BY <1>3, <1>4, <1>5 DEF Execute

LEMMA StepTyped == Typed /\ [Next]_vars => Typed'
<1> SUFFICES ASSUME Typed, [Next]_vars PROVE Typed'
  OBVIOUS
<1> USE PipelineAssumption
<1> USE DEF Typed, TypeOK, WorkerHolds, Statuses, WorkerStates, Transports, FromMessenger,
            vars, processVars, intakeVars, queueVars, workerVars, journalVars, historyVars
<1>1. ASSUME RunStatement PROVE Typed'
  BY <1>1, ExecuteTyped DEF RunStatement
<1>2. ASSUME RunCommit PROVE Typed'
  BY <1>2 DEF RunCommit
<1>3. ASSUME ResumeStatement PROVE Typed'
  <2>1. Head(replies) \in Request /\ Tail(replies) \in Seq(Request)
    BY <1>3 DEF ResumeStatement
  <2>2. [Head(replies) EXCEPT !.op = "commit"] \in Request
    BY <2>1 DEF Request
  <2> QED
    BY <1>3, <2>1, <2>2, SMTT(60) DEF ResumeStatement
<1>4. ASSUME Crash PROVE Typed'
  BY <1>4 DEF Crash
<1>5. ASSUME Start PROVE Typed'
  <2>1. orphans' \subseteq Row
    BY <1>5 DEF Start, Table
  <2>2. conf' \subseteq Nodes /\ phase' = "recovering"
    BY <1>5 DEF Start
  <2>3. UNCHANGED <<life, intakeVars, queueVars, workerVars, journalVars, shown, historyVars>>
    BY <1>5 DEF Start
  <2> QED
    BY <2>1, <2>2, <2>3
<1>6. ASSUME Open PROVE Typed'
  BY <1>6 DEF Open
<1>7. ASSUME NEW m \in Msgs, Refuse(m) PROVE Typed'
  <2>1. shown' \in [Msgs -> Statuses \cup {"none"}]
    BY <1>7, ShowTyped DEF Refuse
  <2> QED
    BY <1>7, <2>1, SMTT(60) DEF Refuse, Arrives
<1>8. ASSUME NEW m \in Msgs, Enqueue(m) PROVE Typed'
  <2>1. requests' \in Seq(Request)
    <3>1. Submit("insert", "consume", m, "PENDING", Len(admitted)) /\ Len(admitted) \in Nat
      BY <1>8 DEF Enqueue
    <3> QED
      BY <3>1, SubmitTyped
  <2>2. tokens' \in [Nodes -> 0..Burst]
    BY <1>8, TokensTyped DEF Enqueue
  <2>3. queue' \in [Nodes -> Seq(Msgs)]
    BY <1>8 DEF Enqueue
  <2>4. /\ consumer' \in [Transports -> Msgs \cup {NoMsg}]
        /\ arrived' \subseteq Msgs /\ admitted' \in Seq(Msgs)
    BY <1>8 DEF Enqueue, Arrives
  <2> QED
    BY <1>8, <2>1, <2>2, <2>3, <2>4 DEF Enqueue
<1>9. ASSUME NEW m \in Msgs, Overload(m) PROVE Typed'
  <2>1. Show(m, "REJECTED") /\ tokens' = TokensAfterPut(Target[m]) /\ Target[m] \in Nodes
    BY <1>9 DEF Overload
  <2>2. shown' \in [Msgs -> Statuses \cup {"none"}]
    BY <2>1, ShowTyped
  <2>3. tokens' \in [Nodes -> 0..Burst]
    BY <2>1, TokensTyped
  <2>4. arrived' \subseteq Msgs /\ admitted' = admitted
    BY <1>9 DEF Overload, Arrives
  <2>5. UNCHANGED <<processVars, consumer, queue, stale, workerVars, journalVars, historyVars>>
    BY <1>9 DEF Overload
  <2> QED
    BY <2>2, <2>3, <2>4, <2>5
<1>10. ASSUME NEW m \in Msgs, PendingRecorded(m) PROVE Typed'
  <2>1. Show(m, "PENDING") /\ Returned("consume", m)
    BY <1>10 DEF PendingRecorded
  <2>2. shown' \in [Msgs -> Statuses \cup {"none"}]
    BY <2>1, ShowTyped
  <2>3. replies' \in Seq(Request) /\ db' \in Table /\ disk' \in Table
    BY <2>1, ReturnedTyped
  <2>4. consumer' \in [Transports -> Msgs \cup {NoMsg}]
    BY <1>10 DEF PendingRecorded
  <2>5. UNCHANGED <<processVars, arrived, admitted, queueVars, workerVars, requests, historyVars>>
    BY <1>10 DEF PendingRecorded
  <2> QED
    BY <2>2, <2>3, <2>4, <2>5
<1>11. ASSUME NEW m \in Msgs, Expire(m) PROVE Typed'
  <2>1. /\ stale' = stale \cup {m}
        /\ UNCHANGED <<processVars, intakeVars, queue, tokens, workerVars, journalVars, shown,
                       historyVars>>
    BY <1>11 DEF Expire
  <2> QED
    BY <2>1
<1>12. ASSUME NEW n \in Nodes, TakeStale(n) PROVE Typed'
  <2>1. PICK m \in stale :
          /\ Take(n, m) /\ Submit("set", "egress", m, "REJECTED", 0)
          /\ worker' = [worker EXCEPT ![n] = "expiring"]
          /\ UNCHANGED <<processVars, intakeVars, tokens, attempt, toMirror, replies, db, disk,
                         shown, historyVars>>
    BY <1>12 DEF TakeStale
  <2>2. requests' \in Seq(Request)
    BY <2>1, SubmitTyped
  <2>3. queue' \in [Nodes -> Seq(Msgs)]
    BY <2>1 DEF Take
  <2>4. held' \in [Nodes -> Msgs \cup {NoMsg}] /\ WorkerHolds' /\ stale' \subseteq Msgs
    BY <2>1, SMTT(60) DEF Take
  <2> QED
    BY <2>1, <2>2, <2>3, <2>4
<1>13. ASSUME NEW n \in Nodes, ExpiryRecorded(n) PROVE Typed'
  <2>1. held[n] \in Msgs
    BY <1>13 DEF ExpiryRecorded
  <2>2. shown' \in [Msgs -> Statuses \cup {"none"}]
    BY <1>13, <2>1, ShowTyped DEF ExpiryRecorded
  <2>3. replies' \in Seq(Request) /\ db' \in Table /\ disk' \in Table
    BY <1>13, ReturnedTyped DEF ExpiryRecorded
  <2> QED
    BY <1>13, <2>2, <2>3 DEF ExpiryRecorded
<1>14. ASSUME NEW n \in Nodes, TakeFresh(n) PROVE Typed'
  <2>1. PICK m \in Msgs \ stale :
          /\ Take(n, m) /\ Submit("set", "egress", m, "TRANSMITTING", 0)
          /\ worker' = [worker EXCEPT ![n] = "marking"]
          /\ UNCHANGED <<processVars, intakeVars, tokens, attempt, toMirror, replies, db, disk,
                         shown, historyVars>>
    BY <1>14 DEF TakeFresh
  <2>2. requests' \in Seq(Request)
    BY <2>1, SubmitTyped
  <2>3. queue' \in [Nodes -> Seq(Msgs)]
    BY <2>1 DEF Take
  <2>4. held' \in [Nodes -> Msgs \cup {NoMsg}] /\ WorkerHolds' /\ stale' \subseteq Msgs
    BY <2>1, SMTT(60) DEF Take
  <2> QED
    BY <2>1, <2>2, <2>3, <2>4
<1>15. ASSUME NEW n \in Nodes, TransmittingRecorded(n) PROVE Typed'
  <2>1. held[n] \in Msgs
    BY <1>15 DEF TransmittingRecorded
  <2>2. shown' \in [Msgs -> Statuses \cup {"none"}]
    BY <1>15, <2>1, ShowTyped DEF TransmittingRecorded
  <2> QED
    BY <1>15, <2>1, <2>2, ReturnedTyped DEF TransmittingRecorded
<1>16. ASSUME NEW n \in Nodes, SendOk(n) PROVE Typed'
  <2>1. held[n] \in Msgs
    BY <1>16 DEF SendOk
  <2>2. requests' \in Seq(Request)
    BY <1>16, <2>1, SubmitTyped DEF SendOk
  <2> QED
    BY <1>16, <2>2 DEF SendOk
<1>17. ASSUME NEW n \in Nodes, SendBusy(n) PROVE Typed'
  BY <1>17 DEF SendBusy
<1>18. ASSUME NEW n \in Nodes, Retry(n) PROVE Typed'
  BY <1>18 DEF Retry
<1>19. ASSUME NEW n \in Nodes, SendFailed(n) PROVE Typed'
  <2>1. held[n] \in Msgs
    BY <1>19 DEF SendFailed
  <2>2. requests' \in Seq(Request)
    BY <1>19, <2>1, SubmitTyped DEF SendFailed
  <2> QED
    BY <1>19, <2>2 DEF SendFailed
<1>20. ASSUME NEW n \in Nodes, FailureRecorded(n) PROVE Typed'
  <2>1. held[n] \in Msgs
    BY <1>20 DEF FailureRecorded
  <2>2. shown' \in [Msgs -> Statuses \cup {"none"}]
    BY <1>20, <2>1, ShowTyped DEF FailureRecorded
  <2>3. replies' \in Seq(Request) /\ db' \in Table /\ disk' \in Table
    BY <1>20, ReturnedTyped DEF FailureRecorded
  <2> QED
    BY <1>20, <2>2, <2>3 DEF FailureRecorded
<1>21. ASSUME NEW n \in Nodes, SentRecorded(n) PROVE Typed'
  <2>1. held[n] \in Msgs
    BY <1>21 DEF SentRecorded
  <2>2. shown' \in [Msgs -> Statuses \cup {"none"}]
    BY <1>21, <2>1, ShowTyped DEF SentRecorded
  <2>3. replies' \in Seq(Request) /\ db' \in Table /\ disk' \in Table
    BY <1>21, ReturnedTyped DEF SentRecorded
  <2>4. toMirror' \in [Nodes -> SUBSET Chats]
    BY <1>21, <2>1 DEF SentRecorded, Chats
  <2>5. /\ worker' = [worker EXCEPT ![n] = "mirroring"] /\ worker[n] # "idle"
        /\ UNCHANGED <<processVars, intakeVars, queueVars, held, attempt, requests, historyVars>>
    BY <1>21 DEF SentRecorded
  <2> QED
    BY <2>1, <2>2, <2>3, <2>4, <2>5, SMTT(60)
<1>22. ASSUME NEW n \in Nodes, Mirror(n) PROVE Typed'
  <2>1. held[n] \in Msgs
    BY <1>22 DEF Mirror
  <2>2. toMirror' \in [Nodes -> SUBSET Chats] /\ mirrored' \in [Msgs -> SUBSET Chats]
    BY <1>22, <2>1 DEF Mirror
  <2> QED
    BY <1>22, <2>2 DEF Mirror
<1>23. ASSUME NEW n \in Nodes, Prune(n) PROVE Typed'
  <2>1. held[n] \in Msgs
    BY <1>23 DEF Prune
  <2>2. requests' \in Seq(Request)
    BY <1>23, <2>1, SubmitTyped DEF Prune
  <2> QED
    BY <1>23, <2>2 DEF Prune
<1>24. ASSUME NEW n \in Nodes, Pruned(n) PROVE Typed'
  BY <1>24, ReturnedTyped DEF Pruned
<1>25. ASSUME NEW n \in Nodes, Refill(n) PROVE Typed'
  BY <1>25 DEF Refill
<1>26. ASSUME NEW r \in orphans, RecoverTransmitting(r) PROVE Typed'
  <2>1. r.msg \in Msgs
    BY DEF Row
  <2>2. shown' \in [Msgs -> Statuses \cup {"none"}]
    BY <1>26, <2>1, ShowTyped DEF RecoverTransmitting
  <2>3. requests' \in Seq(Request)
    BY <1>26, <2>1, SubmitTyped DEF RecoverTransmitting
  <2> QED
    BY <1>26, <2>2, <2>3 DEF RecoverTransmitting
<1>27. ASSUME NEW r \in orphans, UnknownRecorded(r) PROVE Typed'
  BY <1>27, ReturnedTyped DEF UnknownRecorded
<1>28. ASSUME NEW r \in orphans, RecoverPending(r) PROVE Typed'
  <2>1. r.msg \in Msgs
    BY DEF Row
  <2>2. shown' \in [Msgs -> Statuses \cup {"none"}]
    BY <1>28, <2>1, ShowTyped DEF RecoverPending
  <2>3. tokens' \in [Nodes -> 0..Burst]
    BY <1>28, <2>1, TokensTyped DEF RecoverPending
  <2>4. queue' \in [Nodes -> Seq(Msgs)]
    BY <1>28, <2>1 DEF RecoverPending
  <2> QED
    BY <1>28, <2>2, <2>3, <2>4 DEF RecoverPending
<1>29. ASSUME NEW r \in orphans, RecoverVanished(r) PROVE Typed'
  BY <1>29 DEF RecoverVanished, NextOrphan
<1>30. CASE UNCHANGED vars
  BY <1>30
<1> QED
  BY <1>1, <1>2, <1>3, <1>4, <1>5, <1>6, <1>7, <1>8, <1>9, <1>10, <1>11, <1>12, <1>13, <1>14, <1>15, <1>16, <1>17, <1>18, <1>19, <1>20, <1>21, <1>22, <1>23, <1>24, <1>25, <1>26, <1>27, <1>28, <1>29, <1>30
  DEF Next, Journal, Intake, Radio, Worker, Recovery

\* TypeOK holds in every reachable state, whatever the constants.
THEOREM TypeCorrect == Spec => []TypeOK
<1>1. Typed => TypeOK
  BY DEF Typed
<1> QED
  BY InitTyped, StepTyped, <1>1, PTL DEF Spec
---------------------------------------------------------------------------
(* At most once.                                                           *)

\* The assumption the theorem needs: two messages never share a journal key.
UniqueKeys == \A a, b \in Msgs : Key(a) = Key(b) => a = b

\* A row sits under the key of its message, which has arrived.
Keyed(table) == \A k \in Keys : table[k] # NoRow => Key(table[k].msg) = k /\ table[k].msg \in arrived
RowsKeyed == Keyed(db) /\ Keyed(disk)

\* Outside bridge.run() there is neither queue nor worker; outside recover() no orphan.
Phases ==
    /\ phase # "up" => \A n \in Nodes : worker[n] = "idle"
    /\ phase = "down" => \A n \in Nodes : queue[n] = <<>>
    /\ phase # "recovering" => orphans = {}

\* A message waits once, in the line of its node, and is not also being handled.
WaitsOnce ==
    \A n \in Nodes :
        /\ \A i \in DOMAIN queue[n] : Target[queue[n][i]] = n /\ queue[n][i] \in arrived
        /\ \A i, j \in DOMAIN queue[n] : queue[n][i] = queue[n][j] => i = j
        /\ worker[n] # "idle" =>
            /\ Target[held[n]] = n /\ held[n] \in arrived
            /\ \A i \in DOMAIN queue[n] : queue[n][i] # held[n]

\* What recover() has still to put back is not in the queue already, and is there once.
OrphansApart ==
    \A r \in orphans :
        /\ r.msg \in arrived
        /\ \A n \in Nodes : \A i \in DOMAIN queue[n] : queue[n][i] # r.msg
        /\ \A q \in orphans : r.msg = q.msg => r = q

\* Every call is about a message that has arrived; only an INSERT writes PENDING.
CallsSane ==
    /\ \A i \in DOMAIN requests : /\ requests[i].msg \in arrived
                                  /\ requests[i].op = "set" => requests[i].st # "PENDING"
    /\ \A i \in DOMAIN replies : /\ replies[i].msg \in arrived

\* The INSERT of a message runs before anything its worker asks of the journal.
InsertFirst ==
    \A i \in DOMAIN requests : requests[i].op = "insert" =>
        LET m == requests[i].msg IN
        /\ m \notin begun /\ requests[i].by = "consume"
        /\ \A j \in DOMAIN requests :
                requests[j].by = "egress" /\ requests[j].msg = m => i < j /\ requests[j].op # "commit"
        /\ \A j \in DOMAIN replies : ~(replies[j].by = "egress" /\ replies[j].msg = m)

NotPending(table, m) == ~RowIn(table, m, {"PENDING"})

\* Once a statement of the worker has run, the transaction does not say PENDING; once it is
\* committed, neither does the disk.
StatementsTake ==
    /\ \A i \in DOMAIN requests : requests[i].by = "egress" /\ requests[i].op = "commit"
            => NotPending(db, requests[i].msg)
    /\ \A i \in DOMAIN replies : replies[i].by = "egress"
            => /\ NotPending(db, replies[i].msg)
               /\ replies[i].op = "commit" => NotPending(disk, replies[i].msg)

\* What has begun is PENDING nowhere.
BegunIsSettled ==
    /\ begun \subseteq arrived
    /\ \A m \in begun : NotPending(db, m) /\ NotPending(disk, m)

CallsInv == RowsKeyed /\ CallsSane /\ InsertFirst /\ StatementsTake /\ BegunIsSettled
PlaceInv == Phases /\ WaitsOnce /\ OrphansApart
OnceInv == CallsInv /\ PlaceInv /\ NeverRequeued
---------------------------------------------------------------------------
(* The calls: what a step may do to requests, replies, db, disk and begun. *)

\* A step that makes no call and gets no answer.
LEMMA CallsIdle ==
    ASSUME CallsInv, UNCHANGED <<requests, replies, db, disk, begun>>, arrived \subseteq arrived'
    PROVE  CallsInv'
BY DEF CallsInv, RowsKeyed, Keyed, CallsSane, InsertFirst, StatementsTake, BegunIsSettled,
       NotPending, RowIn

\* A worker or recover() submits a statement.
LEMMA CallsSubmit ==
    ASSUME TypeOK, CallsInv, NEW op \in {"set", "delete"}, NEW by \in {"egress", "recover"},
           NEW m \in Msgs, NEW st \in Statuses \ {"PENDING"}, m \in arrived,
           Submit(op, by, m, st, 0), UNCHANGED <<replies, db, disk, begun, arrived>>
    PROVE  CallsInv'
<1> DEFINE e == [op |-> op, by |-> by, msg |-> m, st |-> st, rowid |-> 0]
<1>1. /\ requests \in Seq(Request) /\ requests' = Append(requests, e)
      /\ e.op = op /\ e.by = by /\ e.msg = m /\ e.st = st
  BY DEF Submit, TypeOK
<1> HIDE DEF e
<1>2. /\ DOMAIN requests' = 1..(Len(requests) + 1) /\ DOMAIN requests = 1..Len(requests)
      /\ Len(requests) \in Nat
      /\ requests'[Len(requests) + 1] = e
      /\ \A i \in DOMAIN requests : requests'[i] = requests[i]
  BY <1>1
<1>3. RowsKeyed' /\ BegunIsSettled'
  BY DEF CallsInv, RowsKeyed, Keyed, BegunIsSettled, NotPending, RowIn
<1>4. CallsSane'
  BY <1>1, <1>2 DEF CallsInv, CallsSane
<1>5. InsertFirst'
  BY <1>1, <1>2 DEF CallsInv, InsertFirst
<1>6. StatementsTake'
  BY <1>1, <1>2 DEF CallsInv, StatementsTake, NotPending, RowIn
<1> QED
  BY <1>3, <1>4, <1>5, <1>6 DEF CallsInv

\* The oldest answer is taken: what is left was there before, one place later.
LEMMA TailOf ==
    ASSUME NEW S, NEW s \in Seq(S), s # <<>>
    PROVE  /\ Tail(s) \in Seq(S) /\ Head(s) \in S /\ 1 \in DOMAIN s /\ Head(s) = s[1]
           /\ \A i \in DOMAIN Tail(s) : i + 1 \in DOMAIN s /\ Tail(s)[i] = s[i + 1] /\ i \in Nat /\ i >= 1
OBVIOUS

\* A task takes the answer of its call, and nothing has begun.
LEMMA CallsReturn ==
    ASSUME TypeOK, CallsInv, NEW by, NEW m, Returned(by, m), UNCHANGED <<requests, begun, arrived>>
    PROVE  CallsInv'
<1>1. /\ replies # <<>> /\ replies' = Tail(replies) /\ UNCHANGED <<db, disk>>
      /\ replies \in Seq(Request)
  BY DEF Returned, TypeOK
<1>2. \A i \in DOMAIN replies' : i + 1 \in DOMAIN replies /\ replies'[i] = replies[i + 1]
  BY <1>1, TailOf
<1>3. RowsKeyed' /\ BegunIsSettled'
  BY <1>1 DEF CallsInv, RowsKeyed, Keyed, BegunIsSettled, NotPending, RowIn
<1>4. CallsSane'
  BY <1>1, <1>2 DEF CallsInv, CallsSane
<1>5. InsertFirst'
  BY <1>1, <1>2 DEF CallsInv, InsertFirst
<1>6. StatementsTake'
  BY <1>1, <1>2 DEF CallsInv, StatementsTake, NotPending, RowIn
<1> QED
  BY <1>3, <1>4, <1>5, <1>6 DEF CallsInv

\* mark_transmitting has returned for m, and m begins.
LEMMA CallsBegin ==
    ASSUME TypeOK, CallsInv, NEW m \in Msgs, Returned("egress", m), begun' = begun \cup {m},
           UNCHANGED <<requests, arrived>>
    PROVE  CallsInv' /\ NotPending(disk, m) /\ m \in arrived
<1>1. /\ replies # <<>> /\ replies' = Tail(replies) /\ UNCHANGED <<db, disk>>
      /\ replies \in Seq(Request)
      /\ Head(replies).op = "commit" /\ Head(replies).by = "egress" /\ Head(replies).msg = m
  BY DEF Returned, TypeOK
<1>2. /\ \A i \in DOMAIN replies' : i + 1 \in DOMAIN replies /\ replies'[i] = replies[i + 1]
      /\ 1 \in DOMAIN replies /\ Head(replies) = replies[1]
  BY <1>1, TailOf
<1>3. NotPending(db, m) /\ NotPending(disk, m) /\ m \in arrived
  BY <1>1, <1>2 DEF CallsInv, StatementsTake, CallsSane
<1>4. \A i \in DOMAIN requests : requests[i].op = "insert" => requests[i].msg # m
  BY <1>1, <1>2 DEF CallsInv, InsertFirst
<1>5. RowsKeyed' /\ BegunIsSettled'
  BY <1>1, <1>3 DEF CallsInv, RowsKeyed, Keyed, BegunIsSettled, NotPending, RowIn
<1>6. CallsSane'
  BY <1>1, <1>2 DEF CallsInv, CallsSane
<1>7. InsertFirst'
  BY <1>1, <1>2, <1>4 DEF CallsInv, InsertFirst
<1>8. StatementsTake'
  BY <1>1, <1>2 DEF CallsInv, StatementsTake, NotPending, RowIn
<1> QED
  BY <1>3, <1>5, <1>6, <1>7, <1>8 DEF CallsInv

\* The INSERT of a message that has only now arrived.
LEMMA CallsEnqueue ==
    ASSUME TypeOK, CallsInv, NEW m \in Msgs \ arrived, NEW id \in Nat,
           Submit("insert", "consume", m, "PENDING", id),
           arrived' = arrived \cup {m}, UNCHANGED <<replies, db, disk, begun>>
    PROVE  CallsInv'
<1> DEFINE e == [op |-> "insert", by |-> "consume", msg |-> m, st |-> "PENDING", rowid |-> id]
<1>1. /\ requests \in Seq(Request) /\ requests' = Append(requests, e)
      /\ e.op = "insert" /\ e.by = "consume" /\ e.msg = m
  BY DEF Submit, TypeOK
<1> HIDE DEF e
<1>2. /\ DOMAIN requests' = 1..(Len(requests) + 1) /\ DOMAIN requests = 1..Len(requests)
      /\ Len(requests) \in Nat
      /\ requests'[Len(requests) + 1] = e
      /\ \A i \in DOMAIN requests : requests'[i] = requests[i]
  BY <1>1
<1>3. /\ \A i \in DOMAIN requests : requests[i].msg # m
      /\ \A i \in DOMAIN replies : replies[i].msg # m
      /\ m \notin begun
  BY DEF CallsInv, CallsSane, BegunIsSettled
<1>4. RowsKeyed' /\ BegunIsSettled'
  BY DEF CallsInv, RowsKeyed, Keyed, BegunIsSettled, NotPending, RowIn
<1>5. CallsSane'
  BY <1>1, <1>2 DEF CallsInv, CallsSane
<1>6. InsertFirst'
  BY <1>1, <1>2, <1>3 DEF CallsInv, InsertFirst
<1>7. StatementsTake'
  BY <1>1, <1>2 DEF CallsInv, StatementsTake, NotPending, RowIn
<1> QED
  BY <1>4, <1>5, <1>6, <1>7 DEF CallsInv

\* A statement touches one row: INSERT makes it the PENDING row of the message, UPDATE changes
\* the status of what is there, DELETE empties it.
LEMMA ExecuteEffect ==
    ASSUME NEW table \in Table, NEW r \in Request, r.op # "commit"
    PROVE  /\ Key(r.msg) \in Keys /\ r.msg \in Msgs
           /\ \A k \in Keys : k # Key(r.msg) => Execute(table, r)[k] = table[k]
           /\ r.op = "insert" => Execute(table, r)[Key(r.msg)].msg = r.msg
           /\ r.op = "set" => \/ table[Key(r.msg)] = NoRow /\ Execute(table, r) = table
                              \/ /\ table[Key(r.msg)] # NoRow
                                 /\ Execute(table, r)[Key(r.msg)].msg = table[Key(r.msg)].msg
                                 /\ Execute(table, r)[Key(r.msg)].st = r.st
           /\ r.op = "delete" => Execute(table, r)[Key(r.msg)] = NoRow
           /\ r.op \in {"insert", "set", "delete"}
<1>1. r.msg \in Msgs /\ r.op \in {"insert", "set", "delete"}
  BY DEF Request
<1>2. Key(r.msg) \in Keys
  BY <1>1 DEF Keys
<1> DEFINE k == Key(r.msg)
<1>3. \A q \in Keys : q # k => Execute(table, r)[q] = table[q]
  BY <1>1, <1>2 DEF Execute, Table
<1>4. CASE r.op = "insert"
  BY <1>1, <1>2, <1>3, <1>4 DEF Execute, Table
<1>5. CASE r.op = "delete"
  BY <1>1, <1>2, <1>3, <1>5 DEF Execute, Table
<1>6. CASE r.op = "set" /\ table[k] = NoRow
  BY <1>1, <1>2, <1>3, <1>6 DEF Execute, Table
<1>7. CASE r.op = "set" /\ table[k] # NoRow
  <2>1. table[k] \in Row
    BY <1>2, <1>7 DEF Table
  <2>2. Execute(table, r)[k] = [table[k] EXCEPT !.st = r.st]
    BY <1>2, <1>7 DEF Execute, Table
  <2> QED
    BY <1>1, <1>2, <1>3, <1>7, <2>1, <2>2 DEF Row
<1> QED
  BY <1>1, <1>4, <1>5, <1>6, <1>7

LEMMA CallOf == \A s \in Seq(Request) : \A i \in DOMAIN s : s[i] \in Request /\ s[i].msg \in Msgs
<1>1. \A s \in Seq(Request) : \A i \in DOMAIN s : s[i] \in Request
  OBVIOUS
<1> QED
  BY <1>1 DEF Request

\* The thread runs a statement.
LEMMA CallsRun ==
    ASSUME UniqueKeys, TypeOK, CallsInv, RunStatement
    PROVE  CallsInv'
<1> DEFINE r == Head(requests)
<1>1. /\ requests # <<>> /\ requests \in Seq(Request) /\ replies \in Seq(Request)
      /\ r.op # "commit" /\ r \in Request /\ db \in Table
      /\ requests' = Tail(requests) /\ replies' = Append(replies, r) /\ db' = Execute(db, r)
      /\ UNCHANGED <<disk, begun, arrived>>
  BY DEF RunStatement, TypeOK, intakeVars, historyVars
<1>2. /\ \A i \in DOMAIN requests' : /\ i + 1 \in DOMAIN requests /\ requests'[i] = requests[i + 1]
                                     /\ i \in Nat /\ i >= 1
      /\ 1 \in DOMAIN requests /\ r = requests[1]
  BY <1>1, TailOf
<1>3. /\ DOMAIN replies' = 1..(Len(replies) + 1) /\ DOMAIN replies = 1..Len(replies)
      /\ Len(replies) \in Nat
      /\ replies'[Len(replies) + 1] = r
      /\ \A i \in DOMAIN replies : replies'[i] = replies[i]
  BY <1>1
<1> HIDE DEF r
<1>4. /\ Key(r.msg) \in Keys /\ r.msg \in Msgs
      /\ \A k \in Keys : k # Key(r.msg) => db'[k] = db[k]
      /\ r.op = "insert" => db'[Key(r.msg)].msg = r.msg
      /\ r.op = "set" => \/ db[Key(r.msg)] = NoRow /\ db' = db
                         \/ /\ db[Key(r.msg)] # NoRow
                            /\ db'[Key(r.msg)].msg = db[Key(r.msg)].msg
                            /\ db'[Key(r.msg)].st = r.st
      /\ r.op = "delete" => db'[Key(r.msg)] = NoRow
      /\ r.op \in {"insert", "set", "delete"}
  BY <1>1, ExecuteEffect
\* The only message a statement can make PENDING is the one an INSERT is about.
<1>5. /\ r.msg \in arrived
      /\ r.op = "set" => r.st # "PENDING"
  BY <1>2 DEF CallsInv, CallsSane
<1>6. \A m \in Msgs : NotPending(db, m) /\ ~(r.op = "insert" /\ m = r.msg) => NotPending(db', m)
  BY <1>4, <1>5 DEF UniqueKeys, NotPending, RowIn, Keys
<1>7. r.op # "insert" => NotPending(db', r.msg)
  BY <1>4, <1>5 DEF NotPending, RowIn
<1>8. r.op = "insert" => /\ r.msg \notin begun /\ r.by = "consume"
                         /\ \A j \in DOMAIN requests : requests[j].by = "egress" /\ requests[j].msg = r.msg
                                => requests[j].op # "commit"
                         /\ \A j \in DOMAIN replies : ~(replies[j].by = "egress" /\ replies[j].msg = r.msg)
  BY <1>2 DEF CallsInv, InsertFirst
<1>9. RowsKeyed'
  BY <1>1, <1>4, <1>5 DEF CallsInv, RowsKeyed, Keyed
<1>10. BegunIsSettled'
  BY <1>1, <1>6, <1>8 DEF CallsInv, BegunIsSettled, TypeOK
<1>11. CallsSane'
  BY <1>1, <1>2, <1>3, <1>5 DEF CallsInv, CallsSane
<1>12. InsertFirst'
  <2> SUFFICES ASSUME NEW i \in DOMAIN requests', requests'[i].op = "insert"
               PROVE  LET m == requests'[i].msg IN
                      /\ m \notin begun' /\ requests'[i].by = "consume"
                      /\ \A j \in DOMAIN requests' :
                            requests'[j].by = "egress" /\ requests'[j].msg = m
                                => i < j /\ requests'[j].op # "commit"
                      /\ \A j \in DOMAIN replies' : ~(replies'[j].by = "egress" /\ replies'[j].msg = m)
    BY DEF InsertFirst
  <2> DEFINE m == requests'[i].msg
  <2>1. /\ i + 1 \in DOMAIN requests /\ requests[i + 1].op = "insert" /\ requests[i + 1].msg = m
        /\ i \in Nat /\ i >= 1
    BY <1>2
  <2>2. /\ m \notin begun /\ requests[i + 1].by = "consume"
        /\ \A j \in DOMAIN requests : requests[j].by = "egress" /\ requests[j].msg = m
                => i + 1 < j /\ requests[j].op # "commit"
        /\ \A j \in DOMAIN replies : ~(replies[j].by = "egress" /\ replies[j].msg = m)
    BY <2>1 DEF CallsInv, InsertFirst
  <2>3. ~(r.by = "egress" /\ r.msg = m)
    BY <1>2, <2>1, <2>2
  <2>4. \A j \in DOMAIN requests' : requests'[j].by = "egress" /\ requests'[j].msg = m
                => i < j /\ requests'[j].op # "commit"
    BY <1>2, <2>1, <2>2
  <2>5. \A j \in DOMAIN replies' : ~(replies'[j].by = "egress" /\ replies'[j].msg = m)
    BY <1>3, <2>2, <2>3
  <2> QED
    BY <1>1, <1>2, <2>2, <2>4, <2>5
<1>13. StatementsTake'
  <2>1. \A i \in DOMAIN requests : requests[i].msg \in Msgs
    BY <1>1, CallOf
  <2>2. \A i \in DOMAIN replies : replies[i].msg \in Msgs
    BY <1>1, CallOf
  <2>3. \A i \in DOMAIN requests' : requests'[i].by = "egress" /\ requests'[i].op = "commit"
            => NotPending(db', requests'[i].msg)
    BY <1>2, <1>6, <1>8, <2>1 DEF CallsInv, StatementsTake
  <2>4. \A i \in DOMAIN replies : replies[i].by = "egress"
            => /\ NotPending(db', replies[i].msg)
               /\ replies[i].op = "commit" => NotPending(disk, replies[i].msg)
    BY <1>6, <1>8, <2>2 DEF CallsInv, StatementsTake
  <2>5. r.by = "egress" => NotPending(db', r.msg) /\ r.op # "commit"
    BY <1>1, <1>7, <1>8
  <2>6. \A m \in Msgs : NotPending(disk, m) => NotPending(disk', m)
    BY <1>1 DEF NotPending, RowIn
  <2> QED
    BY <1>3, <1>4, <2>2, <2>3, <2>4, <2>5, <2>6 DEF StatementsTake
<1> QED
  BY <1>9, <1>10, <1>11, <1>12, <1>13 DEF CallsInv

\* The thread commits: what the transaction says becomes what the disk says.
LEMMA CallsCommit ==
    ASSUME TypeOK, CallsInv, RunCommit
    PROVE  CallsInv'
<1> DEFINE r == Head(requests)
<1>1. /\ requests # <<>> /\ requests \in Seq(Request) /\ replies \in Seq(Request)
      /\ r.op = "commit"
      /\ requests' = Tail(requests) /\ replies' = Append(replies, r) /\ disk' = db
      /\ UNCHANGED <<db, begun, arrived>>
  BY DEF RunCommit, TypeOK, intakeVars, historyVars
<1>2. /\ \A i \in DOMAIN requests' : /\ i + 1 \in DOMAIN requests /\ requests'[i] = requests[i + 1]
                                     /\ i \in Nat /\ i >= 1
      /\ 1 \in DOMAIN requests /\ r = requests[1]
  BY <1>1, TailOf
<1>3. /\ DOMAIN replies' = 1..(Len(replies) + 1) /\ DOMAIN replies = 1..Len(replies)
      /\ Len(replies) \in Nat
      /\ replies'[Len(replies) + 1] = r
      /\ \A i \in DOMAIN replies : replies'[i] = replies[i]
  BY <1>1
<1> HIDE DEF r
<1>4. RowsKeyed' /\ BegunIsSettled'
  BY <1>1 DEF CallsInv, RowsKeyed, Keyed, BegunIsSettled, NotPending, RowIn
<1>5. CallsSane'
  BY <1>1, <1>2, <1>3 DEF CallsInv, CallsSane
<1>6. InsertFirst'
  BY <1>1, <1>2, <1>3 DEF CallsInv, InsertFirst
<1>7. StatementsTake'
  BY <1>1, <1>2, <1>3 DEF CallsInv, StatementsTake, NotPending, RowIn
<1> QED
  BY <1>4, <1>5, <1>6, <1>7 DEF CallsInv

\* The task whose statement has run asks for its COMMIT.
LEMMA CallsResume ==
    ASSUME TypeOK, CallsInv, ResumeStatement
    PROVE  CallsInv'
<1> DEFINE r == Head(replies)
           e == [r EXCEPT !.op = "commit"]
<1>1. /\ replies # <<>> /\ requests \in Seq(Request) /\ replies \in Seq(Request)
      /\ r \in Request
      /\ requests' = Append(requests, e) /\ replies' = Tail(replies)
      /\ UNCHANGED <<db, disk, begun, arrived>>
  BY DEF ResumeStatement, TypeOK, intakeVars, historyVars
<1>2. e.op = "commit" /\ e.by = r.by /\ e.msg = r.msg
  BY <1>1 DEF Request
<1>3. /\ \A i \in DOMAIN replies' : i + 1 \in DOMAIN replies /\ replies'[i] = replies[i + 1]
      /\ 1 \in DOMAIN replies /\ r = replies[1]
  BY <1>1, TailOf
<1> HIDE DEF r, e
<1>4. /\ DOMAIN requests' = 1..(Len(requests) + 1) /\ DOMAIN requests = 1..Len(requests)
      /\ Len(requests) \in Nat
      /\ requests'[Len(requests) + 1] = e
      /\ \A i \in DOMAIN requests : requests'[i] = requests[i]
  BY <1>1
<1>5. RowsKeyed' /\ BegunIsSettled'
  BY <1>1 DEF CallsInv, RowsKeyed, Keyed, BegunIsSettled, NotPending, RowIn
<1>6. CallsSane'
  BY <1>1, <1>2, <1>3, <1>4 DEF CallsInv, CallsSane
<1>7. InsertFirst'
  BY <1>1, <1>2, <1>3, <1>4 DEF CallsInv, InsertFirst
<1>8. StatementsTake'
  BY <1>1, <1>2, <1>3, <1>4 DEF CallsInv, StatementsTake, NotPending, RowIn
<1> QED
  BY <1>5, <1>6, <1>7, <1>8 DEF CallsInv

\* A crash leaves no call behind, and the transaction starts again from the disk.
LEMMA CallsCrash == ASSUME CallsInv, Crash PROVE CallsInv'
BY DEF Crash, CallsInv, RowsKeyed, Keyed, CallsSane, InsertFirst, StatementsTake, BegunIsSettled,
       NotPending, RowIn, historyVars

---------------------------------------------------------------------------
(* The places: where a message waits or is handled.                        *)

\* A step that takes no message and puts none anywhere; a worker may finish with its own.
LEMMA PlaceQuiet ==
    ASSUME PlaceInv, UNCHANGED <<phase, queue>>, orphans' \subseteq orphans, arrived \subseteq arrived',
           \A n \in Nodes : worker'[n] # "idle" => worker[n] # "idle" /\ held'[n] = held[n]
    PROVE  PlaceInv'
<1>1. Phases'
  BY DEF PlaceInv, Phases
<1>2. WaitsOnce'
  BY DEF PlaceInv, WaitsOnce
<1>3. OrphansApart'
  BY DEF PlaceInv, OrphansApart
<1> QED
  BY <1>1, <1>2, <1>3 DEF PlaceInv

\* The worker takes the head of its queue.
LEMMA PlaceTake ==
    ASSUME TypeOK, PlaceInv, NEW n \in Nodes, NEW m \in Msgs, NEW w \in WorkerStates, Take(n, m),
           worker' = [worker EXCEPT ![n] = w], UNCHANGED <<phase, orphans, arrived>>
    PROVE  PlaceInv'
<1>1. /\ phase = "up" /\ worker[n] = "idle" /\ queue[n] # <<>> /\ m = Head(queue[n])
      /\ queue' = [queue EXCEPT ![n] = Tail(@)] /\ held' = [held EXCEPT ![n] = m]
      /\ queue \in [Nodes -> Seq(Msgs)] /\ held \in [Nodes -> Msgs \cup {NoMsg}]
      /\ worker \in [Nodes -> WorkerStates]
  BY DEF Take, TypeOK
<1>2. /\ \A i \in DOMAIN queue'[n] : i + 1 \in DOMAIN queue[n] /\ queue'[n][i] = queue[n][i + 1]
                                     /\ i \in Nat /\ i >= 1
      /\ 1 \in DOMAIN queue[n] /\ m = queue[n][1]
  BY <1>1, TailOf
<1>3. \A k \in Nodes \ {n} : queue'[k] = queue[k] /\ held'[k] = held[k] /\ worker'[k] = worker[k]
  BY <1>1
<1>4. held'[n] = m /\ queue'[n] = Tail(queue[n])
  BY <1>1
<1>5. Phases'
  BY <1>1 DEF PlaceInv, Phases
<1>6. WaitsOnce'
  BY <1>1, <1>2, <1>3, <1>4 DEF PlaceInv, WaitsOnce
<1>7. OrphansApart'
  BY <1>1 DEF PlaceInv, Phases, OrphansApart
<1> QED
  BY <1>5, <1>6, <1>7 DEF PlaceInv

\* A message that waits nowhere and is not being handled is put at the end of its node's line.
LEMMA PlacePut ==
    ASSUME TypeOK, PlaceInv, NEW m \in Msgs, arrived \subseteq arrived', m \in arrived',
           queue' = [queue EXCEPT ![Target[m]] = Append(@, m)],
           UNCHANGED <<phase, worker, held>>, phase # "down",
           orphans' \subseteq orphans, \A r \in orphans' : r.msg # m,
           \A n \in Nodes : \A i \in DOMAIN queue[n] : queue[n][i] # m,
           \A n \in Nodes : worker[n] # "idle" => held[n] # m
    PROVE  PlaceInv'
<1> DEFINE n == Target[m]
<1>1. n \in Nodes /\ queue \in [Nodes -> Seq(Msgs)]
  BY PipelineAssumption DEF TypeOK
<1>2. /\ queue'[n] = Append(queue[n], m) /\ queue[n] \in Seq(Msgs)
      /\ \A k \in Nodes \ {n} : queue'[k] = queue[k]
  BY <1>1
<1>3. /\ DOMAIN queue'[n] = 1..(Len(queue[n]) + 1) /\ DOMAIN queue[n] = 1..Len(queue[n])
      /\ Len(queue[n]) \in Nat
      /\ queue'[n][Len(queue[n]) + 1] = m
      /\ \A i \in DOMAIN queue[n] : queue'[n][i] = queue[n][i]
  BY <1>2
<1> HIDE DEF n
<1>4. Phases'
  BY DEF PlaceInv, Phases
<1>5. \A k \in Nodes : \A i \in DOMAIN queue'[k] :
        \/ i \in DOMAIN queue[k] /\ queue'[k][i] = queue[k][i]
        \/ k = n /\ i = Len(queue[n]) + 1 /\ queue'[k][i] = m
  BY <1>2, <1>3
<1>6. WaitsOnce'
  BY <1>1, <1>5 DEF PlaceInv, WaitsOnce, n
<1>7. OrphansApart'
  BY <1>5 DEF PlaceInv, OrphansApart
<1> QED
  BY <1>4, <1>6, <1>7 DEF PlaceInv

---------------------------------------------------------------------------
(* What has begun is not queued again.                                     *)

\* A step that queues nothing and begins nothing keeps it so.
LEMMA OnceQuiet ==
    ASSUME NeverRequeued, UNCHANGED <<begun, disk>>, orphans' \subseteq orphans,
           \A n \in Nodes : \A i \in DOMAIN queue'[n] :
                \E j \in DOMAIN queue[n] : queue'[n][i] = queue[n][j]
    PROVE  NeverRequeued'
BY DEF NeverRequeued, InQueue, RowIn

\* After a put, a queue holds what it held before, or the new message.
LEMMA QueuedBy ==
    ASSUME TypeOK, NEW m \in Msgs, queue' = [queue EXCEPT ![Target[m]] = Append(@, m)]
    PROVE  \A n \in Nodes : \A i \in DOMAIN queue'[n] :
                queue'[n][i] = m \/ \E j \in DOMAIN queue[n] : queue'[n][i] = queue[n][j]
<1>1. Target[m] \in Nodes /\ queue \in [Nodes -> Seq(Msgs)]
  BY PipelineAssumption DEF TypeOK
<1> DEFINE q == queue[Target[m]]
<1>2. /\ queue'[Target[m]] = Append(q, m) /\ q \in Seq(Msgs)
      /\ \A k \in Nodes \ {Target[m]} : queue'[k] = queue[k]
  BY <1>1
<1>3. \A i \in DOMAIN Append(q, m) : Append(q, m)[i] = m \/ (i \in DOMAIN q /\ Append(q, m)[i] = q[i])
  BY <1>2
<1> QED
  BY <1>2, <1>3

LEMMA InitOnce == Init => OnceInv
BY DEF Init, OnceInv, CallsInv, PlaceInv, RowsKeyed, Keyed, Phases, WaitsOnce, OrphansApart,
       CallsSane, InsertFirst, StatementsTake, BegunIsSettled, NeverRequeued, NotPending, RowIn,
       InQueue, EmptyTable

LEMMA StepOnce == ASSUME UniqueKeys, Typed, Typed', OnceInv, [Next]_vars PROVE OnceInv'
<1> USE DEF OnceInv, Typed, vars, processVars, intakeVars, queueVars, workerVars, journalVars,
            historyVars
<1>1. ASSUME RunStatement PROVE OnceInv'
  BY <1>1, CallsRun, PlaceQuiet, OnceQuiet DEF RunStatement
<1>2. ASSUME RunCommit PROVE OnceInv'
  <2>1. CallsInv' /\ PlaceInv'
    BY <1>2, CallsCommit, PlaceQuiet DEF RunCommit
  <2>2. NeverRequeued'
    BY <1>2 DEF RunCommit, CallsInv, BegunIsSettled, NotPending, NeverRequeued, InQueue, RowIn
  <2> QED
    BY <2>1, <2>2
<1>3. ASSUME ResumeStatement PROVE OnceInv'
  BY <1>3, CallsResume, PlaceQuiet, OnceQuiet DEF ResumeStatement
<1>4. ASSUME Crash PROVE OnceInv'
  <2>1. PlaceInv'
    BY <1>4 DEF Crash, PlaceInv, Phases, WaitsOnce, OrphansApart
  <2>2. NeverRequeued'
    BY <1>4 DEF Crash, NeverRequeued, InQueue, RowIn
  <2> QED
    BY <1>4, <2>1, <2>2, CallsCrash
<1>5. ASSUME Start PROVE OnceInv'
  <2>1. CallsInv'
    BY <1>5, CallsIdle DEF Start
  <2>2. \A r \in orphans' : \E k \in Keys : /\ r = disk[k] /\ disk[k] # NoRow
                                            /\ Key(r.msg) = k /\ r.msg \in arrived
    BY <1>5 DEF Start, CallsInv, RowsKeyed, Keyed
  <2>3. \A n \in Nodes : queue[n] = <<>> /\ worker[n] = "idle"
    BY <1>5 DEF Start, PlaceInv, Phases
  <2>4. Phases' /\ WaitsOnce'
    BY <1>5, <2>3 DEF Start, Phases, WaitsOnce
  <2>5. OrphansApart'
    BY <1>5, <2>2, <2>3 DEF Start, OrphansApart
  <2>6. NeverRequeued'
    <3>1. \A r \in orphans' : r.msg \in begun => r.st # "PENDING"
      BY <2>2 DEF NeverRequeued, RowIn
    <3> QED
      BY <1>5, <3>1 DEF Start, NeverRequeued, InQueue, RowIn
  <2> QED
    BY <2>1, <2>4, <2>5, <2>6 DEF PlaceInv
<1>6. ASSUME Open PROVE OnceInv'
  <2>1. CallsInv'
    BY <1>6, CallsIdle DEF Open
  <2>2. PlaceInv'
    BY <1>6 DEF Open, PlaceInv, Phases, WaitsOnce, OrphansApart
  <2>3. NeverRequeued'
    BY <1>6, OnceQuiet DEF Open
  <2> QED
    BY <2>1, <2>2, <2>3
<1>7. ASSUME NEW m \in Msgs, Refuse(m) \/ Overload(m) PROVE OnceInv'
  BY <1>7, CallsIdle, PlaceQuiet, OnceQuiet DEF Refuse, Overload, Arrives
<1>8. ASSUME NEW m \in Msgs, Enqueue(m) PROVE OnceInv'
  <2>1. /\ m \notin arrived /\ arrived' = arrived \cup {m} /\ phase = "up"
        /\ queue' = [queue EXCEPT ![Target[m]] = Append(@, m)]
        /\ UNCHANGED <<phase, orphans, worker, held, replies, db, disk, begun>>
        /\ Submit("insert", "consume", m, "PENDING", Len(admitted))
    BY <1>8 DEF Enqueue, Arrives
  <2>2. Len(admitted) \in Nat
    BY DEF TypeOK
  <2>3. CallsInv'
    BY <2>1, <2>2, CallsEnqueue
  <2>4. /\ \A n \in Nodes : \A i \in DOMAIN queue[n] : queue[n][i] # m
        /\ \A n \in Nodes : worker[n] # "idle" => held[n] # m
        /\ orphans = {}
    BY <2>1 DEF PlaceInv, WaitsOnce, Phases
  <2>5. PlaceInv'
    BY <2>1, <2>4, PlacePut
  <2>6. m \notin begun
    BY <2>1 DEF CallsInv, BegunIsSettled
  <2>7. \A b \in begun : ~InQueue(b)'
    <3>1. \A n \in Nodes : \A i \in DOMAIN queue'[n] :
            queue'[n][i] = m \/ \E j \in DOMAIN queue[n] : queue'[n][i] = queue[n][j]
      BY <2>1, QueuedBy
    <3> QED
      BY <2>6, <3>1 DEF NeverRequeued, InQueue
  <2>8. NeverRequeued'
    BY <2>1, <2>7 DEF NeverRequeued, RowIn
  <2> QED
    BY <2>3, <2>5, <2>8
<1>9. ASSUME NEW m \in Msgs, PendingRecorded(m) PROVE OnceInv'
  BY <1>9, CallsReturn, PlaceQuiet, OnceQuiet, ReturnedTyped DEF PendingRecorded, TypeOK
<1>10. ASSUME NEW m \in Msgs, Expire(m) PROVE OnceInv'
  BY <1>10, CallsIdle, PlaceQuiet, OnceQuiet DEF Expire
<1>11. ASSUME NEW n \in Nodes, TakeStale(n) \/ TakeFresh(n) PROVE OnceInv'
  <2>1. PICK m \in Msgs, st \in {"REJECTED", "TRANSMITTING"}, w \in {"expiring", "marking"} :
          /\ Take(n, m) /\ Submit("set", "egress", m, st, 0)
          /\ worker' = [worker EXCEPT ![n] = w]
          /\ UNCHANGED <<processVars, intakeVars, replies, db, disk, historyVars>>
    BY <1>11 DEF TakeStale, TakeFresh, TypeOK
  <2>2. /\ queue[n] # <<>> /\ m = Head(queue[n]) /\ queue' = [queue EXCEPT ![n] = Tail(@)]
        /\ queue \in [Nodes -> Seq(Msgs)]
    BY <2>1 DEF Take, TypeOK
  <2>3. /\ \A i \in DOMAIN queue'[n] : i + 1 \in DOMAIN queue[n] /\ queue'[n][i] = queue[n][i + 1]
        /\ 1 \in DOMAIN queue[n] /\ m = queue[n][1]
        /\ \A k \in Nodes \ {n} : queue'[k] = queue[k]
    BY <2>2, TailOf
  <2>4. m \in arrived
    BY <2>3 DEF PlaceInv, WaitsOnce
  <2>5. CallsInv'
    BY <2>1, <2>4, CallsSubmit DEF Statuses
  <2>6. PlaceInv'
    BY <2>1, PlaceTake DEF WorkerStates
  <2>7. NeverRequeued'
    BY <2>1, <2>3, OnceQuiet
  <2> QED
    BY <2>5, <2>6, <2>7
<1>12. ASSUME NEW n \in Nodes,
              ExpiryRecorded(n) \/ FailureRecorded(n) \/ SentRecorded(n) \/ Pruned(n)
       PROVE  OnceInv'
  <2>1. /\ Returned("egress", held[n]) /\ worker[n] # "idle"
        /\ UNCHANGED <<processVars, intakeVars, queueVars, requests, historyVars, disk>>
        /\ \A k \in Nodes : worker'[k] # "idle" => worker[k] # "idle" /\ held'[k] = held[k]
    BY <1>12 DEF ExpiryRecorded, FailureRecorded, SentRecorded, Pruned, TypeOK, Returned
  <2> QED
    BY <2>1, CallsReturn, PlaceQuiet, OnceQuiet
<1>13. ASSUME NEW n \in Nodes, TransmittingRecorded(n) PROVE OnceInv'
  <2>1. /\ Returned("egress", held[n]) /\ worker[n] # "idle" /\ held[n] \in Msgs
        /\ UNCHANGED <<processVars, intakeVars, queueVars, requests, disk>>
        /\ begun' = begun \cup {held[n]}
        /\ \A k \in Nodes : worker'[k] # "idle" => worker[k] # "idle" /\ held'[k] = held[k]
    BY <1>13 DEF TransmittingRecorded, TypeOK, WorkerHolds, Returned
  <2>2. CallsInv' /\ NotPending(disk, held[n])
    BY <2>1, CallsBegin
  <2>3. PlaceInv'
    BY <2>1, PlaceQuiet
  <2>4. ~InQueue(held[n]) /\ orphans = {}
    BY <2>1 DEF PlaceInv, WaitsOnce, Phases, InQueue
  <2>5. NeverRequeued'
    BY <2>1, <2>2, <2>4 DEF NeverRequeued, NotPending, InQueue, RowIn
  <2> QED
    BY <2>2, <2>3, <2>5
<1>14. ASSUME NEW n \in Nodes, SendOk(n) \/ SendFailed(n) \/ Prune(n) PROVE OnceInv'
  <2>1. PICK op \in {"set", "delete"}, st \in {"SENT", "FAILED"} :
          /\ Submit(op, "egress", held[n], st, 0) /\ worker[n] # "idle"
          /\ UNCHANGED <<processVars, intakeVars, queueVars, held, replies, db, disk, historyVars>>
          /\ \A k \in Nodes : worker'[k] # "idle" => worker[k] # "idle"
    BY <1>14 DEF SendOk, SendFailed, Prune, TypeOK
  <2>2. held[n] \in arrived /\ held[n] \in Msgs
    BY <2>1 DEF PlaceInv, WaitsOnce, WorkerHolds
  <2>3. CallsInv'
    BY <2>1, <2>2, CallsSubmit DEF Statuses
  <2> QED
    BY <2>1, <2>3, PlaceQuiet, OnceQuiet
<1>15. ASSUME NEW n \in Nodes, SendBusy(n) \/ Retry(n) \/ Mirror(n) \/ Refill(n) PROVE OnceInv'
  <2>1. /\ UNCHANGED <<processVars, intakeVars, queue, held, requests, replies, db, disk, begun>>
        /\ \A k \in Nodes : worker'[k] # "idle" => worker[k] # "idle"
    BY <1>15 DEF SendBusy, Retry, Mirror, Refill, TypeOK
  <2> QED
    BY <2>1, CallsIdle, PlaceQuiet, OnceQuiet
<1>16. ASSUME NEW r \in orphans, RecoverTransmitting(r) PROVE OnceInv'
  <2>1. r.msg \in arrived /\ r.msg \in Msgs
    BY DEF PlaceInv, OrphansApart, TypeOK, Row
  <2>2. CallsInv'
    BY <1>16, <2>1, CallsSubmit DEF RecoverTransmitting, Statuses
  <2> QED
    BY <1>16, <2>2, PlaceQuiet, OnceQuiet DEF RecoverTransmitting
<1>17. ASSUME NEW r \in orphans, UnknownRecorded(r) PROVE OnceInv'
  BY <1>17, CallsReturn, PlaceQuiet, OnceQuiet, ReturnedTyped DEF UnknownRecorded, TypeOK
<1>18. ASSUME NEW r \in orphans, RecoverPending(r) PROVE OnceInv'
  <2>1. /\ r.st = "PENDING" /\ phase = "recovering" /\ orphans' = orphans \ {r}
        /\ UNCHANGED <<phase, intakeVars, workerVars, journalVars, historyVars>>
        /\ \/ queue' = queue
           \/ queue' = [queue EXCEPT ![Target[r.msg]] = Append(@, r.msg)]
    BY <1>18 DEF RecoverPending, NextOrphan
  <2>2. r.msg \in Msgs /\ r.msg \in arrived
    BY DEF PlaceInv, OrphansApart, TypeOK, Row
  <2>3. CallsInv'
    BY <2>1, CallsIdle
  <2>4. CASE queue' = queue
    BY <2>1, <2>3, <2>4, PlaceQuiet, OnceQuiet
  <2>5. CASE queue' = [queue EXCEPT ![Target[r.msg]] = Append(@, r.msg)]
    <3>1. /\ \A q \in orphans' : q.msg # r.msg
          /\ \A n \in Nodes : \A i \in DOMAIN queue[n] : queue[n][i] # r.msg
          /\ \A n \in Nodes : worker[n] = "idle"
      BY <2>1 DEF PlaceInv, OrphansApart, Phases
    <3>2. PlaceInv'
      BY <2>1, <2>2, <2>5, <3>1, PlacePut
    <3>3. r.msg \notin begun
      BY <2>1 DEF NeverRequeued
    <3>4. \A n \in Nodes : \A i \in DOMAIN queue'[n] :
            queue'[n][i] = r.msg \/ \E j \in DOMAIN queue[n] : queue'[n][i] = queue[n][j]
      BY <2>2, <2>5, QueuedBy
    <3>5. NeverRequeued'
      BY <2>1, <3>3, <3>4 DEF NeverRequeued, InQueue, RowIn
    <3> QED
      BY <2>3, <3>2, <3>5
  <2> QED
    BY <2>1, <2>4, <2>5
<1>19. ASSUME NEW r \in orphans, RecoverVanished(r) PROVE OnceInv'
  BY <1>19, CallsIdle, PlaceQuiet, OnceQuiet DEF RecoverVanished
<1>20. CASE UNCHANGED vars
  BY <1>20, CallsIdle, PlaceQuiet, OnceQuiet
<1> QED
  BY <1>1, <1>2, <1>3, <1>4, <1>5, <1>6, <1>7, <1>8, <1>9, <1>10, <1>11, <1>12, <1>13, <1>14,
     <1>15, <1>16, <1>17, <1>18, <1>19, <1>20
  DEF Next, Journal, Intake, Radio, Worker, Recovery

\* At most once: when journal keys are unique, a message whose transmission has begun is never
\* queued again, by the running process or by recovery, however often the process dies.
THEOREM AtMostOnce == ASSUME UniqueKeys PROVE Spec => []NeverRequeued
<1>1. Typed /\ OnceInv /\ [Next]_vars => (Typed /\ OnceInv)'
  BY StepTyped, StepOnce
<1>2. OnceInv => NeverRequeued
  BY DEF OnceInv
<1> QED
  BY InitTyped, InitOnce, <1>1, <1>2, PTL DEF Spec
=============================================================================
