--------------------------- MODULE CommitPipeline ---------------------------
(***************************************************************************)
(* The path of a message into the air: admission into a node's bounded     *)
(* queue, the single egress worker of the node, the write-ahead journal,   *)
(* the statuses reported to the sender, and recovery after a restart.      *)
(*                                                                         *)
(* Sources: core/bridge.py, core/queue.py, core/egress.py,                 *)
(* core/journal.py, core/ratelimit.py and recover() of app.py.             *)
(*                                                                         *)
(* Granularity.  The program is one asyncio loop and one SQLite thread.  A *)
(* step of the loop is what a task does between two suspensions.  A        *)
(* journal call suspends twice: for its statement and for its COMMIT.      *)
(* aiosqlite hands both to its thread in the order they were submitted     *)
(* (requests), and the loop resumes the callers in the order the thread    *)
(* finished (replies).  The connection has ONE transaction: a COMMIT by    *)
(* one task makes the statements of all tasks durable.                     *)
(***************************************************************************)
EXTENDS Naturals, Sequences

CONSTANTS
    Msgs,        \* the messages that may arrive
    NoMsg,       \* no message (an idle task)
    NoRow,       \* no row (an unused journal key)
    Messengers,  \* messenger transports (bots)
    Nodes,       \* LoRa nodes, each with its own queue and worker
    Configs,     \* the sets of nodes a start of the process may be configured with
    Source,      \* [Msgs -> Messengers \cup Nodes], the transport a message came in on
    NativeId,    \* [Msgs -> native ids], the id the source gave it
    Target,      \* [Msgs -> Nodes], the room's LoRa member other than the source
    Room,        \* [Msgs -> sets of messenger chats], the room's messengers but the origin chat
    Refused,     \* messages turned away at admission: read-only, policy, too long
    Capacity,    \* the bound of a queue (wiring.py QUEUE_CAPACITY)
    Burst,       \* the size of a node's token bucket
    BusyRetries, \* attempts while the radio answers "busy" (egress.py BUSY_RETRIES)
    MaxCrashes   \* bound on restarts

ASSUME PipelineAssumption ==
    /\ NoMsg \notin Msgs
    /\ Messengers \cap Nodes = {}
    /\ Source \in [Msgs -> Messengers \cup Nodes]
    /\ Target \in [Msgs -> Nodes]
    /\ Configs \subseteq SUBSET Nodes
    /\ Refused \subseteq Msgs
    /\ Capacity \in Nat \ {0}
    /\ Burst \in Nat \ {0}
    /\ BusyRetries \in Nat \ {0}
    /\ MaxCrashes \in Nat

Transports == Messengers \cup Nodes
FromMessenger(m) == Source[m] \in Messengers

\* QueueItem.msg_key: the transport and the native id; the chat is not part of it.
Key(m) == <<Source[m], NativeId[m]>>
Keys == {Key(m) : m \in Msgs}

\* Every chat a message can be copied to.
Chats == UNION {Room[m] : m \in Msgs}

Statuses == {"PENDING", "TRANSMITTING", "SENT", "FAILED", "REJECTED", "UNKNOWN"}
Terminal == {"SENT", "FAILED", "REJECTED", "UNKNOWN"}

\* rowid orders the rows as the unsorted SELECT of recover() returns them.
Row == [msg : Msgs, st : Statuses, rowid : Nat]
Table == [Keys -> Row \cup {NoRow}]

ASSUME RowAssumption == NoRow \notin Row

WorkerStates == {"idle", "marking", "sending", "backoff", "committing",
                 "failing", "expiring", "mirroring", "pruning"}

\* A request to the SQLite thread: a statement, or the COMMIT that follows it.
Request == [op : {"insert", "set", "delete", "commit"},
            by : {"consume", "egress", "recover"},
            msg : Msgs, st : Statuses, rowid : Nat]

VARIABLES
    phase,      \* "down", "recovering" (app.recover) or "up" (bridge.run)
    conf,       \* the nodes of the configuration the process was started with
    life,       \* how many times the process has died
    arrived,    \* the messages the sources have delivered
    admitted,   \* history: the messages the queues accepted, in that order; its length is the next rowid
    queue,      \* [Nodes -> Seq(Msgs)], CommitQueue
    tokens,     \* [Nodes -> 0..Burst], TokenBucket
    stale,      \* queued messages whose age exceeds the queue TTL
    consumer,   \* [Transports -> message being journalled by Bridge.consume, or NoMsg]
    worker,     \* [Nodes -> WorkerStates], where RadioWorker is suspended
    held,       \* [Nodes -> message in the hands of the worker, or NoMsg]
    attempt,    \* [Nodes -> attempts already answered "busy"]
    toMirror,   \* [Nodes -> chats the committed message is still to be copied to]
    orphans,    \* rows recover() has read and not yet dealt with
    requests,   \* statements and COMMITs submitted to the SQLite thread
    replies,    \* those the thread has finished and the loop has not resumed
    db,         \* the table as the connection's open transaction sees it
    disk,       \* the table as committed, all that survives a crash
    shown,      \* [Msgs -> last status reported to the sender, or "none"]
    begun,      \* history: messages whose transmission has begun
    mirrored    \* history: [Msgs -> chats the message was copied to]

journalVars == <<requests, replies, db, disk>>
intakeVars == <<arrived, admitted, consumer>>
queueVars == <<queue, tokens, stale>>
workerVars == <<worker, held, attempt, toMirror>>
processVars == <<phase, conf, life, orphans>>
historyVars == <<begun, mirrored>>
vars == <<processVars, intakeVars, queueVars, workerVars, journalVars, shown, historyVars>>

InQueue(m) == \E n \in Nodes : \E i \in DOMAIN queue[n] : queue[n][i] = m

EmptyTable == [k \in Keys |-> NoRow]

Init ==
    /\ phase = "down" /\ conf = {} /\ life = 0 /\ orphans = {}
    /\ arrived = {} /\ admitted = <<>>
    /\ consumer = [t \in Transports |-> NoMsg]
    /\ queue = [n \in Nodes |-> <<>>]
    /\ tokens = [n \in Nodes |-> Burst]
    /\ stale = {}
    /\ worker = [n \in Nodes |-> "idle"]
    /\ held = [n \in Nodes |-> NoMsg]
    /\ attempt = [n \in Nodes |-> 0]
    /\ toMirror = [n \in Nodes |-> {}]
    /\ requests = <<>> /\ replies = <<>>
    /\ db = EmptyTable /\ disk = EmptyTable
    /\ shown = [m \in Msgs |-> "none"]
    /\ begun = {}
    /\ mirrored = [m \in Msgs |-> {}]

---------------------------------------------------------------------------
(* The SQLite thread and the resumption of its callers.                    *)

\* Mutant of Submit: the thread serves the latest caller first.
SubmitFirst(op, by, m, st, id) ==
    requests' = <<[op |-> op, by |-> by, msg |-> m, st |-> st, rowid |-> id]>> \o requests

\* A task submits a statement and suspends.
Submit(op, by, m, st, id) ==
    requests' = Append(requests, [op |-> op, by |-> by, msg |-> m, st |-> st, rowid |-> id])

\* INSERT OR REPLACE, UPDATE ... WHERE msg_key, DELETE ... WHERE msg_key.
Execute(table, r) ==
    LET k == Key(r.msg) IN
    CASE r.op = "insert" ->
            [table EXCEPT ![k] = [msg |-> r.msg, st |-> "PENDING", rowid |-> r.rowid]]
      [] r.op = "set" /\ table[k] # NoRow -> [table EXCEPT ![k].st = r.st]
      [] r.op = "delete" -> [table EXCEPT ![k] = NoRow]
      [] OTHER -> table

\* The thread runs its oldest statement inside the connection's transaction.
RunStatement ==
    /\ requests # <<>> /\ Head(requests).op # "commit"
    /\ db' = Execute(db, Head(requests))
    /\ requests' = Tail(requests)
    /\ replies' = Append(replies, Head(requests))
    /\ UNCHANGED <<disk, processVars, intakeVars, queueVars, workerVars, shown, historyVars>>

\* The thread runs a COMMIT: everything executed so far becomes durable.
RunCommit ==
    /\ requests # <<>> /\ Head(requests).op = "commit"
    /\ disk' = db
    /\ requests' = Tail(requests)
    /\ replies' = Append(replies, Head(requests))
    /\ UNCHANGED <<db, processVars, intakeVars, queueVars, workerVars, shown, historyVars>>

\* The task whose statement is done resumes and submits the COMMIT.
ResumeStatement ==
    /\ replies # <<>> /\ Head(replies).op # "commit"
    /\ replies' = Tail(replies)
    /\ requests' = Append(requests, [Head(replies) EXCEPT !.op = "commit"])
    /\ UNCHANGED <<db, disk, processVars, intakeVars, queueVars, workerVars, shown, historyVars>>

\* A journal call of `by` for message m has returned; its task resumes.
Returned(by, m) ==
    /\ replies # <<>>
    /\ Head(replies).op = "commit" /\ Head(replies).by = by /\ Head(replies).msg = m
    /\ replies' = Tail(replies)
    /\ UNCHANGED <<db, disk>>

\* StatusDispatcher.set: LoRa transports give no feedback.
Show(m, st) == shown' = IF FromMessenger(m) THEN [shown EXCEPT ![m] = st] ELSE shown

---------------------------------------------------------------------------
(* Intake: Bridge.consume, admit, route_from_lora, enqueue_to_lora.        *)

\* The consumer of the source transport is free, and m is its next message.
Arrives(m) ==
    /\ phase = "up"
    /\ m \in Msgs \ arrived
    /\ Target[m] \in conf
    /\ consumer[Source[m]] = NoMsg
    /\ Source[m] \in Nodes => Source[m] \in conf
    /\ arrived' = arrived \cup {m}

\* Read-only endpoint, admission policy or oversize text: no token is spent.
Refuse(m) ==
    /\ Arrives(m) /\ m \in Refused
    /\ Show(m, "REJECTED")
    /\ UNCHANGED <<processVars, admitted, consumer, queueVars, workerVars, journalVars, historyVars>>

HasRoom(n) == tokens[n] > 0 /\ Len(queue[n]) < Capacity

\* Mutant of TokensAfterPut: a token is taken without looking.
TokensAfterPutUnchecked(n) == [tokens EXCEPT ![n] = @ - 1]

\* The token is gone even when the queue turns out to be full.
TokensAfterPut(n) == [tokens EXCEPT ![n] = IF @ > 0 THEN @ - 1 ELSE 0]

\* Mutant of Enqueue: the sender is told before the journal.
EnqueueShownFirst(m) ==
    LET n == Target[m] IN
    /\ Arrives(m) /\ m \notin Refused /\ HasRoom(n)
    /\ tokens' = TokensAfterPut(n)
    /\ queue' = [queue EXCEPT ![n] = Append(@, m)]
    /\ admitted' = Append(admitted, m)
    /\ consumer' = [consumer EXCEPT ![Source[m]] = m]
    /\ Submit("insert", "consume", m, "PENDING", Len(admitted))
    /\ Show(m, "PENDING")
    /\ UNCHANGED <<processVars, stale, workerVars, replies, db, disk, historyVars>>

\* put_nowait succeeds; the INSERT is submitted in the same step of the loop.
Enqueue(m) ==
    LET n == Target[m] IN
    /\ Arrives(m) /\ m \notin Refused
    /\ HasRoom(n)
    /\ tokens' = TokensAfterPut(n)
    /\ queue' = [queue EXCEPT ![n] = Append(@, m)]
    /\ admitted' = Append(admitted, m)
    /\ consumer' = [consumer EXCEPT ![Source[m]] = m]
    /\ Submit("insert", "consume", m, "PENDING", Len(admitted))
    /\ UNCHANGED <<processVars, stale, workerVars, replies, db, disk, shown, historyVars>>

\* put_nowait fails: no token, or a full queue.
Overload(m) ==
    LET n == Target[m] IN
    /\ Arrives(m) /\ m \notin Refused
    /\ ~HasRoom(n)
    /\ tokens' = TokensAfterPut(n)
    /\ Show(m, "REJECTED")
    /\ UNCHANGED <<processVars, admitted, consumer, queue, stale, workerVars, journalVars,
                   historyVars>>

\* record_pending has returned: the sender sees the message accepted.
PendingRecorded(m) ==
    /\ Returned("consume", m)
    /\ consumer' = [consumer EXCEPT ![Source[m]] = NoMsg]
    /\ Show(m, "PENDING")
    /\ UNCHANGED <<processVars, arrived, admitted, queueVars, workerVars, requests, historyVars>>

\* Time passes: the bucket gains a token.
Refill(n) ==
    /\ phase # "down" /\ tokens[n] < Burst
    /\ tokens' = [tokens EXCEPT ![n] = @ + 1]
    /\ UNCHANGED <<processVars, intakeVars, queue, stale, workerVars, journalVars, shown,
                   historyVars>>

\* Time passes: a queued message outlives the queue TTL.
Expire(m) ==
    /\ InQueue(m) /\ m \notin stale
    /\ stale' = stale \cup {m}
    /\ UNCHANGED <<processVars, intakeVars, queue, tokens, workerVars, journalVars, shown,
                   historyVars>>

---------------------------------------------------------------------------
(* The egress worker of node n: RadioWorker.run, transmit, send_with_retry. *)

Take(n, m) ==
    /\ phase = "up" /\ n \in conf
    /\ worker[n] = "idle" /\ queue[n] # <<>> /\ m = Head(queue[n])
    /\ queue' = [queue EXCEPT ![n] = Tail(@)]
    /\ held' = [held EXCEPT ![n] = m]
    /\ stale' = stale \ {m}

\* The head of the queue is too old: it is terminal before it is ever tried.
TakeStale(n) ==
    \E m \in stale :
        /\ Take(n, m)
        /\ worker' = [worker EXCEPT ![n] = "expiring"]
        /\ Submit("set", "egress", m, "REJECTED", 0)
        /\ UNCHANGED <<processVars, intakeVars, tokens, attempt, toMirror, replies, db, disk,
                       shown, historyVars>>

\* on_reject, once the journal holds the verdict.
ExpiryRecorded(n) ==
    /\ worker[n] = "expiring"
    /\ Returned("egress", held[n])
    /\ Show(held[n], "REJECTED")
    /\ worker' = [worker EXCEPT ![n] = "idle"]
    /\ held' = [held EXCEPT ![n] = NoMsg]
    /\ UNCHANGED <<processVars, intakeVars, queueVars, attempt, toMirror, requests, historyVars>>

\* Mutant of TakeFresh: the journal call is not awaited.
TakeFreshUnawaited(n) ==
    \E m \in Msgs \ stale :
        /\ Take(n, m)
        /\ worker' = [worker EXCEPT ![n] = "sending"]
        /\ Submit("set", "egress", m, "TRANSMITTING", 0)
        /\ UNCHANGED <<processVars, intakeVars, tokens, attempt, toMirror, replies, db, disk,
                       shown, historyVars>>

\* transmit: the intention is journalled before the radio is touched.
TakeFresh(n) ==
    \E m \in Msgs \ stale :
        /\ Take(n, m)
        /\ worker' = [worker EXCEPT ![n] = "marking"]
        /\ Submit("set", "egress", m, "TRANSMITTING", 0)
        /\ UNCHANGED <<processVars, intakeVars, tokens, attempt, toMirror, replies, db, disk,
                       shown, historyVars>>

\* mark_transmitting has returned: transmission begins.
TransmittingRecorded(n) ==
    /\ worker[n] = "marking"
    /\ Returned("egress", held[n])
    /\ Show(held[n], "TRANSMITTING")
    /\ worker' = [worker EXCEPT ![n] = "sending"]
    /\ attempt' = [attempt EXCEPT ![n] = 0]
    /\ begun' = begun \cup {held[n]}
    /\ UNCHANGED <<processVars, intakeVars, queueVars, held, toMirror, requests, mirrored>>

\* Mutant of SendOk: the copies go out before the journal says SENT.
SendOkMirrorFirst(n) ==
    /\ worker[n] = "sending"
    /\ worker' = [worker EXCEPT ![n] = "mirroring"]
    /\ toMirror' = [toMirror EXCEPT ![n] = Room[held[n]]]
    /\ UNCHANGED <<processVars, intakeVars, queueVars, held, attempt, journalVars, shown,
                   historyVars>>

\* The radio took the packet.
SendOk(n) ==
    /\ worker[n] = "sending"
    /\ worker' = [worker EXCEPT ![n] = "committing"]
    /\ Submit("set", "egress", held[n], "SENT", 0)
    /\ UNCHANGED <<processVars, intakeVars, queueVars, held, attempt, toMirror, replies, db, disk,
                   shown, historyVars>>

\* Mutant of SendBusy: every "busy" is retried.
SendBusyUnbounded(n) ==
    /\ worker[n] = "sending"
    /\ worker' = [worker EXCEPT ![n] = "backoff"]
    /\ UNCHANGED <<processVars, intakeVars, queueVars, held, attempt, toMirror, journalVars, shown,
                   historyVars>>

\* "busy" with attempts left: wait and try again.
SendBusy(n) ==
    /\ worker[n] = "sending" /\ attempt[n] + 1 < BusyRetries
    /\ worker' = [worker EXCEPT ![n] = "backoff"]
    /\ attempt' = [attempt EXCEPT ![n] = @ + 1]
    /\ UNCHANGED <<processVars, intakeVars, queueVars, held, toMirror, journalVars, shown,
                   historyVars>>

Retry(n) ==
    /\ worker[n] = "backoff"
    /\ worker' = [worker EXCEPT ![n] = "sending"]
    /\ UNCHANGED <<processVars, intakeVars, queueVars, held, attempt, toMirror, journalVars,
                   shown, historyVars>>

\* Mutant of SendFailed: the failure is reported and not journalled.
SendFailedUnjournalled(n) ==
    /\ worker[n] = "sending"
    /\ Show(held[n], "FAILED")
    /\ worker' = [worker EXCEPT ![n] = "idle"]
    /\ held' = [held EXCEPT ![n] = NoMsg]
    /\ UNCHANGED <<processVars, intakeVars, queueVars, attempt, toMirror, journalVars, historyVars>>

\* An error, the commit timeout, or "busy" on the last attempt.
SendFailed(n) ==
    /\ worker[n] = "sending"
    /\ worker' = [worker EXCEPT ![n] = "failing"]
    /\ Submit("set", "egress", held[n], "FAILED", 0)
    /\ UNCHANGED <<processVars, intakeVars, queueVars, held, attempt, toMirror, replies, db, disk,
                   shown, historyVars>>

FailureRecorded(n) ==
    /\ worker[n] = "failing"
    /\ Returned("egress", held[n])
    /\ Show(held[n], "FAILED")
    /\ worker' = [worker EXCEPT ![n] = "idle"]
    /\ held' = [held EXCEPT ![n] = NoMsg]
    /\ UNCHANGED <<processVars, intakeVars, queueVars, attempt, toMirror, requests, historyVars>>

\* mark_terminal(SENT) has returned: report, then copy to the other chats.
SentRecorded(n) ==
    /\ worker[n] = "committing"
    /\ Returned("egress", held[n])
    /\ Show(held[n], "SENT")
    /\ worker' = [worker EXCEPT ![n] = "mirroring"]
    /\ toMirror' = [toMirror EXCEPT ![n] = IF FromMessenger(held[n]) THEN Room[held[n]] ELSE {}]
    /\ UNCHANGED <<processVars, intakeVars, queueVars, held, attempt, requests, historyVars>>

\* One copy, best effort: a failure is logged and swallowed.
Mirror(n) ==
    /\ worker[n] = "mirroring"
    /\ \E c \in toMirror[n], delivered \in BOOLEAN :
        /\ toMirror' = [toMirror EXCEPT ![n] = @ \ {c}]
        /\ mirrored' = IF delivered THEN [mirrored EXCEPT ![held[n]] = @ \cup {c}] ELSE mirrored
    /\ UNCHANGED <<processVars, intakeVars, queueVars, worker, held, attempt, journalVars, shown,
                   begun>>

Prune(n) ==
    /\ worker[n] = "mirroring" /\ toMirror[n] = {}
    /\ worker' = [worker EXCEPT ![n] = "pruning"]
    /\ Submit("delete", "egress", held[n], "SENT", 0)
    /\ UNCHANGED <<processVars, intakeVars, queueVars, held, attempt, toMirror, replies, db, disk,
                   shown, historyVars>>

Pruned(n) ==
    /\ worker[n] = "pruning"
    /\ Returned("egress", held[n])
    /\ worker' = [worker EXCEPT ![n] = "idle"]
    /\ held' = [held EXCEPT ![n] = NoMsg]
    /\ UNCHANGED <<processVars, intakeVars, queueVars, attempt, toMirror, requests, shown,
                   historyVars>>

---------------------------------------------------------------------------
(* Death of the process, and app.recover() at the next start.              *)

\* Everything but the committed table is lost.
Crash ==
    /\ phase # "down" /\ life < MaxCrashes
    /\ phase' = "down" /\ life' = life + 1 /\ orphans' = {}
    /\ conf' = {}
    /\ consumer' = [t \in Transports |-> NoMsg]
    /\ queue' = [n \in Nodes |-> <<>>]
    /\ tokens' = [n \in Nodes |-> Burst]
    /\ stale' = {}
    /\ worker' = [n \in Nodes |-> "idle"]
    /\ held' = [n \in Nodes |-> NoMsg]
    /\ attempt' = [n \in Nodes |-> 0]
    /\ toMirror' = [n \in Nodes |-> {}]
    /\ requests' = <<>> /\ replies' = <<>> /\ db' = disk
    /\ UNCHANGED <<arrived, admitted, disk, shown, historyVars>>

\* journal.recover(): the rows that are not terminal.
Start ==
    /\ phase = "down"
    /\ phase' = "recovering"
    /\ conf' \in Configs
    /\ orphans' = {disk[k] : k \in {k \in Keys : /\ disk[k] # NoRow
                                                  /\ disk[k].st \in {"PENDING", "TRANSMITTING"}}}
    /\ UNCHANGED <<life, intakeVars, queueVars, workerVars, journalVars, shown, historyVars>>

\* Mutant of NextOrphan: the rows come in any order.
NextOrphanUnordered(r) ==
    /\ phase = "recovering" /\ requests = <<>> /\ replies = <<>>
    /\ r \in orphans

\* recover() takes the rows in the order of insertion, one at a time.
NextOrphan(r) ==
    /\ phase = "recovering" /\ requests = <<>> /\ replies = <<>>
    /\ r \in orphans
    /\ \A q \in orphans : r.rowid <= q.rowid

\* Mutant of RecoverTransmitting: what was on the air is sent again.
RecoverTransmittingRequeued(r) ==
    /\ NextOrphan(r) /\ r.st = "TRANSMITTING"
    /\ queue' = [queue EXCEPT ![Target[r.msg]] = Append(@, r.msg)]
    /\ orphans' = orphans \ {r}
    /\ UNCHANGED <<phase, conf, life, intakeVars, tokens, stale, workerVars, journalVars, shown,
                   historyVars>>

\* Sent or not, nobody knows: report it, then journal it.
RecoverTransmitting(r) ==
    /\ NextOrphan(r) /\ r.st = "TRANSMITTING"
    /\ Show(r.msg, "UNKNOWN")
    /\ Submit("set", "recover", r.msg, "UNKNOWN", 0)
    /\ UNCHANGED <<processVars, intakeVars, queueVars, workerVars, replies, db, disk, historyVars>>

UnknownRecorded(r) ==
    /\ r \in orphans
    /\ Returned("recover", r.msg)
    /\ orphans' = orphans \ {r}
    /\ UNCHANGED <<phase, conf, life, intakeVars, queueVars, workerVars, requests, shown,
                   historyVars>>

\* Back into the queue with a new age; the answer of put_nowait is ignored.
RecoverPending(r) ==
    LET n == Target[r.msg] IN
    /\ NextOrphan(r) /\ r.st = "PENDING" /\ n \in conf
    /\ tokens' = TokensAfterPut(n)
    /\ queue' = IF HasRoom(n) THEN [queue EXCEPT ![n] = Append(@, r.msg)] ELSE queue
    /\ Show(r.msg, "PENDING")
    /\ orphans' = orphans \ {r}
    /\ UNCHANGED <<phase, conf, life, intakeVars, stale, workerVars, journalVars, historyVars>>

\* The row's node is no longer configured: the row is skipped and kept.
RecoverVanished(r) ==
    /\ NextOrphan(r) /\ r.st = "PENDING" /\ Target[r.msg] \notin conf
    /\ orphans' = orphans \ {r}
    /\ UNCHANGED <<phase, conf, life, intakeVars, queueVars, workerVars, journalVars, shown,
                   historyVars>>

\* bridge.run() starts the consumers and the workers.
Open ==
    /\ phase = "recovering" /\ orphans = {}
    /\ phase' = "up"
    /\ UNCHANGED <<conf, life, orphans, intakeVars, queueVars, workerVars, journalVars, shown,
                   historyVars>>

---------------------------------------------------------------------------
Journal == RunStatement \/ RunCommit \/ ResumeStatement

Intake(m) == Refuse(m) \/ Enqueue(m) \/ Overload(m)

Radio(n) == SendOk(n) \/ SendBusy(n) \/ SendFailed(n)

Worker(n) ==
    \/ TakeStale(n) \/ ExpiryRecorded(n) \/ TakeFresh(n) \/ TransmittingRecorded(n)
    \/ Retry(n) \/ FailureRecorded(n) \/ SentRecorded(n) \/ Mirror(n) \/ Prune(n) \/ Pruned(n)

Recovery ==
    \/ Open
    \/ \E r \in orphans :
        RecoverTransmitting(r) \/ UnknownRecorded(r) \/ RecoverPending(r) \/ RecoverVanished(r)

Next ==
    \/ Journal
    \/ \E m \in Msgs : Intake(m) \/ PendingRecorded(m) \/ Expire(m)
    \/ \E n \in Nodes : Radio(n) \/ Worker(n) \/ Refill(n)
    \/ Crash \/ Start \/ Recovery

Spec == Init /\ [][Next]_vars

(***************************************************************************)
(* The loop and the thread never stay idle with work to do, and            *)
(* anyio.fail_after bounds every send, so the radio step is fair too.      *)
(* Nothing is promised about arrivals, expiry, refills or crashes.         *)
(***************************************************************************)
Fairness ==
    /\ WF_vars(Journal) /\ WF_vars(Start) /\ WF_vars(Recovery)
    /\ \A m \in Msgs : WF_vars(PendingRecorded(m))
    /\ \A n \in Nodes : WF_vars(Radio(n)) /\ WF_vars(Worker(n))

FairSpec == Spec /\ Fairness

---------------------------------------------------------------------------
(* Properties.                                                             *)

\* Every variable has the shape of the object it stands for.
TypeOK ==
    /\ phase \in {"down", "recovering", "up"} /\ conf \subseteq Nodes /\ life \in 0..MaxCrashes
    /\ arrived \subseteq Msgs /\ admitted \in Seq(Msgs)
    /\ consumer \in [Transports -> Msgs \cup {NoMsg}]
    /\ queue \in [Nodes -> Seq(Msgs)]
    /\ tokens \in [Nodes -> 0..Burst]
    /\ stale \subseteq Msgs
    /\ worker \in [Nodes -> WorkerStates]
    /\ held \in [Nodes -> Msgs \cup {NoMsg}]
    /\ attempt \in [Nodes -> 0..BusyRetries]
    /\ toMirror \in [Nodes -> SUBSET Chats]
    /\ orphans \subseteq Row
    /\ requests \in Seq(Request) /\ replies \in Seq(Request)
    /\ db \in Table /\ disk \in Table
    /\ shown \in [Msgs -> Statuses \cup {"none"}]
    /\ begun \subseteq Msgs
    /\ mirrored \in [Msgs -> SUBSET Chats]

\* A worker that is not waiting for the queue has a message in its hands.
WorkerHolds == \A n \in Nodes : worker[n] # "idle" => held[n] \in Msgs

\* A row of table for message m that is in one of the given statuses.
RowIn(table, m, sts) ==
    table[Key(m)] # NoRow /\ table[Key(m)].msg = m /\ table[Key(m)].st \in sts

\* "No more than ONE message is TRANSMITTING at any moment" (egress.py, ARCHITECTURE 11.1):
\* the committed journal never holds two TRANSMITTING rows of one node, through crashes too,
\* so a restart finds at most one message per node whose fate nobody knows.
OneInTheAir ==
    \A m1, m2 \in Msgs :
        /\ Target[m1] = Target[m2]
        /\ RowIn(disk, m1, {"TRANSMITTING"}) /\ RowIn(disk, m2, {"TRANSMITTING"})
        => m1 = m2

\* Persist before act (journal.py): while the worker is at the radio with a message, first
\* attempt or retry, the committed journal already says TRANSMITTING for that message.
PersistBeforeAct ==
    \A n \in Nodes : worker[n] \in {"sending", "backoff"} => RowIn(disk, held[n], {"TRANSMITTING"})

\* At most once: a message whose transmission ever began is not queued again, neither now
\* nor by the recovery after any later crash.
NeverRequeued ==
    \A m \in begun :
        /\ ~InQueue(m)
        /\ ~RowIn(disk, m, {"PENDING"})
        /\ \A r \in orphans : r.msg = m => r.st # "PENDING"

\* The copies to the other chats are post-commit: once a message has been copied anywhere,
\* the committed journal says SENT for it or has forgotten it, whatever crashes follow.
MirrorAfterCommit ==
    \A m \in Msgs :
        mirrored[m] # {} => \/ ~RowIn(disk, m, Statuses)
                           \/ RowIn(disk, m, {"SENT"})

\* What the sender was shown as accepted is never forgotten: as long as no final status has been
\* shown, the committed journal has the row, wherever the message is and whatever crashes follow.
PendingIsBacked ==
    \A m \in Msgs : shown[m] \in {"PENDING", "TRANSMITTING"} => RowIn(disk, m, Statuses)

\* The order in which statuses may be reported for one message.
Successors(st) ==
    CASE st = "none"         -> {"PENDING", "REJECTED", "TRANSMITTING", "UNKNOWN"}
      [] st = "PENDING"      -> {"PENDING", "TRANSMITTING", "REJECTED", "UNKNOWN"}
      [] st = "TRANSMITTING" -> {"SENT", "FAILED", "UNKNOWN"}
      [] st = "UNKNOWN"      -> {"UNKNOWN"}
      [] OTHER               -> {}

\* The sender never sees a status go backwards (the late PENDING of a message already on the
\* air, a SENT turned into UNKNOWN), in the concurrent run as well as across restarts.
StatusForward ==
    [][\A m \in Msgs : shown'[m] # shown[m] => shown'[m] \in Successors(shown[m])]_vars

\* A message in the queue, first put there or put back by recovery, gets a final answer unless
\* the process dies first: the worker neither stalls nor retries for ever.
QueuedResolves ==
    \A m \in Msgs : InQueue(m) /\ FromMessenger(m) ~> shown[m] \in Terminal \/ phase = "down"

\* The bridge has nothing left to do.
AtRest ==
    /\ phase = "up" /\ requests = <<>> /\ replies = <<>>
    /\ \A n \in Nodes : queue[n] = <<>> /\ worker[n] = "idle"

\* "SENT, reaction not updated: apply the reaction ... no clock hangs for ever" (ARCHITECTURE 11.1):
\* once the bridge is at rest, the sender of a message the journal calls SENT has been shown so.
SentIsShown ==
    AtRest => \A m \in Msgs : FromMessenger(m) /\ RowIn(disk, m, {"SENT"}) => shown[m] = "SENT"

\* "PENDING: re-enqueue" (ARCHITECTURE 11.1): while the bridge runs, a message the journal calls
\* PENDING is in the queue, or in the hands of the worker that has just taken it.
PendingIsQueued ==
    phase = "up" =>
        \A m \in Msgs : RowIn(disk, m, {"PENDING"}) => InQueue(m) \/ \E n \in Nodes : held[n] = m

\* The journal is there so that a crash forgets nothing the sender was shown as accepted (ARCHITECTURE
\* 11.1): as long as no final status has been shown, the message is in the queue, in the hands of a
\* worker, or in the committed journal for recover() to find.
AcceptedSurvives ==
    \A m \in Msgs :
        shown[m] \in {"PENDING", "TRANSMITTING"} =>
            InQueue(m) \/ (\E n \in Nodes : held[n] = m) \/ RowIn(disk, m, Statuses)
=============================================================================
