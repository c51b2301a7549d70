---------------------- MODULE CommitPipelineRefinement ----------------------
(***************************************************************************)
(* CommitPipeline implements SerialSender.  What waits is what is in the   *)
(* queues, and the message a worker has taken while the journal records    *)
(* that it goes on the air; while the process is down it is what the       *)
(* committed journal still calls PENDING; during recovery, what has been   *)
(* put back into the queues and what recover() has still to put back.      *)
(***************************************************************************)
EXTENDS CommitPipeline

\* The messages of the rows that are PENDING.
PendingOf(rows) == {m \in Msgs : \E r \in rows : r # NoRow /\ r.msg = m /\ r.st = "PENDING"}

Waiting ==
    CASE phase = "down"       -> PendingOf({disk[k] : k \in Keys})
      [] phase = "recovering" -> {m \in Msgs : InQueue(m)} \cup PendingOf(orphans)
      [] phase = "up"         -> {m \in Msgs : InQueue(m)}
                                 \cup {held[n] : n \in {k \in Nodes : worker[k] = "marking"}}

\* A recovery belongs to the time the process is down.
Mode == IF phase = "up" THEN "up" ELSE "down"

OnAir(n) == IF worker[n] \in {"idle", "marking", "expiring"} THEN NoMsg ELSE held[n]

Sender == INSTANCE SerialSender WITH
    mode <- Mode,
    accepted <- admitted,
    waiting <- Waiting,
    inAir <- [n \in Nodes |-> OnAir(n)],
    tried <- begun

\* The whole pipeline, crashes and recovery included, keeps the promise of SerialSender: FIFO
\* per node, one message in the air per node, no message begun twice, none accepted or begun during
\* a recovery, and none that was dropped comes back but by one.
ImplementsSerialSender == Sender!SenderSpec
=============================================================================
