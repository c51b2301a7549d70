------------------------------- MODULE Lifecycle -------------------------------
(***************************************************************************)
(* The life of the process: the configuration is validated, the journal    *)
(* opened, the rooms built, the transports started one after the other;    *)
(* the supervised tasks run until one of them fails or a signal cancels    *)
(* them; then the transports are stopped in reverse order and the journal  *)
(* is closed.                                                              *)
(*                                                                         *)
(* Sources: app.py, core/bridge.py (run), core/supervisor.py,              *)
(* transports/hub.py and start() and stop() of transports/telegram/        *)
(* transport.py; those of a node are the subject of MeshCoreLink.          *)
(* External: a signal without a receiver ends the process; an open         *)
(* database connection has a thread that keeps the process alive;          *)
(* stop_polling raises if nothing polls.                                   *)
(***************************************************************************)
EXTENDS Rooms

CONSTANTS
    Configs,     \* the configurations the process may be started with
    MaxUpdates,  \* bound on updates Telegram delivers
    MaxSignals   \* bound on signals

ASSUME LifecycleAssumption ==
    /\ MaxUpdates \in Nat /\ MaxSignals \in Nat
    /\ \A c \in Configs :
         /\ Len(c.lora) \in Nat /\ DOMAIN c.lora = 1..Len(c.lora)
         /\ Len(c.messengers) \in Nat /\ DOMAIN c.messengers = 1..Len(c.messengers)
         /\ \A i \in DOMAIN c.messengers : c.messengers[i].store \in BOOLEAN
         /\ c.rooms \in Seq(Range(c.rooms)) /\ \A room \in Range(c.rooms) : IsRoom(room)

VARIABLES
    config,     \* the configuration, while it is in use
    at,         \* where main, run or Bridge.run is
    transports, \* all_transports of Bridge.run: a sequence of [kind, store]
    next,       \* the transport to be started or stopped
    failed,     \* the transports whose start() has raised
    journal,    \* the journal is open
    stores,     \* the transports whose moderation store is open
    polling,    \* [positions -> "none", "running" or "dead"]
    tasks,      \* the supervised tasks that have not ended, <<role, position>>
    subscribed, \* the transports whose hub has the subscriber of consume
    cancelled,  \* the scope of run() or of the supervisor is cancelled
    receiver,   \* a signal is caught and cancels the scope
    signals,    \* number of signals
    stopped,    \* history: the transports whose stop() was called
    updates,    \* number of updates Telegram has delivered
    lost        \* history: the number of updates that found no subscriber

world == <<signals, updates, lost>>
running == <<tasks, subscribed>>
owned == <<journal, stores, polling, stopped>>
vars == <<config, at, transports, next, failed, owned, running, cancelled, receiver, world>>

Places == {"validating", "opening", "recovering", "wiring", "starting", "menus", "running",
           "stopping", "closing", "ended", "exited"}
Forgotten == [lora |-> <<>>, messengers |-> <<>>, rooms |-> <<>>]

Positions == DOMAIN transports
IsMessenger(i) == transports[i].kind = "messenger"

Init ==
    /\ config \in Configs /\ at = "validating"
    /\ transports = <<>> /\ next = 1 /\ failed = {}
    /\ journal = FALSE /\ stores = {} /\ stopped = {}
    /\ polling = [i \in Positions |-> "none"]
    /\ tasks = {} /\ subscribed = {}
    /\ cancelled = FALSE /\ receiver = FALSE
    /\ signals = 0 /\ updates = 0 /\ lost = 0

---------------------------------------------------------------------------
(* main and run, up to Bridge.run.                                         *)

\* A configuration that is not accepted ends the process with code 2.
Validate ==
    /\ at = "validating"
    /\ at' = IF Accepted(config) THEN "opening" ELSE "exited"
    /\ UNCHANGED <<config, transports, next, failed, owned, running, cancelled, receiver, world>>

\* journal.start returns, or raises with or without a connection.
OpenJournal ==
    /\ at = "opening"
    /\ \/ at' = "recovering" /\ journal' = TRUE
       \/ at' = "ended" /\ journal' \in BOOLEAN
    /\ UNCHANGED <<config, transports, next, failed, stores, polling, stopped, running, cancelled,
                   receiver, world>>

\* recover returns or raises.
Recover ==
    /\ at = "recovering"
    /\ at' \in {"wiring", "ended"}
    /\ UNCHANGED <<config, transports, next, failed, owned, running, cancelled, receiver, world>>

\* Nodes first, then messengers.
AllTransports ==
    LET nodes == Len(config.lora)
    IN  [i \in 1..(nodes + Len(config.messengers)) |->
           IF i <= nodes THEN [kind |-> "node", store |-> FALSE]
           ELSE [kind |-> "messenger", store |-> config.messengers[i - nodes].store]]

\* The registry raises outside of the try block, or the watcher and Bridge.run begin.  Without any
\* transport there is no task to wait for and Bridge.run is over at once.
Wire ==
    /\ at = "wiring"
    /\ config' = Forgotten
    /\ IF RegistryBuilds(config)
       THEN /\ at' = IF AllTransports = <<>> THEN "closing" ELSE "starting"
            /\ receiver' = (AllTransports # <<>>)
            /\ transports' = AllTransports
            /\ polling' = [i \in DOMAIN AllTransports |-> "none"]
       ELSE at' = "ended" /\ UNCHANGED <<receiver, transports, polling>>
    /\ UNCHANGED <<next, failed, journal, stores, stopped, running, cancelled, world>>

---------------------------------------------------------------------------
(* The start() calls of Bridge.run.                                        *)

\* consume and reconnect of a transport, egress and notifier of a node; the run() of a messenger
\* does nothing.  "serve" stands for all but consume.
Tasks ==
    {<<"consume", i>> : i \in Positions}
        \cup {<<"serve", i>> : i \in {j \in Positions : ~IsMessenger(j)}}

\* start() of transport next returns; after the last one the supervisor starts the tasks.
Proceed ==
    IF next < Len(transports)
    THEN at' = "starting" /\ next' = next + 1 /\ UNCHANGED tasks
    ELSE at' = "running" /\ tasks' = Tasks /\ UNCHANGED next

StartNode ==
    /\ at = "starting" /\ ~IsMessenger(next)
    /\ Proceed
    /\ UNCHANGED <<config, transports, failed, owned, subscribed, cancelled, receiver, world>>

\* The bot answers get_me; the store, if there is one, is opened and the menus are set one by one.
StartStore ==
    /\ at = "starting" /\ IsMessenger(next) /\ transports[next].store
    /\ at' = "menus"
    /\ stores' = stores \cup {next}
    /\ UNCHANGED <<config, transports, next, failed, journal, polling, stopped, running, cancelled,
                   receiver, world>>

\* Polling becomes a task of its own, which nobody awaits.
StartPolling ==
    /\ IF at = "menus" THEN TRUE ELSE at = "starting" /\ IsMessenger(next) /\ ~transports[next].store
    /\ polling' = [polling EXCEPT ![next] = "running"]
    /\ Proceed
    /\ UNCHANGED <<config, transports, failed, journal, stores, stopped, subscribed, cancelled,
                   receiver, world>>

\* start() raises, or is cancelled at one of its awaits: Bridge.run leaves the loop, the watcher is
\* cancelled, and only the journal is closed.
StartRaises ==
    /\ at \in {"starting", "menus"}
    /\ at' = "closing"
    /\ failed' = failed \cup {next}
    /\ receiver' = FALSE
    /\ UNCHANGED <<config, transports, next, owned, running, cancelled, world>>

---------------------------------------------------------------------------
(* The supervised tasks.                                                   *)

\* consume takes its place in the hub.
Subscribe(i) ==
    /\ <<"consume", i>> \in tasks /\ ~cancelled
    /\ subscribed' = subscribed \cup {i}
    /\ UNCHANGED <<config, at, transports, next, failed, owned, tasks, cancelled, receiver, world>>

\* A task has come to its end; a subscriber leaves the hub.
Leaves(t) ==
    /\ tasks' = tasks \ {t}
    /\ subscribed' = IF t[1] = "consume" THEN subscribed \ {t[2]} ELSE subscribed

\* Mutant of TaskFails: the other tasks go on.
TaskFailsAlone(t) ==
    /\ t \in tasks /\ ~cancelled
    /\ Leaves(t)
    /\ UNCHANGED <<config, at, transports, next, failed, owned, cancelled, receiver, world>>

\* A task raises: the task group cancels the others.
TaskFails(t) ==
    /\ t \in tasks /\ ~cancelled
    /\ Leaves(t)
    /\ cancelled' = TRUE
    /\ UNCHANGED <<config, at, transports, next, failed, owned, receiver, world>>

\* A cancelled task ends at its await.
TaskCancelled(t) ==
    /\ t \in tasks /\ cancelled
    /\ Leaves(t)
    /\ UNCHANGED <<config, at, transports, next, failed, owned, cancelled, receiver, world>>

TasksEnded ==
    /\ at = "running" /\ tasks = {}
    /\ at' = "stopping"
    /\ next' = Len(transports)
    /\ UNCHANGED <<config, transports, failed, owned, running, cancelled, receiver, world>>

---------------------------------------------------------------------------
(* The stop() calls, shielded; then the journal, shielded.                 *)

\* Mutant of Descend: one step too many.
DescendPast ==
    IF next > 0 THEN at' = "stopping" /\ next' = next - 1 /\ UNCHANGED receiver
    ELSE at' = "closing" /\ receiver' = FALSE /\ UNCHANGED next

\* After the last stop() Bridge.run returns or raises; run cancels the watcher and closes the journal.
Descend ==
    IF next > 1 THEN at' = "stopping" /\ next' = next - 1 /\ UNCHANGED receiver
    ELSE at' = "closing" /\ receiver' = FALSE /\ UNCHANGED next

\* stop() of a node returns or raises; either way the next one is called.
StopNode ==
    /\ at = "stopping" /\ ~IsMessenger(next)
    /\ stopped' = stopped \cup {next}
    /\ Descend
    /\ UNCHANGED <<config, transports, failed, journal, stores, polling, running, cancelled, world>>

\* Mutant of StopMessenger: what stop() raises ends the loop.
StopMessengerRaises ==
    /\ at = "stopping" /\ IsMessenger(next)
    /\ stopped' = stopped \cup {next}
    /\ IF polling[next] = "running"
       THEN Descend /\ polling' = [polling EXCEPT ![next] = "none"] /\ stores' = stores \ {next}
       ELSE at' = "closing" /\ receiver' = FALSE /\ UNCHANGED <<next, polling, stores>>
    /\ UNCHANGED <<config, transports, failed, journal, running, cancelled, world>>

\* Mutant of StopMessenger: the store is left open.
StopMessengerKeepsStore ==
    /\ at = "stopping" /\ IsMessenger(next)
    /\ stopped' = stopped \cup {next}
    /\ Descend
    /\ polling' = [polling EXCEPT ![next] = "none"]
    /\ UNCHANGED <<config, transports, failed, journal, stores, running, cancelled, world>>

\* stop() of a bot ends the polling and closes the store; if nothing polls any more it raises before
\* it has closed the store, and the next one is called.
StopMessenger ==
    /\ at = "stopping" /\ IsMessenger(next)
    /\ stopped' = stopped \cup {next}
    /\ Descend
    /\ IF polling[next] = "running"
       THEN polling' = [polling EXCEPT ![next] = "none"] /\ stores' = stores \ {next}
       ELSE UNCHANGED <<polling, stores>>
    /\ UNCHANGED <<config, transports, failed, journal, running, cancelled, world>>

CloseJournal ==
    /\ at = "closing"
    /\ at' = "ended"
    /\ journal' = FALSE
    /\ polling' = [i \in Positions |-> "none"]
    /\ UNCHANGED <<config, transports, next, failed, stores, stopped, running, cancelled, receiver,
                   world>>

\* The loop is gone; the interpreter waits for the threads of open connections.
Exit ==
    /\ at = "ended" /\ ~journal /\ stores = {}
    /\ at' = "exited"
    /\ UNCHANGED <<config, transports, next, failed, owned, running, cancelled, receiver, world>>

---------------------------------------------------------------------------
(* Signals, Telegram, and the bot that stops polling.                      *)

\* The first signal cancels the scope and takes the receiver away; one without a receiver kills.
Signal ==
    /\ at \notin {"ended", "exited"} /\ signals < MaxSignals
    /\ signals' = signals + 1
    /\ receiver' = FALSE
    /\ IF receiver
       THEN cancelled' = TRUE /\ UNCHANGED <<at, owned, running>>
       ELSE /\ at' = "exited"
            /\ journal' = FALSE /\ stores' = {} /\ tasks' = {} /\ subscribed' = {}
            /\ polling' = [i \in Positions |-> "none"]
            /\ UNCHANGED <<cancelled, stopped>>
    /\ UNCHANGED <<config, transports, next, failed, updates, lost>>

\* An update is acknowledged and published: to nobody, if the hub has no subscriber.
Update(i) ==
    /\ i \in Positions /\ polling[i] = "running" /\ updates < MaxUpdates
    /\ updates' = updates + 1
    /\ lost' = IF i \in subscribed THEN lost ELSE lost + 1
    /\ UNCHANGED <<config, at, transports, next, failed, owned, running, cancelled, receiver, signals>>

\* The polling task ends with an exception, which nobody sees.
PollingDies(i) ==
    /\ i \in Positions /\ polling[i] = "running"
    /\ polling' = [polling EXCEPT ![i] = "dead"]
    /\ UNCHANGED <<config, at, transports, next, failed, journal, stores, stopped, running, cancelled,
                   receiver, world>>

---------------------------------------------------------------------------

Main ==
    \/ Validate \/ OpenJournal \/ Recover \/ Wire
    \/ StartNode \/ StartStore \/ StartPolling \/ StartRaises
    \/ TasksEnded \/ StopNode \/ StopMessenger \/ CloseJournal \/ Exit

Next ==
    \/ Main
    \/ \E i \in Positions : Subscribe(i) \/ Update(i) \/ PollingDies(i)
    \/ \E t \in tasks : TaskFails(t) \/ TaskCancelled(t)
    \/ Signal

Spec == Init /\ [][Next]_vars

\* The awaits of main, of start() and stop() included, end; a cancelled task comes to its end.
FairSpec ==
    /\ Spec
    /\ WF_vars(Main) /\ WF_vars(\E t \in tasks : TaskCancelled(t))

---------------------------------------------------------------------------
(* Properties.                                                             *)

TypeOK ==
    /\ at \in Places /\ (transports # <<>> => config = Forgotten)
    /\ transports \in Seq([kind : {"node", "messenger"}, store : BOOLEAN])
    /\ next \in Nat /\ (at \in {"starting", "menus", "running", "stopping"} => next \in Positions)
    /\ failed \subseteq Positions /\ journal \in BOOLEAN
    /\ stores \subseteq {i \in Positions : transports[i].store}
    /\ polling \in [Positions -> {"none", "running", "dead"}]
    /\ \A i \in Positions : polling[i] # "none" => IsMessenger(i)
    /\ tasks \subseteq Tasks /\ subscribed \subseteq Positions /\ stopped \subseteq Positions
    /\ cancelled \in BOOLEAN /\ receiver \in BOOLEAN
    /\ signals \in 0..MaxSignals /\ updates \in 0..MaxUpdates /\ lost \in 0..updates

\* The validators promise what the registry and the routing rely on: every accepted configuration
\* whose keys are separable builds, and a message of any member reaches the rest of its room.
AcceptedIsRoutable ==
    at \in {"opening", "recovering", "wiring"} /\ Separable(config) => Routable(config)

\* The journal and the transports outlive the tasks that use them, and once the tasks have run no
\* transport is left without its stop(), whatever the others' stop() raised: no bot polls and no
\* store is open but one whose polling had died.
OrderlyStop ==
    /\ tasks # {} => journal /\ stopped = {}
    /\ at = "closing" /\ failed = {} =>
         /\ stopped = Positions
         /\ \A i \in Positions : polling[i] # "running"
         /\ \A i \in stores : polling[i] = "dead"

\* "No partial work": an update is lost only while start-up or shutdown is under way, never because
\* one consumer has died and the rest goes on.
LossNeedsAnEdge ==
    [][lost' # lost =>
         \/ at # "running" \/ cancelled
         \/ \E i \in Positions : <<"consume", i>> \in tasks /\ i \notin subscribed]_vars

\* A signal, or the failure of a task, ends the process, unless a bot had stopped polling by itself.
CancelledExits ==
    at = "running" /\ cancelled ~> at = "exited" \/ \E i \in Positions : polling[i] = "dead"

\* "Bridge.run must carry transport.stop() through in spite of an active cancellation": every
\* transport whose start() has returned is stopped.
StartedIsStopped == at = "closing" => \A i \in Positions : i < next => i \in stopped

\* "One ChannelRef cannot be in more than one room": every accepted configuration builds.
AcceptedBuilds == at \in {"opening", "recovering", "wiring"} => RegistryBuilds(config)
=============================================================================
