--------------------------- MODULE LifecycleProofs ---------------------------
(***************************************************************************)
(* For every set of configurations and any number of signals and updates:  *)
(* the variables have their types, and the process stops in order.  The    *)
(* inductive invariant says what each place of run() and Bridge.run        *)
(* implies about the tasks, the transports stopped so far and the journal. *)
(* At the end, a theorem about Rooms: what is accepted can be routed.      *)
(***************************************************************************)
EXTENDS Lifecycle, SequenceTheorems, TLAPS

\* TypeOK in three parts: the positions, the truth values, the counters.
TypesOfPositions ==
    /\ at \in Places /\ (transports # <<>> => config = Forgotten)
    /\ transports \in Seq([kind : {"node", "messenger"}, store : BOOLEAN])
    /\ next \in Nat /\ (at \in {"starting", "menus", "running", "stopping"} => next \in Positions)
    /\ failed \subseteq Positions
    /\ stores \subseteq {i \in Positions : transports[i].store}
    /\ polling \in [Positions -> {"none", "running", "dead"}]
    /\ \A i \in Positions : polling[i] # "none" => IsMessenger(i)
    /\ tasks \subseteq Tasks /\ subscribed \subseteq Positions /\ stopped \subseteq Positions

TruthValues == journal \in BOOLEAN /\ cancelled \in BOOLEAN /\ receiver \in BOOLEAN

Counters == signals \in 0..MaxSignals /\ updates \in 0..MaxUpdates /\ lost \in 0..updates

LEMMA TypeOKParts == TypeOK <=> TypesOfPositions /\ TruthValues /\ Counters
<1> QED BY Zenon DEF TypeOK, TypesOfPositions, TruthValues, Counters

Early == {"validating", "opening", "recovering", "wiring"}

\* A transport that holds nothing any more, but for a store whose bot had stopped polling.
Quiet(i) == polling[i] # "running" /\ (i \in stores => polling[i] = "dead")

\* What the place of the main task implies.
PlaceInv ==
    /\ at \in Early => transports = <<>>
    /\ at # "running" => tasks = {}
    /\ at \in Early \cup {"starting", "menus", "running"} => stopped = {}
    /\ at \in {"recovering", "wiring", "starting", "menus", "running", "stopping"} => journal = TRUE
    /\ at \in Early => next = 1
    /\ at = "menus" => IsMessenger(next)
    /\ at = "stopping" => stopped = {i \in Positions : next < i} /\ \A i \in stopped : Quiet(i)
    /\ at = "closing" /\ failed = {} => stopped = Positions /\ \A i \in Positions : Quiet(i)

\* Only a bot has a store.
StoresAreOfBots == \A i \in stores : IsMessenger(i)

\* A bot whose start() is over, and whose stop() was not called, polls or has polled.
PolledInv ==
    \A i \in Positions : IsMessenger(i) =>
      /\ at \in {"starting", "menus"} /\ i < next => polling[i] # "none"
      /\ at = "running" => polling[i] # "none"
      /\ at = "stopping" /\ i <= next => polling[i] # "none"

\* Every configuration in use is one of Configs.
ConfigInv == at \in Early => config \in Configs

IInv == TypesOfPositions /\ ConfigInv /\ PlaceInv /\ StoresAreOfBots

LEMMA PositionsAre ==
    ASSUME transports \in Seq([kind : {"node", "messenger"}, store : BOOLEAN])
    PROVE  Len(transports) \in Nat /\ Positions = 1..Len(transports)
<1> QED BY DEF Positions

LEMMA AllTransportsType ==
    ASSUME config \in Configs
    PROVE  /\ AllTransports \in Seq([kind : {"node", "messenger"}, store : BOOLEAN])
           /\ AllTransports # <<>> => 1 \in DOMAIN AllTransports
<1> DEFINE n == Len(config.lora)
           m == Len(config.messengers)
           T == [kind : {"node", "messenger"}, store : BOOLEAN]
<1>1. n \in Nat /\ m \in Nat
    BY LifecycleAssumption, Zenon
<1>2. \A j \in 1..m : config.messengers[j].store \in BOOLEAN
    BY LifecycleAssumption, Zenon
<1>3. AllTransports = [i \in 1..(n + m) |->
                         IF i <= n THEN [kind |-> "node", store |-> FALSE]
                         ELSE [kind |-> "messenger", store |-> config.messengers[i - n].store]]
    BY Zenon DEF AllTransports
<1> HIDE DEF n, m
<1>4. ASSUME NEW i \in 1..(n + m), ~(i <= n) PROVE i - n \in 1..m
    BY <1>1, <1>4
<1>5. AllTransports \in [1..(n + m) -> T]
  <2> SUFFICES ASSUME NEW i \in 1..(n + m)
               PROVE  (IF i <= n THEN [kind |-> "node", store |-> FALSE]
                       ELSE [kind |-> "messenger", store |-> config.messengers[i - n].store]) \in T
    BY <1>3, Zenon
  <2>1. CASE i <= n
    BY <2>1
  <2>2. CASE ~(i <= n)
    <3>1. config.messengers[i - n].store \in BOOLEAN
      BY <1>2, <1>4, <2>2
    <3> QED BY <2>2, <3>1
  <2> QED BY <2>1, <2>2
<1>6. n + m \in Nat
    BY <1>1
<1>7. AllTransports \in Seq(T)
  <2> HIDE DEF T
  <2> QED BY <1>5, <1>6, SeqDef
<1>8. AllTransports # <<>> => 1 \in DOMAIN AllTransports
    BY <1>7
<1> QED BY <1>7, <1>8

LEMMA InitTypes == Init => TruthValues /\ Counters
<1> SUFFICES ASSUME Init PROVE TruthValues /\ Counters
    OBVIOUS
<1>1. TruthValues
    BY Zenon DEF Init, TruthValues
<1>2. Counters
    BY LifecycleAssumption DEF Init, Counters
<1> QED BY <1>1, <1>2

LEMMA NextTruth == TruthValues /\ [Next]_vars => TruthValues'
<1> SUFFICES ASSUME TruthValues, [Next]_vars PROVE TruthValues'
    OBVIOUS
<1> USE DEF TruthValues
<1>1. CASE Validate
    BY <1>1, Zenon DEF Validate, owned
<1>2. CASE OpenJournal
    BY <1>2, Zenon DEF OpenJournal
<1>3. CASE Recover
    BY <1>3, Zenon DEF Recover, owned
<1>4. CASE Wire
    BY <1>4, Zenon DEF Wire
<1>5. CASE StartNode
    BY <1>5, Zenon DEF StartNode, owned
<1>6. CASE StartStore
    BY <1>6, Zenon DEF StartStore
<1>7. CASE StartPolling
    BY <1>7, Zenon DEF StartPolling
<1>8. CASE StartRaises
    BY <1>8, Zenon DEF StartRaises, owned
<1>9. CASE TasksEnded
    BY <1>9, Zenon DEF TasksEnded, owned
<1>10. CASE StopNode
    BY <1>10, Zenon DEF StopNode, Descend
<1>11. CASE StopMessenger
    BY <1>11, Zenon DEF StopMessenger, Descend
<1>12. CASE CloseJournal
    BY <1>12, Zenon DEF CloseJournal
<1>13. CASE Exit
    BY <1>13, Zenon DEF Exit, owned
<1>14. ASSUME NEW i \in Positions, Subscribe(i) \/ Update(i) PROVE TruthValues'
    BY <1>14, Zenon DEF Subscribe, Update, owned
<1>15. ASSUME NEW i \in Positions, PollingDies(i) PROVE TruthValues'
    BY <1>15, Zenon DEF PollingDies
<1>16. ASSUME NEW t \in tasks, TaskFails(t) PROVE TruthValues'
    BY <1>16, Zenon DEF TaskFails, owned
<1>17. ASSUME NEW t \in tasks, TaskCancelled(t) PROVE TruthValues'
    BY <1>17, Zenon DEF TaskCancelled, owned
<1>18. CASE Signal
  <2>1. receiver' = FALSE
    BY <1>18, Zenon DEF Signal
  <2>2. CASE receiver
    BY <1>18, <2>1, <2>2, Zenon DEF Signal, owned
  <2>3. CASE ~receiver
    BY <1>18, <2>1, <2>3, Zenon DEF Signal
  <2> QED BY <2>2, <2>3, Zenon
<1>19. CASE UNCHANGED vars
    BY <1>19, Zenon DEF vars, owned
<1> QED
    BY <1>1, <1>2, <1>3, <1>4, <1>5, <1>6, <1>7, <1>8, <1>9, <1>10, <1>11, <1>12, <1>13, <1>14,
       <1>15, <1>16, <1>17, <1>18, <1>19, Zenon DEF Next, Main

LEMMA NextCounters == Counters /\ [Next]_vars => Counters'
<1> SUFFICES ASSUME Counters, [Next]_vars PROVE Counters'
    OBVIOUS
<1>1. CASE UNCHANGED world
    BY <1>1 DEF world, Counters
<1>2. ASSUME NEW i \in Positions, Update(i) PROVE Counters'
  <2>1. /\ updates < MaxUpdates /\ updates' = updates + 1
        /\ lost' = lost \/ lost' = lost + 1
        /\ signals' = signals
    BY <1>2, Zenon DEF Update
  <2> QED BY <2>1, LifecycleAssumption DEF Counters
<1>3. CASE Signal
  <2>1. signals < MaxSignals /\ signals' = signals + 1 /\ updates' = updates /\ lost' = lost
    BY <1>3, Zenon DEF Signal
  <2> QED BY <2>1, LifecycleAssumption DEF Counters
<1> QED
    BY <1>1, <1>2, <1>3, Zenon
    DEF Next, Main, vars, Validate, OpenJournal, Recover, Wire, StartNode, StartStore, StartPolling,
        StartRaises, Subscribe, TaskFails, TaskCancelled, TasksEnded, StopNode, StopMessenger,
        CloseJournal, Exit, PollingDies

LEMMA InitLifecycle == Init => IInv
<1> SUFFICES ASSUME Init PROVE IInv
    OBVIOUS
<1>1. transports = <<>> /\ Positions = {}
    BY DEF Init, Positions
<1>2. transports \in Seq([kind : {"node", "messenger"}, store : BOOLEAN])
    BY <1>1
<1>3. polling \in [Positions -> {"none", "running", "dead"}]
    BY DEF Init
<1>4. TypesOfPositions
    BY <1>1, <1>2, <1>3 DEF Init, TypesOfPositions, Places
<1>5. PlaceInv /\ StoresAreOfBots /\ ConfigInv
    BY <1>1 DEF Init, PlaceInv, StoresAreOfBots, ConfigInv, Early
<1> QED BY <1>4, <1>5 DEF IInv

\* What Proceed and Descend do to the place.
LEMMA ProceedPlaces ==
    ASSUME IInv, at \in {"starting", "menus"}, Proceed, UNCHANGED transports
    PROVE  /\ next' \in Positions' /\ Positions' = Positions
           /\ \/ at' = "starting" /\ tasks' = {}
              \/ at' = "running" /\ tasks' \subseteq Tasks'
<1>1. Len(transports) \in Nat /\ Positions = 1..Len(transports) /\ next \in Positions
    BY PositionsAre DEF IInv, TypesOfPositions
<1>2. Positions' = Positions /\ Tasks' = Tasks
    BY DEF Positions, Tasks, IsMessenger
<1>3. tasks = {}
    BY DEF IInv, PlaceInv
<1>4. CASE next < Len(transports)
    BY <1>1, <1>2, <1>3, <1>4 DEF Proceed
<1>5. CASE ~(next < Len(transports))
    BY <1>1, <1>2, <1>5 DEF Proceed
<1> QED BY <1>4, <1>5

LEMMA DescendPlaces ==
    ASSUME IInv, at = "stopping", Descend,
           UNCHANGED <<config, transports, failed, tasks, subscribed, journal>>,
           stopped' = stopped \cup {next},
           polling' \in [Positions -> {"none", "running", "dead"}],
           \A i \in Positions : polling'[i] # "none" => IsMessenger(i),
           stores' \subseteq stores,
           \A i \in stopped \cup {next} : Quiet(i)'
    PROVE  IInv'
<1>1. Len(transports) \in Nat /\ Positions = 1..Len(transports) /\ next \in Positions
    BY PositionsAre DEF IInv, TypesOfPositions
<1>2. Positions' = Positions /\ Tasks' = Tasks /\ \A i : IsMessenger(i)' = IsMessenger(i)
    BY DEF Positions, Tasks, IsMessenger
<1>3. /\ tasks = {} /\ journal = TRUE
      /\ stopped = {i \in Positions : next < i}
    BY Zenon DEF IInv, PlaceInv
<1>4. StoresAreOfBots'
    BY <1>2 DEF IInv, StoresAreOfBots
<1>5. /\ next' \in Nat
      /\ \/ at' = "stopping" /\ next' \in Positions /\ stopped' = {i \in Positions : next' < i}
         \/ at' = "closing" /\ stopped' = Positions
  <2>1. CASE next > 1
    <3>1. at' = "stopping" /\ next' = next - 1
      BY <2>1, Zenon DEF Descend
    <3>2. next' \in Positions /\ next' \in Nat
      BY <1>1, <2>1, <3>1
    <3>3. stopped' = {i \in Positions : next' < i}
      BY <1>1, <1>3, <3>1, <3>2
    <3> QED BY <3>1, <3>2, <3>3, Zenon
  <2>2. CASE ~(next > 1)
    <3>1. at' = "closing" /\ next' = next
      BY <2>2, Zenon DEF Descend
    <3>2. stopped' = Positions
      BY <1>1, <1>3, <2>2
    <3> QED BY <1>1, <3>1, <3>2
  <2> QED BY <2>1, <2>2, Zenon
<1>6. stopped' \subseteq Positions'
    BY <1>1, <1>2, <1>3
<1>7. \A i \in stopped' : Quiet(i)'
    BY Zenon
<1>8. stores' \subseteq {i \in Positions' : transports'[i].store}
    BY <1>2, Zenon DEF IInv, TypesOfPositions
<1>9. TypesOfPositions'
  <2>1. at' \in Places /\ (at' \in {"starting", "menus", "running", "stopping"} => next' \in Positions')
    BY <1>2, <1>5, Zenon DEF Places
  <2>2. /\ transports' \in Seq([kind : {"node", "messenger"}, store : BOOLEAN])
        /\ (transports' # <<>> => config' = Forgotten) /\ failed' \subseteq Positions'
        /\ tasks' \subseteq Tasks' /\ subscribed' \subseteq Positions'
    BY <1>2, Zenon DEF IInv, TypesOfPositions
  <2>3. /\ polling' \in [Positions' -> {"none", "running", "dead"}]
        /\ \A i \in Positions' : polling'[i] # "none" => IsMessenger(i)'
    BY <1>2, Zenon
  <2> QED BY <1>5, <1>6, <1>8, <2>1, <2>2, <2>3, Zenon DEF TypesOfPositions
<1>10. PlaceInv'
  <2>1. CASE at' = "stopping"
    BY <1>2, <1>3, <1>5, <1>7, <2>1 DEF PlaceInv, Early
  <2>2. CASE at' = "closing"
    BY <1>2, <1>3, <1>5, <1>7, <2>2 DEF PlaceInv, Early
  <2> QED BY <1>5, <2>1, <2>2
<1>11. ConfigInv'
    BY <1>5 DEF ConfigInv, Early
<1> QED BY <1>4, <1>9, <1>10, <1>11, Zenon DEF IInv

LEMMA SamePositions ==
    ASSUME UNCHANGED transports
    PROVE  Positions' = Positions /\ Tasks' = Tasks /\ \A i : IsMessenger(i)' = IsMessenger(i)
<1> QED BY DEF Positions, Tasks, IsMessenger

LEMMA ProceedPolled ==
    ASSUME IInv, PolledInv, at \in {"starting", "menus"}, Proceed, UNCHANGED transports,
           polling' \in [Positions -> {"none", "running", "dead"}],
           \A i \in Positions : i # next => polling'[i] = polling[i],
           IsMessenger(next) => polling'[next] # "none"
    PROVE  PolledInv'
<1>1. Len(transports) \in Nat /\ Positions = 1..Len(transports) /\ next \in Positions
    BY PositionsAre DEF IInv, TypesOfPositions
<1>2. \A i \in Positions : IsMessenger(i) /\ i <= next => polling'[i] # "none"
    BY <1>1 DEF PolledInv
<1>3. CASE next < Len(transports)
  <2>1. at' = "starting" /\ next' = next + 1
    BY <1>3, Zenon DEF Proceed
  <2> QED BY <1>1, <1>2, <2>1, SamePositions DEF PolledInv
<1>4. CASE ~(next < Len(transports))
  <2>1. at' = "running"
    BY <1>4, Zenon DEF Proceed
  <2> QED BY <1>1, <1>2, <1>4, <2>1, SamePositions DEF PolledInv
<1> QED BY <1>3, <1>4

LEMMA DescendPolled ==
    ASSUME IInv, PolledInv, at = "stopping", Descend, UNCHANGED transports,
           \A i \in Positions : i # next => polling'[i] = polling[i]
    PROVE  PolledInv'
<1>1. Len(transports) \in Nat /\ Positions = 1..Len(transports) /\ next \in Positions
    BY PositionsAre DEF IInv, TypesOfPositions
<1>2. CASE next > 1
  <2>1. at' = "stopping" /\ next' = next - 1
    BY <1>2, Zenon DEF Descend
  <2> QED BY <1>1, <2>1, SamePositions DEF PolledInv
<1>3. CASE ~(next > 1)
    BY <1>3, SamePositions DEF Descend, PolledInv
<1> QED BY <1>2, <1>3

LEMMA NextPolled == IInv /\ PolledInv /\ [Next]_vars => PolledInv'
<1> SUFFICES ASSUME IInv, PolledInv, [Next]_vars PROVE PolledInv'
    OBVIOUS
<1>1. CASE StartNode
  <2>1. /\ at = "starting" /\ ~IsMessenger(next) /\ Proceed /\ UNCHANGED <<transports, polling>>
    BY <1>1 DEF StartNode, owned
  <2>2. polling' \in [Positions -> {"none", "running", "dead"}]
    BY <2>1 DEF IInv, TypesOfPositions
  <2> QED BY <2>1, <2>2, ProceedPolled
<1>2. CASE StartPolling
  <2>1. /\ at \in {"starting", "menus"} /\ UNCHANGED transports
        /\ polling' = [polling EXCEPT ![next] = "running"] /\ Proceed
    BY <1>2, Zenon DEF StartPolling
  <2>2. next \in Positions /\ polling \in [Positions -> {"none", "running", "dead"}]
    BY <2>1 DEF IInv, TypesOfPositions
  <2>3. /\ polling' \in [Positions -> {"none", "running", "dead"}]
        /\ \A i \in Positions : i # next => polling'[i] = polling[i]
        /\ polling'[next] # "none"
    BY <2>1, <2>2
  <2> QED BY <2>1, <2>3, ProceedPolled
<1>3. CASE StopNode
    BY <1>3, DescendPolled DEF StopNode
<1>4. CASE StopMessenger
  <2>1. at = "stopping" /\ Descend /\ UNCHANGED transports
    BY <1>4, Zenon DEF StopMessenger
  <2>2. polling' = [polling EXCEPT ![next] = "none"] \/ polling' = polling
    BY <1>4, Zenon DEF StopMessenger
  <2>3. \A i \in Positions : i # next => polling'[i] = polling[i]
    BY <2>2 DEF IInv, TypesOfPositions
  <2> QED BY <2>1, <2>3, DescendPolled
<1>5. CASE TasksEnded
    BY <1>5, SamePositions DEF TasksEnded, PolledInv, owned
<1>6. ASSUME NEW i \in Positions, PollingDies(i) PROVE PolledInv'
  <2>1. polling' = [polling EXCEPT ![i] = "dead"] /\ UNCHANGED <<at, transports, next>>
    BY <1>6, Zenon DEF PollingDies
  <2>2. \A j \in Positions : polling'[j] = "none" => polling[j] = "none"
    BY <2>1 DEF IInv, TypesOfPositions
  <2> QED BY <2>1, <2>2, SamePositions DEF PolledInv
<1>7. CASE UNCHANGED <<at, transports, next, polling>>
    BY <1>7, SamePositions DEF PolledInv
<1>8. CASE at' \notin {"starting", "menus", "running", "stopping"}
    BY <1>8 DEF PolledInv
<1>9. CASE StartStore
    BY <1>9, SamePositions DEF StartStore, PolledInv
<1>10. CASE Wire
  <2>1. CASE transports' = <<>>
    BY <2>1 DEF PolledInv, Positions
  <2>2. CASE transports' # <<>>
    <3>1. at = "wiring" /\ config \in Configs /\ next' = 1 /\ transports = <<>>
      BY <1>10, Zenon DEF Wire, IInv, PlaceInv, ConfigInv, Early
    <3>2. transports' = AllTransports /\ at' = "starting"
      BY <1>10, <2>2, <3>1, Zenon DEF Wire
    <3>3. Len(transports') \in Nat /\ Positions' = 1..Len(transports')
      BY <3>1, <3>2, AllTransportsType DEF Positions
    <3> QED BY <3>1, <3>2, <3>3 DEF PolledInv
  <2> QED BY <2>1, <2>2
<1>11. CASE Signal
    BY <1>7, <1>8, <1>11, Zenon DEF Signal, owned
<1>12. CASE Validate \/ OpenJournal \/ Recover \/ StartRaises \/ CloseJournal \/ Exit
    BY <1>8, <1>12 DEF Validate, OpenJournal, Recover, StartRaises, CloseJournal, Exit
<1>13. ASSUME NEW i \in Positions, Subscribe(i) \/ Update(i) PROVE PolledInv'
    BY <1>7, <1>13, Zenon DEF Subscribe, Update, owned
<1>14. ASSUME NEW t \in tasks, TaskFails(t) \/ TaskCancelled(t) PROVE PolledInv'
    BY <1>7, <1>14, Zenon DEF TaskFails, TaskCancelled, owned
<1>15. CASE UNCHANGED vars
    BY <1>7, <1>15, Zenon DEF vars, owned
<1> QED
    BY <1>1, <1>2, <1>3, <1>4, <1>5, <1>6, <1>9, <1>10, <1>11, <1>12, <1>13, <1>14, <1>15, Zenon
    DEF Next, Main

\* Every step keeps the invariant.
LEMMA NextLifecycle == IInv /\ PolledInv /\ [Next]_vars => IInv'
<1> SUFFICES ASSUME IInv, PolledInv, [Next]_vars PROVE IInv'
    OBVIOUS
<1> USE DEF IInv
<1>1. CASE Validate
  <2>1. /\ at = "validating" /\ at' \in {"opening", "exited"}
        /\ UNCHANGED <<config, transports, next, failed, owned, running>>
    BY <1>1, Zenon DEF Validate
  <2> QED
    BY <2>1, SamePositions
    DEF TypesOfPositions, PlaceInv, StoresAreOfBots, ConfigInv, Early, Places, owned, running
<1>2. CASE OpenJournal
  <2>1. /\ at = "opening" /\ (at' = "recovering" \/ at' = "ended")
        /\ at' = "recovering" => journal' = TRUE
        /\ UNCHANGED <<config, transports, next, failed, stores, polling, stopped, running>>
    BY <1>2 DEF OpenJournal
  <2> QED
    BY <2>1, SamePositions
    DEF TypesOfPositions, PlaceInv, StoresAreOfBots, ConfigInv, Early, Places, running
<1>3. CASE Recover
  <2> QED
    BY <1>3, SamePositions
    DEF Recover, TypesOfPositions, PlaceInv, StoresAreOfBots, ConfigInv, Early, Places, owned,
        running
<1>4. CASE Wire
  <2>1. at = "wiring" /\ config \in Configs /\ next = 1 /\ tasks = {} /\ stopped = {} /\ transports = <<>>
    BY <1>4, Zenon DEF Wire, ConfigInv, PlaceInv, Early
  <2>2. Positions = {}
    BY <2>1 DEF Positions
  <2>3. stores = {} /\ failed = {} /\ subscribed = {}
    BY <2>2 DEF TypesOfPositions
  <2>4. config' = Forgotten /\ UNCHANGED <<next, failed, stores, stopped, running>>
    BY <1>4, Zenon DEF Wire
  <2>5. CASE RegistryBuilds(config)
    <3>1. /\ at' = IF AllTransports = <<>> THEN "closing" ELSE "starting"
          /\ transports' = AllTransports /\ polling' = [i \in DOMAIN AllTransports |-> "none"]
      BY <1>4, <2>5, Zenon DEF Wire
    <3>2. /\ transports' \in Seq([kind : {"node", "messenger"}, store : BOOLEAN])
          /\ transports' # <<>> => 1 \in Positions'
      BY <2>1, <3>1, AllTransportsType, Zenon DEF Positions
    <3>3. polling' \in [Positions' -> {"none", "running", "dead"}]
      BY <3>1, Zenon DEF Positions
    <3>4. \A i \in Positions' : polling'[i] = "none"
      BY <3>1, Zenon DEF Positions
    <3>5. transports' = <<>> => Positions' = {}
      BY DEF Positions
    <3>6. journal' = TRUE
      BY <1>4, Zenon DEF Wire, PlaceInv
    <3>7. \/ at' = "closing" /\ transports' = <<>>
          \/ at' = "starting" /\ transports' # <<>> /\ 1 \in Positions'
      BY <3>1, <3>2, Zenon
    <3> HIDE DEF IInv
    <3>8. TypesOfPositions'
      BY <2>1, <2>3, <2>4, <3>2, <3>3, <3>4, <3>7
      DEF TypesOfPositions, Places, running
    <3>9. PlaceInv'
      BY <2>1, <2>3, <2>4, <3>5, <3>6, <3>7 DEF PlaceInv, Early, running
    <3>10. StoresAreOfBots' /\ ConfigInv'
      BY <2>3, <2>4, <3>7 DEF StoresAreOfBots, ConfigInv, Early
    <3> QED BY <3>8, <3>9, <3>10 DEF IInv
  <2>6. CASE ~RegistryBuilds(config)
    <3>1. at' = "ended" /\ UNCHANGED <<transports, polling>>
      BY <1>4, <2>6, Zenon DEF Wire
    <3> QED
      BY <2>1, <2>4, <3>1, SamePositions
      DEF TypesOfPositions, PlaceInv, StoresAreOfBots, ConfigInv, Early, Places, running
  <2> QED BY <2>5, <2>6
<1>5. CASE StartNode
  <2>1. at = "starting" /\ Proceed /\ UNCHANGED <<config, transports, failed, owned, subscribed>>
    BY <1>5, Zenon DEF StartNode
  <2> HIDE DEF IInv
  <2>2. /\ next' \in Positions /\ Positions' = Positions /\ \A i : IsMessenger(i)' = IsMessenger(i)
        /\ \/ at' = "starting" /\ tasks' = {}
           \/ at' = "running" /\ tasks' \subseteq Tasks'
    BY <2>1, ProceedPlaces, SamePositions
  <2> USE DEF IInv
  <2>3. next' \in Nat
    BY <2>2, PositionsAre DEF TypesOfPositions
  <2>4. TypesOfPositions'
    BY <2>1, <2>2, <2>3 DEF TypesOfPositions, Places, owned
  <2>5. PlaceInv' /\ StoresAreOfBots' /\ ConfigInv'
    BY <2>1, <2>2 DEF PlaceInv, StoresAreOfBots, ConfigInv, Early, owned
  <2> QED BY <2>4, <2>5
<1>6. CASE StartStore
  <2>1. /\ at = "starting" /\ IsMessenger(next) /\ transports[next].store
        /\ at' = "menus" /\ stores' = stores \cup {next}
        /\ UNCHANGED <<config, transports, next, failed, journal, polling, stopped, running>>
    BY <1>6, Zenon DEF StartStore
  <2>2. next \in Positions
    BY <2>1 DEF TypesOfPositions
  <2>3. TypesOfPositions' /\ StoresAreOfBots'
    BY <2>1, <2>2, SamePositions DEF TypesOfPositions, StoresAreOfBots, Places, running
  <2>4. PlaceInv' /\ ConfigInv'
    BY <2>1, SamePositions DEF PlaceInv, ConfigInv, Early, running
  <2> QED BY <2>3, <2>4
<1>7. CASE StartPolling
  <2>1. /\ at \in {"starting", "menus"} /\ (at = "menus" \/ IsMessenger(next))
        /\ polling' = [polling EXCEPT ![next] = "running"] /\ Proceed
        /\ UNCHANGED <<config, transports, failed, journal, stores, stopped, subscribed>>
    BY <1>7, Zenon DEF StartPolling
  <2>2. IsMessenger(next) /\ next \in Positions
    BY <2>1 DEF PlaceInv, TypesOfPositions
  <2>3. /\ polling' \in [Positions -> {"none", "running", "dead"}]
        /\ \A i \in Positions : polling'[i] # "none" => IsMessenger(i)
    BY <2>1, <2>2 DEF TypesOfPositions
  <2> HIDE DEF IInv
  <2>4. /\ next' \in Positions /\ Positions' = Positions /\ \A i : IsMessenger(i)' = IsMessenger(i)
        /\ \/ at' = "starting" /\ tasks' = {}
           \/ at' = "running" /\ tasks' \subseteq Tasks'
    BY <2>1, ProceedPlaces, SamePositions
  <2> USE DEF IInv
  <2>5. next' \in Nat
    BY <2>4, PositionsAre DEF TypesOfPositions
  <2>6. TypesOfPositions'
    BY <2>1, <2>3, <2>4, <2>5 DEF TypesOfPositions, Places
  <2>7. PlaceInv' /\ StoresAreOfBots' /\ ConfigInv'
    BY <2>1, <2>4 DEF PlaceInv, StoresAreOfBots, ConfigInv, Early
  <2> QED BY <2>6, <2>7
<1>8. CASE StartRaises
  <2>1. next \in Positions /\ failed' # {}
    BY <1>8 DEF StartRaises, TypesOfPositions
  <2> QED
    BY <1>8, <2>1, SamePositions
    DEF StartRaises, TypesOfPositions, PlaceInv, StoresAreOfBots, ConfigInv, Early, Places, owned,
        running
<1>9. CASE TasksEnded
  <2>1. /\ at = "running" /\ tasks = {} /\ at' = "stopping" /\ next' = Len(transports)
        /\ UNCHANGED <<config, transports, failed, owned, running>>
    BY <1>9, Zenon DEF TasksEnded
  <2>2. Len(transports) \in Nat /\ Positions = 1..Len(transports) /\ next \in Positions
    BY <2>1, PositionsAre DEF TypesOfPositions
  <2>3. next' \in Positions /\ next' \in Nat /\ {i \in Positions : next' < i} = {}
    BY <2>1, <2>2
  <2>4. stopped = {} /\ journal = TRUE
    BY <2>1, Zenon DEF PlaceInv
  <2>5. TypesOfPositions' /\ StoresAreOfBots' /\ ConfigInv'
    BY <2>1, <2>3, SamePositions
    DEF TypesOfPositions, StoresAreOfBots, ConfigInv, Early, Places, owned, running
  <2>6. PlaceInv'
    BY <2>1, <2>3, <2>4, SamePositions DEF PlaceInv, Early, owned, running
  <2> QED BY <2>5, <2>6
<1>10. CASE StopNode
  <2>1. /\ at = "stopping" /\ ~IsMessenger(next) /\ Descend /\ stopped' = stopped \cup {next}
        /\ UNCHANGED <<config, transports, failed, journal, stores, polling, running>>
    BY <1>10, Zenon DEF StopNode
  <2>2. next \in Positions /\ next \notin stores /\ polling[next] = "none"
    BY <2>1 DEF TypesOfPositions, StoresAreOfBots
  <2>3. \A i \in stopped \cup {next} : Quiet(i)
    BY <2>1, <2>2 DEF Quiet, PlaceInv
  <2>4. /\ polling' \in [Positions -> {"none", "running", "dead"}]
        /\ \A i \in Positions : polling'[i] # "none" => IsMessenger(i)
    BY <2>1 DEF TypesOfPositions
  <2>5. UNCHANGED <<tasks, subscribed>> /\ stores' \subseteq stores
    BY <2>1 DEF running
  <2>6. \A i \in stopped \cup {next} : Quiet(i)'
    BY <2>1, <2>3 DEF Quiet
  <2> HIDE DEF IInv
  <2> QED BY <2>1, <2>4, <2>5, <2>6, DescendPlaces
<1>11. CASE StopMessenger
  <2>1. /\ at = "stopping" /\ IsMessenger(next) /\ Descend /\ stopped' = stopped \cup {next}
        /\ UNCHANGED <<config, transports, failed, journal, running>>
        /\ IF polling[next] = "running"
           THEN polling' = [polling EXCEPT ![next] = "none"] /\ stores' = stores \ {next}
           ELSE UNCHANGED <<polling, stores>>
    BY <1>11, Zenon DEF StopMessenger
  <2>2. next \in Positions /\ polling \in [Positions -> {"none", "running", "dead"}]
    BY <2>1 DEF TypesOfPositions
  <2>3. /\ polling' \in [Positions -> {"none", "running", "dead"}]
        /\ \A i \in Positions : polling'[i] # "none" => IsMessenger(i)
        /\ stores' \subseteq stores
    BY <2>1, <2>2 DEF TypesOfPositions
  <2>4. stopped = {i \in Positions : next < i} /\ \A i \in stopped : Quiet(i)
    BY <2>1, Zenon DEF PlaceInv
  <2>5. \A i \in stopped : Quiet(i)'
    BY <2>1, <2>2, <2>4 DEF Quiet
  <2>6. polling[next] # "none"
    BY <2>1, <2>2, PositionsAre DEF PolledInv, TypesOfPositions
  <2>7. ASSUME NEW i, i = next PROVE Quiet(i)'
    BY <2>1, <2>2, <2>7, <2>6 DEF Quiet
  <2>8. \A i \in stopped \cup {next} : Quiet(i)'
    BY <2>5, <2>7
  <2>9. UNCHANGED <<tasks, subscribed>>
    BY <2>1 DEF running
  <2> HIDE DEF IInv
  <2> QED BY <2>1, <2>3, <2>8, <2>9, DescendPlaces
<1>12. CASE CloseJournal
  <2>1. polling' \in [Positions -> {"none", "running", "dead"}]
    BY <1>12 DEF CloseJournal
  <2> QED
    BY <1>12, <2>1, SamePositions
    DEF CloseJournal, TypesOfPositions, PlaceInv, StoresAreOfBots, ConfigInv, Early, Places, running
<1>13. CASE Exit
  <2> QED
    BY <1>13, SamePositions
    DEF Exit, TypesOfPositions, PlaceInv, StoresAreOfBots, ConfigInv, Early, Places, owned, running
<1>14. ASSUME NEW i \in Positions, Subscribe(i) PROVE IInv'
  <2>1. at = "running"
    BY <1>14, Zenon DEF Subscribe, PlaceInv
  <2> QED
    BY <1>14, <2>1, SamePositions
    DEF Subscribe, TypesOfPositions, PlaceInv, StoresAreOfBots, ConfigInv, Early, Places, owned
<1>15. ASSUME NEW i \in Positions, Update(i) PROVE IInv'
  <2>1. UNCHANGED <<config, at, transports, next, failed, owned, running>>
    BY <1>15, Zenon DEF Update
  <2> QED
    BY <2>1, SamePositions
    DEF TypesOfPositions, PlaceInv, StoresAreOfBots, ConfigInv, Early, Places, owned, running, Quiet
<1>16. ASSUME NEW i \in Positions, PollingDies(i) PROVE IInv'
  <2>1. /\ polling[i] = "running" /\ polling' = [polling EXCEPT ![i] = "dead"]
        /\ UNCHANGED <<config, at, transports, next, failed, journal, stores, stopped, running>>
    BY <1>16, Zenon DEF PollingDies
  <2>2. TypesOfPositions'
    BY <2>1, SamePositions DEF TypesOfPositions, running
  <2>3. \A j \in Positions : Quiet(j) => Quiet(j)'
    BY <2>1 DEF Quiet, TypesOfPositions
  <2>4. PlaceInv'
    BY <2>1, <2>3, SamePositions DEF PlaceInv, Early, running, TypesOfPositions
  <2> QED BY <2>1, <2>2, <2>4, SamePositions DEF StoresAreOfBots, ConfigInv
<1>17. ASSUME NEW t \in tasks, TaskFails(t) \/ TaskCancelled(t) PROVE IInv'
  <2>1. /\ tasks' \subseteq tasks /\ subscribed' \subseteq subscribed
        /\ UNCHANGED <<config, at, transports, next, failed, owned>>
    BY <1>17 DEF TaskFails, TaskCancelled, Leaves
  <2>2. at = "running"
    BY <1>17, Zenon DEF PlaceInv
  <2> QED
    BY <2>1, <2>2, SamePositions
    DEF TypesOfPositions, PlaceInv, StoresAreOfBots, ConfigInv, Early, Places, owned
<1>18. CASE Signal
  <2>1. CASE receiver
    <3>1. UNCHANGED <<config, at, transports, next, failed, owned, running>>
      BY <1>18, <2>1, Zenon DEF Signal
    <3> QED
      BY <3>1, SamePositions
      DEF TypesOfPositions, PlaceInv, StoresAreOfBots, ConfigInv, Early, Places, owned, running,
          Quiet
  <2>2. CASE ~receiver
    <3>1. /\ at' = "exited" /\ stores' = {} /\ tasks' = {} /\ subscribed' = {}
          /\ polling' = [i \in Positions |-> "none"]
          /\ UNCHANGED <<config, transports, next, failed, stopped>>
      BY <1>18, <2>2, Zenon DEF Signal
    <3>2. polling' \in [Positions -> {"none", "running", "dead"}]
      BY <3>1
    <3> QED
      BY <3>1, <3>2, SamePositions
      DEF TypesOfPositions, PlaceInv, StoresAreOfBots, ConfigInv, Early, Places
  <2> QED BY <2>1, <2>2
<1>19. CASE UNCHANGED vars
  <2> QED
    BY <1>19, SamePositions
    DEF vars, TypesOfPositions, PlaceInv, StoresAreOfBots, ConfigInv, Early, Places, owned, running,
        Quiet
<1> QED
    BY <1>1, <1>2, <1>3, <1>4, <1>5, <1>6, <1>7, <1>8, <1>9, <1>10, <1>11, <1>12, <1>13, <1>14,
       <1>15, <1>16, <1>17, <1>18, <1>19, Zenon DEF Next, Main

LEMMA LifecycleInvariant == Spec => []IInv
<1>1. Init => PolledInv
    BY DEF Init, PolledInv
<1> QED BY <1>1, InitLifecycle, NextLifecycle, NextPolled, PTL DEF Spec

\* The variables have their types in every reachable state.
THEOREM LifecycleTypes == Spec => []TypeOK
<1>1. Init => TruthValues /\ Counters
    BY InitTypes
<1>2. TruthValues /\ Counters /\ [Next]_vars => (TruthValues /\ Counters)'
    BY NextTruth, NextCounters
<1>3. IInv /\ TruthValues /\ Counters => TypeOK
    BY TypeOKParts, Zenon DEF IInv
<1> QED BY <1>1, <1>2, <1>3, LifecycleInvariant, PTL DEF Spec

\* The journal and the transports outlive the tasks, and after the tasks every transport is stopped.
THEOREM LifecycleOrderlyStop == Spec => []OrderlyStop
<1>1. IInv => OrderlyStop
  <2> SUFFICES ASSUME IInv PROVE OrderlyStop
      OBVIOUS
  <2>1. tasks # {} => journal /\ stopped = {}
      BY Zenon DEF IInv, PlaceInv
  <2>2. at = "closing" /\ failed = {} => stopped = Positions /\ \A i \in Positions : Quiet(i)
      BY Zenon DEF IInv, PlaceInv
  <2>3. \A i \in stores : i \in Positions
      BY DEF IInv, TypesOfPositions
  <2> QED BY <2>1, <2>2, <2>3, Zenon DEF OrderlyStop, Quiet
<1> QED BY <1>1, LifecycleInvariant, PTL DEF Spec

\* Until something is cancelled, all the tasks run.
AllRun == at = "running" /\ ~cancelled => tasks = Tasks

LEMMA NextAllRun == IInv /\ AllRun /\ [Next]_vars => AllRun'
<1> SUFFICES ASSUME IInv, AllRun, [Next]_vars, at' = "running", ~cancelled'
             PROVE  tasks' = Tasks'
    BY DEF AllRun
<1>1. CASE StartNode \/ StartPolling
  <2>1. Proceed /\ UNCHANGED transports
    BY <1>1, Zenon DEF StartNode, StartPolling
  <2> QED BY <2>1, SamePositions DEF Proceed
<1>2. CASE UNCHANGED <<at, transports, tasks, cancelled>>
    BY <1>2, SamePositions DEF AllRun
<1>3. CASE Validate \/ OpenJournal \/ Recover \/ StartStore \/ StartRaises \/ CloseJournal \/ Exit
            \/ TasksEnded
    BY <1>3
    DEF Validate, OpenJournal, Recover, StartStore, StartRaises, CloseJournal, Exit, TasksEnded
<1>4. CASE Wire
    BY <1>4, Zenon DEF Wire
<1>5. CASE StopNode \/ StopMessenger
    BY <1>5, Zenon DEF StopNode, StopMessenger, Descend
<1>6. ASSUME NEW t \in tasks, TaskFails(t) PROVE FALSE
    BY <1>6, Zenon DEF TaskFails
<1>7. ASSUME NEW t \in tasks, TaskCancelled(t) PROVE FALSE
    BY <1>7, Zenon DEF TaskCancelled
<1>8. CASE Signal
  <2>1. CASE receiver
    BY <1>8, <2>1, Zenon DEF Signal
  <2>2. CASE ~receiver
    BY <1>8, <2>2, Zenon DEF Signal
  <2> QED BY <2>1, <2>2, Zenon
<1>9. ASSUME NEW i \in Positions, Subscribe(i) \/ Update(i) \/ PollingDies(i)
      PROVE  tasks' = Tasks'
    BY <1>2, <1>9, Zenon DEF Subscribe, Update, PollingDies, running
<1>10. CASE UNCHANGED vars
    BY <1>2, <1>10, Zenon DEF vars, running
<1> QED BY <1>1, <1>3, <1>4, <1>5, <1>6, <1>7, <1>8, <1>9, <1>10, Zenon DEF Next, Main

\* A step that loses an update is an Update that finds no subscriber.
LEMMA LossIsAnUpdate ==
    ASSUME [Next]_vars, lost' # lost
    PROVE  \E i \in Positions : i \notin subscribed
<1>1. ASSUME NEW i \in Positions, Update(i) PROVE i \notin subscribed
    BY <1>1, Zenon DEF Update
<1>2. ~ UNCHANGED world /\ ~ Signal
    BY Zenon DEF world, Signal
<1> QED
    BY <1>1, <1>2, Zenon
    DEF Next, Main, vars, Validate, OpenJournal, Recover, Wire, StartNode, StartStore, StartPolling,
        StartRaises, Subscribe, TaskFails, TaskCancelled, TasksEnded, StopNode, StopMessenger,
        CloseJournal, Exit, PollingDies

\* An update is lost only while start-up or shutdown is under way.
THEOREM LifecycleLoss == Spec => LossNeedsAnEdge
<1>1. Init => AllRun
    BY DEF Init, AllRun
<1>2. AllRun /\ [Next]_vars =>
        [lost' # lost =>
           \/ at # "running" \/ cancelled
           \/ \E i \in Positions : <<"consume", i>> \in tasks /\ i \notin subscribed]_vars
  <2> SUFFICES ASSUME AllRun, [Next]_vars, lost' # lost, at = "running", ~cancelled
               PROVE  \E i \in Positions : <<"consume", i>> \in tasks /\ i \notin subscribed
      OBVIOUS
  <2>1. tasks = Tasks
      BY DEF AllRun
  <2>2. PICK i \in Positions : i \notin subscribed
      BY LossIsAnUpdate
  <2> QED BY <2>1, <2>2 DEF Tasks
<1> QED BY <1>1, <1>2, LifecycleInvariant, NextAllRun, PTL DEF Spec, LossNeedsAnEdge
---------------------------------------------------------------------------
(* The rooms: what the validators accept can be routed.                    *)

\* What a joined channel is made of: the chat, the "#", the topic.
LEMMA Joined ==
    ASSUME NEW S, NEW c \in Seq(S), NEW t \in Seq(S)
    PROVE  LET s == c \o <<Hash>> \o t
           IN  /\ Len(s) = Len(c) + 1 + Len(t) /\ s[Len(c) + 1] = Hash
               /\ \A i \in 1..Len(c) : s[i] = c[i]
               /\ \A i \in 1..Len(t) : s[Len(c) + 1 + i] = t[i]
<1> DEFINE T == S \cup {Hash}
           h == <<Hash>>
           a == c \o h
<1>1. c \in Seq(T) /\ t \in Seq(T) /\ h \in Seq(T)
    OBVIOUS
<1>2. Len(h) = 1 /\ h[1] = Hash
    OBVIOUS
<1> HIDE DEF T, h
<1>3. /\ a \in Seq(T) /\ Len(a) = Len(c) + 1 /\ Len(c) \in Nat /\ Len(t) \in Nat
      /\ \A i \in 1..Len(c) : a[i] = c[i]
      /\ a[Len(c) + 1] = Hash
  <2>1. Len(c) \in Nat /\ Len(t) \in Nat
    BY <1>1
  <2>2. /\ a \in Seq(T) /\ Len(a) = Len(c) + Len(h)
        /\ \A i \in 1..Len(c) + Len(h) : a[i] = IF i <= Len(c) THEN c[i] ELSE h[i - Len(c)]
    BY <1>1, ConcatProperties
  <2>3. a[Len(c) + 1] = h[1]
    BY <1>2, <2>1, <2>2
  <2> HIDE DEF a
  <2> QED BY <1>2, <2>1, <2>2, <2>3
<1> HIDE DEF a
<1>4. /\ Len(a \o t) = Len(a) + Len(t)
      /\ \A i \in 1..Len(a) : (a \o t)[i] = a[i]
      /\ \A i \in 1..Len(t) : (a \o t)[Len(a) + i] = t[i]
  <2>1. /\ Len(a \o t) = Len(a) + Len(t)
        /\ \A i \in 1..Len(a) + Len(t) : (a \o t)[i] = IF i <= Len(a) THEN a[i] ELSE t[i - Len(a)]
    BY <1>1, <1>3, ConcatProperties
  <2> QED BY <1>3, <2>1
<1>5. /\ Len(a \o t) = Len(c) + 1 + Len(t) /\ (a \o t)[Len(c) + 1] = Hash
      /\ \A i \in 1..Len(c) : (a \o t)[i] = c[i]
      /\ \A i \in 1..Len(t) : (a \o t)[Len(c) + 1 + i] = t[i]
    BY <1>3, <1>4
<1> QED
    BY <1>5 DEF a, h

NoHash(chat) == \A i \in DOMAIN chat : chat[i] # Hash

\* The first "#" of a joined channel is the one that was put there.
LEMMA JoinedChat ==
    ASSUME NEW S, NEW c \in Seq(S), NEW t \in Seq(S), NEW d \in Seq(S), NEW u \in Seq(S),
           NoHash(c), NoHash(d), c \o <<Hash>> \o t = d \o <<Hash>> \o u
    PROVE  c = d /\ t = u
<1> DEFINE s == c \o <<Hash>> \o t
<1>1. /\ Len(s) = Len(c) + 1 + Len(t) /\ s[Len(c) + 1] = Hash
      /\ \A i \in 1..Len(c) : s[i] = c[i]
      /\ \A i \in 1..Len(t) : s[Len(c) + 1 + i] = t[i]
    BY Joined
<1>2. /\ Len(s) = Len(d) + 1 + Len(u) /\ s[Len(d) + 1] = Hash
      /\ \A i \in 1..Len(d) : s[i] = d[i]
      /\ \A i \in 1..Len(u) : s[Len(d) + 1 + i] = u[i]
  <2> DEFINE r == d \o <<Hash>> \o u
  <2>1. /\ Len(r) = Len(d) + 1 + Len(u) /\ r[Len(d) + 1] = Hash
        /\ \A i \in 1..Len(d) : r[i] = d[i]
        /\ \A i \in 1..Len(u) : r[Len(d) + 1 + i] = u[i]
    BY Joined
  <2>2. s = r
    OBVIOUS
  <2> HIDE DEF s, r
  <2> QED BY <2>1, <2>2
<1> HIDE DEF s
<1>3. Len(c) \in Nat /\ Len(d) \in Nat /\ Len(t) \in Nat /\ Len(u) \in Nat
    OBVIOUS
<1>4. \A i \in 1..Len(c) : c[i] # Hash
    BY DEF NoHash
<1>5. \A i \in 1..Len(d) : d[i] # Hash
    BY DEF NoHash
<1>6. Len(c) = Len(d)
  <2>1. ~(Len(c) < Len(d))
    <3>1. SUFFICES ASSUME Len(c) < Len(d) PROVE FALSE
      OBVIOUS
    <3>2. Len(c) + 1 \in 1..Len(d)
      BY <1>3, <3>1
    <3> QED BY <1>1, <1>2, <1>5, <3>2
  <2>2. ~(Len(d) < Len(c))
    <3>1. SUFFICES ASSUME Len(d) < Len(c) PROVE FALSE
      OBVIOUS
    <3>2. Len(d) + 1 \in 1..Len(c)
      BY <1>3, <3>1
    <3> QED BY <1>1, <1>2, <1>4, <3>2
  <2> QED BY <1>3, <2>1, <2>2
<1>7. Len(t) = Len(u)
    BY <1>1, <1>2, <1>3, <1>6
<1>8. \A i \in 1..Len(c) : c[i] = d[i]
    BY <1>1, <1>2, <1>6
<1>9. \A i \in 1..Len(t) : t[i] = u[i]
    BY <1>1, <1>2, <1>6, <1>7
<1> QED
    BY <1>6, <1>7, <1>8, <1>9, SeqEqual

\* The channel of a messenger tells chat and topic, if no chat has a "#" and no topic is empty.
LEMMA ChannelTells ==
    ASSUME NEW S, NEW c \in Seq(S), NEW d \in Seq(S), NEW t, NEW u,
           t = NoTopic \/ t \in Seq(S), u = NoTopic \/ u \in Seq(S), t # <<>>, u # <<>>,
           NoHash(c), NoHash(d), messenger_channel(c, t) = messenger_channel(d, u)
    PROVE  c = d /\ t = u
<1>1. ASSUME NEW x \in Seq(S), NEW y \in Seq(S), NEW v \in Seq(S), NoHash(x)
      PROVE  x # y \o <<Hash>> \o v
  <2> DEFINE s == y \o <<Hash>> \o v
  <2>1. Len(s) = Len(y) + 1 + Len(v) /\ s[Len(y) + 1] = Hash
    BY Joined
  <2> HIDE DEF s
  <2>2. SUFFICES ASSUME x = s PROVE FALSE
    BY DEF s
  <2>3. Len(y) + 1 \in DOMAIN x
    BY <2>1, <2>2
  <2> QED BY <1>1, <2>1, <2>2, <2>3 DEF NoHash
<1>2. CASE t = NoTopic /\ u = NoTopic
    BY <1>2 DEF messenger_channel
<1>3. CASE t = NoTopic /\ u # NoTopic
  <2>1. c = d \o <<Hash>> \o u
    BY <1>3 DEF messenger_channel
  <2> QED BY <1>1, <1>3, <2>1
<1>4. CASE t # NoTopic /\ u = NoTopic
  <2>1. d = c \o <<Hash>> \o t
    BY <1>4 DEF messenger_channel
  <2> QED BY <1>1, <1>4, <2>1
<1>5. CASE t # NoTopic /\ u # NoTopic
  <2>1. c \o <<Hash>> \o t = d \o <<Hash>> \o u
    BY <1>5 DEF messenger_channel
  <2>2. t \in Seq(S) /\ u \in Seq(S)
    BY <1>5
  <2> QED BY <2>1, <2>2, JoinedChat
<1> QED
    BY <1>2, <1>3, <1>4, <1>5
\* Of two members of one kind each has its own reference, if channels can be told apart.
TellsApart(m) == ~IsLora(m) => m.topic # <<>> /\ NoHash(m.chat)

LEMMA RefTells ==
    ASSUME NEW m, NEW o, IsMember(m), IsMember(o), TellsApart(m), TellsApart(o),
           IsLora(m) <=> IsLora(o), ref(m) = ref(o)
    PROVE  m = o
<1>1. CASE IsLora(m)
  <2>1. /\ m = [node |-> m.node, endpoint |-> m.endpoint]
        /\ o = [node |-> o.node, endpoint |-> o.endpoint]
    BY <1>1, Zenon DEF IsMember
  <2>2. [transport |-> m.node, channel |-> <<m.endpoint>>] =
        [transport |-> o.node, channel |-> <<o.endpoint>>]
    BY <1>1, Zenon DEF ref
  <2>3. m.node = o.node /\ <<m.endpoint>> = <<o.endpoint>>
    BY <2>2
  <2>4. m.endpoint = o.endpoint
    BY <2>3
  <2> QED BY <2>1, <2>3, <2>4, Zenon
<1>2. CASE ~IsLora(m)
  <2>1. /\ m = [transport |-> m.transport, chat |-> m.chat, topic |-> m.topic]
        /\ o = [transport |-> o.transport, chat |-> o.chat, topic |-> o.topic]
    BY <1>2, Zenon DEF IsMember
  <2>2. [transport |-> m.transport, channel |-> messenger_channel(m.chat, m.topic)] =
        [transport |-> o.transport, channel |-> messenger_channel(o.chat, o.topic)]
    BY <1>2, Zenon DEF ref
  <2>3. m.transport = o.transport
        /\ messenger_channel(m.chat, m.topic) = messenger_channel(o.chat, o.topic)
    BY <2>2
  <2> DEFINE S == Range(m.chat) \cup Range(m.topic) \cup Range(o.chat) \cup Range(o.topic)
  <2>4. /\ m.chat \in Seq(S) /\ o.chat \in Seq(S)
        /\ m.topic = NoTopic \/ m.topic \in Seq(S)
        /\ o.topic = NoTopic \/ o.topic \in Seq(S)
    <3>1. /\ m.chat \in Seq(Range(m.chat)) /\ (m.topic = NoTopic \/ m.topic \in Seq(Range(m.topic)))
          /\ o.chat \in Seq(Range(o.chat)) /\ (o.topic = NoTopic \/ o.topic \in Seq(Range(o.topic)))
      BY <1>2, Zenon DEF IsMember
    <3>2. /\ Range(m.chat) \subseteq S /\ Range(m.topic) \subseteq S
          /\ Range(o.chat) \subseteq S /\ Range(o.topic) \subseteq S
      OBVIOUS
    <3> HIDE DEF S
    <3>3. /\ m.chat \in Seq(Range(m.chat)) => m.chat \in Seq(S)
          /\ o.chat \in Seq(Range(o.chat)) => o.chat \in Seq(S)
          /\ m.topic \in Seq(Range(m.topic)) => m.topic \in Seq(S)
          /\ o.topic \in Seq(Range(o.topic)) => o.topic \in Seq(S)
      BY <3>2, SeqMonotonic, Zenon
    <3> QED BY <3>1, <3>3
  <2> HIDE DEF S
  <2>5. m.topic # <<>> /\ o.topic # <<>> /\ NoHash(m.chat) /\ NoHash(o.chat)
    BY <1>2 DEF TellsApart
  <2>6. m.chat = o.chat /\ m.topic = o.topic
    BY <2>3, <2>4, <2>5, ChannelTells
  <2> QED BY <2>1, <2>3, <2>6, Zenon
<1> QED
    BY <1>1, <1>2

\* The list of a room: the primary endpoint, then the subscribers.
LEMMA MembersAre ==
    ASSUME NEW room, IsRoom(room)
    PROVE  /\ Len(room.subscribers) \in Nat
           /\ DOMAIN room.subscribers = 1..Len(room.subscribers)
           /\ DOMAIN members(room) = 1..(Len(room.subscribers) + 1)
           /\ members(room)[1] = room.lora
           /\ \A i \in 1..Len(room.subscribers) : members(room)[i + 1] = room.subscribers[i]
           /\ \A i \in DOMAIN members(room) : IsMember(members(room)[i])
<1> DEFINE subs == room.subscribers
           T == Range(subs) \cup {room.lora}
           h == <<room.lora>>
<1>1. /\ subs \in Seq(Range(subs)) /\ IsMember(room.lora) /\ \A m \in Range(subs) : IsMember(m)
    BY Zenon DEF IsRoom
<1>2. h \in Seq(T) /\ Len(h) = 1 /\ h[1] = room.lora
    OBVIOUS
<1>3. subs \in Seq(T)
  <2>1. Range(subs) \subseteq T
    OBVIOUS
  <2> HIDE DEF T
  <2> QED BY <1>1, <2>1, SeqMonotonic, Zenon
<1>4. \A m \in T : IsMember(m)
    BY <1>1
<1>5. members(room) = h \o subs
    BY DEF members
<1> HIDE DEF subs, T, h
<1>6. Len(subs) \in Nat /\ DOMAIN subs = 1..Len(subs)
    BY <1>3
<1>7. /\ h \o subs \in Seq(T) /\ Len(h \o subs) = 1 + Len(subs)
      /\ \A i \in 1..1 + Len(subs) : (h \o subs)[i] = IF i <= 1 THEN h[i] ELSE subs[i - 1]
    BY <1>2, <1>3, ConcatProperties
<1>8. DOMAIN members(room) = 1..(Len(subs) + 1) /\ members(room)[1] = room.lora
    BY <1>2, <1>5, <1>6, <1>7
<1>9. \A i \in 1..Len(subs) : members(room)[i + 1] = subs[i]
    BY <1>5, <1>6, <1>7
<1>10. \A i \in DOMAIN members(room) : members(room)[i] \in T
    BY <1>5, <1>7, <1>8
<1> QED
    BY <1>4, <1>6, <1>8, <1>9, <1>10 DEF subs

IsConfig(c) == c.rooms \in Seq(Range(c.rooms)) /\ \A room \in Range(c.rooms) : IsRoom(room)

LEMMA SeatIs ==
    ASSUME NEW c, NEW seat
    PROVE  seat \in Seats(c) <=>
             /\ seat = <<seat[1], seat[2]>> /\ seat[1] \in DOMAIN c.rooms
             /\ seat[2] \in DOMAIN members(c.rooms[seat[1]])
    BY DEF Seats
\* Where everyone in an accepted configuration is known to be from.
LEMMA SeatedKnown ==
    ASSUME NEW c, IsConfig(c), Accepted(c), Separable(c), NEW seat \in Seats(c)
    PROVE  /\ c.rooms[seat[1]] \in Range(c.rooms) /\ IsRoom(c.rooms[seat[1]])
           /\ IsMember(MemberAt(c, seat)) /\ TellsApart(MemberAt(c, seat))
           /\ IF IsLora(MemberAt(c, seat)) THEN MemberAt(c, seat).node \in NodeIds(c)
              ELSE MemberAt(c, seat).transport \in MessengerIds(c)
<1> DEFINE room == c.rooms[seat[1]]
           m == MemberAt(c, seat)
<1>1. seat[1] \in DOMAIN c.rooms /\ seat[2] \in DOMAIN members(room)
    BY SeatIs
<1>2. room \in Range(c.rooms)
    BY <1>1 DEF Range
<1>3. IsRoom(room)
    BY <1>2, Zenon DEF IsConfig
<1>4. IsMember(m)
    BY <1>1, <1>3, MembersAre, Zenon DEF MemberAt
<1>5. TellsApart(m)
    BY Zenon DEF Separable, TellsApart, NoHash
<1>6. IF IsLora(m) THEN validate_lora_ref(c, m) ELSE m.transport \in MessengerIds(c)
    BY Zenon DEF Accepted, validate_room_refs
<1>7. ASSUME validate_lora_ref(c, m) PROVE m.node \in NodeIds(c)
  <2>1. PICK i \in DOMAIN c.lora : c.lora[i].id = m.node
    BY <1>7, Zenon DEF validate_lora_ref
  <2>2. ids(c.lora) = [j \in DOMAIN c.lora |-> c.lora[j].id]
    BY DEF ids
  <2> HIDE DEF m
  <2> QED BY <2>1, <2>2 DEF NodeIds, Range
<1> QED
    BY <1>2, <1>3, <1>4, <1>5, <1>6, <1>7, Zenon

\* Two seats with one reference are one seat.
LEMMA OneSeat ==
    ASSUME NEW c, IsConfig(c), Accepted(c), Separable(c), NEW s \in Seats(c), NEW t \in Seats(c),
           ref(MemberAt(c, s)) = ref(MemberAt(c, t))
    PROVE  s = t
<1> DEFINE m == MemberAt(c, s)
           o == MemberAt(c, t)
<1>1. /\ IsMember(m) /\ TellsApart(m) /\ IsMember(o) /\ TellsApart(o)
      /\ IF IsLora(m) THEN m.node \in NodeIds(c) ELSE m.transport \in MessengerIds(c)
      /\ IF IsLora(o) THEN o.node \in NodeIds(c) ELSE o.transport \in MessengerIds(c)
    BY SeatedKnown, Zenon
<1>2. IsInjective([x \in Seats(c) |-> MemberAt(c, x)])
    BY Zenon DEF Accepted, validate_unique_membership
<1>3. ref(m) = ref(o)
    OBVIOUS
<1>4. m = o => s = t
    BY <1>2 DEF IsInjective
<1> HIDE DEF m, o
<1>5. ref(m).transport \in IF IsLora(m) THEN NodeIds(c) ELSE MessengerIds(c)
    BY <1>1 DEF ref
<1>6. ref(o).transport \in IF IsLora(o) THEN NodeIds(c) ELSE MessengerIds(c)
    BY <1>1 DEF ref
<1>7. IsLora(m) <=> IsLora(o)
    BY <1>3, <1>5, <1>6 DEF Separable
<1> QED
    BY <1>1, <1>3, <1>4, <1>7, RefTells

\* In the list of a messenger's room the primary endpoint is the only one of LoRa.
LEMMA MessengersRoom ==
    ASSUME NEW room, IsRoom(room), enforce_shape(room), NEW j \in DOMAIN members(room),
           ~IsLora(members(room)[j])
    PROVE  /\ 1 \in DOMAIN members(room) /\ j # 1 /\ IsLora(members(room)[1])
           /\ DOMAIN members(room) \subseteq Nat
           /\ \A i \in DOMAIN members(room) : IsLora(members(room)[i]) => i = 1
<1> DEFINE subs == room.subscribers
           n == Len(subs)
           L == members(room)
           loras == {i \in DOMAIN subs : IsLora(subs[i])}
<1>1. IsLora(room.lora)
    BY Zenon DEF IsRoom
<1>2. /\ n \in Nat /\ DOMAIN subs = 1..n /\ DOMAIN L = 1..(n + 1) /\ L[1] = room.lora
      /\ \A i \in 1..n : L[i + 1] = subs[i]
    BY MembersAre, Zenon
<1>3. loras # {} => n = 1
    BY Zenon DEF enforce_shape
<1> HIDE DEF subs, n, L
<1>4. ASSUME NEW i \in DOMAIN L, i # 1 PROVE i - 1 \in 1..n /\ L[i] = subs[i - 1]
  <2>1. i - 1 \in 1..n /\ (i - 1) + 1 = i
    BY <1>2, <1>4
  <2> QED BY <1>2, <2>1
<1>5. j \in DOMAIN L /\ ~IsLora(L[j]) /\ j # 1
    BY <1>1, <1>2 DEF L
<1>6. loras = {}
  <2>1. SUFFICES ASSUME loras # {} PROVE FALSE
    OBVIOUS
  <2>2. n = 1
    BY <1>3, <2>1
  <2>3. PICK i \in 1..n : IsLora(subs[i])
    BY <1>2, <2>1
  <2>4. i = 1 /\ j - 1 = 1
    BY <1>4, <1>5, <2>2
  <2> QED BY <1>4, <1>5, <2>3, <2>4
<1>7. \A i \in DOMAIN L : IsLora(L[i]) => i = 1
    BY <1>2, <1>4, <1>6
<1>8. 1 \in DOMAIN L /\ DOMAIN L \subseteq Nat
    BY <1>2
<1> QED
    BY <1>1, <1>2, <1>5, <1>7, <1>8 DEF L

\* What the validators accept, the registry builds and the routing serves.
LEMMA AcceptedRoutes ==
    ASSUME NEW c, IsConfig(c), Accepted(c), Separable(c)
    PROVE  Routable(c)
<1>1. RegistryBuilds(c)
    BY OneSeat, Zenon DEF RegistryBuilds, IsInjective
<1>2. ASSUME NEW seat \in Seats(c), NEW room \in for_source(c, ref(MemberAt(c, seat)))
      PROVE  Reached(c, room, ref(MemberAt(c, seat))) = Range(members(room)) \ {MemberAt(c, seat)}
  <2> DEFINE m == MemberAt(c, seat)
             L == members(room)
             j == seat[2]
  <2>1. PICK i \in DOMAIN c.rooms : room = c.rooms[i]
    BY <1>2 DEF for_source, Range
  <2>2. ASSUME NEW k \in DOMAIN L
        PROVE  ref(L[k]) = ref(m) => seat[1] = i /\ seat[2] = k
    <3>1. <<i, k>> \in Seats(c)
      BY <2>1, <2>2, SeatIs
    <3>2. MemberAt(c, <<i, k>>) = L[k]
      BY <2>1 DEF MemberAt
    <3>3. ref(L[k]) = ref(m) => <<i, k>> = seat
      BY <3>1, <3>2, OneSeat, Zenon
    <3> HIDE DEF L, m
    <3> QED BY <3>3
  <2>3. seat[1] = i
    <3>1. \E o \in Range(L) : ref(o) = ref(m)
      BY <1>2 DEF for_source
    <3> HIDE DEF L, m
    <3>2. PICK k \in DOMAIN L : ref(L[k]) = ref(m)
      BY <3>1 DEF Range
    <3> QED BY <2>2, <3>2
  <2>4. j \in DOMAIN L /\ L[j] = m
    BY <2>1, <2>3, SeatIs DEF MemberAt
  <2>5. /\ IsRoom(room) /\ room \in Range(c.rooms)
        /\ IF IsLora(m) THEN m.node \in NodeIds(c) ELSE m.transport \in MessengerIds(c)
    BY <2>1, <2>3, SeatedKnown, Zenon
  <2>6. enforce_shape(room)
    BY <2>5, Zenon DEF Accepted
  <2>7. \A k \in DOMAIN L : ref(L[k]) = ref(m) => k = j
    BY <2>2, Zenon
  <2> HIDE DEF m, L, j
  <2>8. others(room, ref(m)) = DOMAIN L \ {j}
    BY <2>4, <2>7 DEF others, L
  <2>9. Recipients(c, room, ref(m)) = DOMAIN L \ {j}
    <3>1. CASE IsLora(m)
      <4>1. ref(m).transport \in NodeIds(c)
        BY <2>5, <3>1 DEF ref
      <4> QED BY <2>8, <4>1 DEF Recipients
    <3>2. CASE ~IsLora(m)
      <4>1. ref(m).transport \notin NodeIds(c)
        BY <2>5, <3>2 DEF ref, Separable
      <4>2. /\ 1 \in DOMAIN L \ {j} /\ IsLora(L[1])
            /\ \A k \in DOMAIN L : IsLora(L[k]) => k = 1
        BY <2>4, <2>5, <2>6, <3>2, MessengersRoom DEF L
      <4>3. {k \in DOMAIN L \ {j} : IsLora(members(room)[k])} = {1}
        BY <4>2 DEF L
      <4> QED BY <2>8, <4>1, <4>3 DEF Recipients
    <3> QED BY <3>1, <3>2
  <2>10. Reached(c, room, ref(m)) = {L[k] : k \in DOMAIN L \ {j}}
    BY <2>9 DEF Reached, L
  <2>11. \A k \in DOMAIN L : L[k] = m => k = j
    BY <2>7
  <2>12. {L[k] : k \in DOMAIN L \ {j}} = Range(L) \ {m}
    BY <2>4, <2>11 DEF Range
  <2> QED BY <2>10, <2>12 DEF m, L
<1> QED
    BY <1>1, <1>2, Zenon DEF Routable

\* Until the rooms are wired, the configuration in use is one that was accepted.
AcceptedInv == at \in {"opening", "recovering", "wiring"} => Accepted(config)

LEMMA NextAccepted == AcceptedInv /\ [Next]_vars => AcceptedInv'
<1> SUFFICES ASSUME AcceptedInv, [Next]_vars, at' \in {"opening", "recovering", "wiring"}
             PROVE  Accepted(config)'
    BY DEF AcceptedInv
<1>1. CASE Validate
    BY <1>1, Zenon DEF Validate
<1>2. ASSUME ~Validate
      PROVE  config' = config /\ at \in {"opening", "recovering", "wiring"}
  <2>1. at' # "starting" /\ at' # "closing" /\ at' # "ended" /\ at' # "menus" /\ at' # "running"
        /\ at' # "stopping" /\ at' # "exited"
    OBVIOUS
  <2>2. ASSUME Proceed \/ Descend PROVE FALSE
    BY <2>1, <2>2, Zenon DEF Proceed, Descend
  <2>3. CASE OpenJournal \/ Recover
    BY <2>3, Zenon DEF OpenJournal, Recover
  <2>4. ~(Wire \/ StartNode \/ StartStore \/ StartPolling \/ StartRaises \/ TasksEnded
          \/ StopNode \/ StopMessenger \/ CloseJournal \/ Exit)
    BY <2>1, <2>2, Zenon
    DEF Wire, StartNode, StartStore, StartPolling, StartRaises, TasksEnded, StopNode,
        StopMessenger, CloseJournal, Exit
  <2>5. CASE UNCHANGED <<at, config>>
    BY <2>5
  <2>6. ASSUME Signal PROVE UNCHANGED <<at, config>>
    BY <2>1, <2>6, Zenon DEF Signal
  <2>7. ASSUME NEW i, Subscribe(i) \/ Update(i) \/ PollingDies(i) PROVE UNCHANGED <<at, config>>
    BY <2>7, Zenon DEF Subscribe, Update, PollingDies
  <2>8. ASSUME NEW t, TaskFails(t) \/ TaskCancelled(t) PROVE UNCHANGED <<at, config>>
    BY <2>8, Zenon DEF TaskFails, TaskCancelled
  <2>9. ASSUME UNCHANGED vars PROVE UNCHANGED <<at, config>>
    BY <2>9, Zenon DEF vars
  <2> QED
    BY <1>2, <2>3, <2>4, <2>5, <2>6, <2>7, <2>8, <2>9, Zenon DEF Next, Main
<1>3. CASE ~Validate
    BY <1>2, <1>3, Zenon DEF AcceptedInv
<1> QED
    BY <1>1, <1>3

\* Every accepted configuration with separable keys builds its registry, and a message of any
\* member reaches the rest of its room, however many rooms, nodes and bots there are.
THEOREM LifecycleRoutable == Spec => []AcceptedIsRoutable
<1>1. Init => AcceptedInv
    BY DEF Init, AcceptedInv
<1>2. ASSUME IInv, AcceptedInv PROVE AcceptedIsRoutable
  <2> SUFFICES ASSUME at \in {"opening", "recovering", "wiring"}, Separable(config)
               PROVE  Routable(config)
    BY Zenon DEF AcceptedIsRoutable
  <2>1. config \in Configs
    BY <1>2 DEF IInv, ConfigInv, Early
  <2>2. IsConfig(config)
    BY <2>1, LifecycleAssumption, Zenon DEF IsConfig
  <2> QED BY <1>2, <2>2, AcceptedRoutes, Zenon DEF AcceptedInv
<1> QED
    BY <1>1, <1>2, LifecycleInvariant, NextAccepted, PTL DEF Spec
=============================================================================
