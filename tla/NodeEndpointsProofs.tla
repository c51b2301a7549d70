------------------------- MODULE NodeEndpointsProofs -------------------------
(***************************************************************************)
(* The connection of a node, for every set of endpoints and any number of  *)
(* connections: the device is never opened twice, and run() waits only     *)
(* with every endpoint resolved on the connection in use.  Both follow     *)
(* from what each place of start() and run() implies about the connection. *)
(*                                                                         *)
(* The node with the tables of its device, for every configuration and     *)
(* every table the device may have been left with: a slot number in use    *)
(* holds the endpoint's own channel, no frame of a configured channel is   *)
(* taken for another's, the contacts stay within the capacity of the       *)
(* device, and the node is a node as MeshCoreLink describes it.            *)
(***************************************************************************)
EXTENDS NodeEndpoints, FiniteSetTheorems, TLAPS

(* The connection.                                                         *)

Types ==
    /\ at \in Places
    /\ opened \in Nat
    /\ mc \in Nat
    /\ slot \in [Endpoints -> Nat]

\* The connection in use is the one that is open.
InUse == open = IF mc = None THEN {} ELSE {mc}

AllResolved == \A e \in Endpoints : slot[e] = mc

\* What the place of start() or run() implies about the connection.
PlaceInv ==
    /\ at \in Preparing => mc # None
    /\ at \in {"connecting", "closing"} => mc = None
    /\ at = "fetching" => AllResolved
    /\ at = "waiting" => mc = None \/ AllResolved
    /\ at \notin {"closing", "stopped"} => InUse
    /\ \E c \in Nat : open \subseteq {c}

LinkInv == Types /\ PlaceInv

USE DEF None

LEMMA InitLink == Init => LinkInv
<1> SUFFICES ASSUME Init PROVE LinkInv
    OBVIOUS
<1>1. Types
    BY DEF Init, Types, Places, Preparing
<1>2. PlaceInv
    BY DEF Init, PlaceInv, InUse, Preparing
<1> QED
    BY <1>1, <1>2 DEF LinkInv

LEMMA NextLink == LinkInv /\ [Next]_vars => LinkInv'
<1> SUFFICES ASSUME LinkInv, [Next]_vars PROVE LinkInv'
    OBVIOUS
<1> USE DEF LinkInv, Types, PlaceInv, InUse, AllResolved, Places, Preparing, linkVars
<1>1. CASE ConnectOk
  <2>1. open = {} /\ opened \in Nat
    BY <1>1 DEF ConnectOk
  <2>2. mc' = opened + 1 /\ opened' = opened + 1 /\ at' = "setting_time" /\ slot' = slot
    BY <1>1 DEF ConnectOk
  <2>3. mc' \in Nat /\ mc' # 0 /\ opened' \in Nat
    BY <2>1, <2>2
  <2>4. open' = {mc'}
    BY <1>1, <2>1, <2>2 DEF ConnectOk
  <2> QED BY <2>2, <2>3, <2>4
<1>2. CASE ConnectFails
    BY <1>2 DEF ConnectFails, Started
<1>3. CASE Prepare
    BY <1>3 DEF Prepare
<1>4. CASE Resolve
  <2>1. PICK e \in Endpoints : ResolveEndpoint(e)
    BY <1>4 DEF Resolve
  <2>2. /\ slot' \in [Endpoints -> Nat] /\ mc' = mc /\ open' = open /\ opened' = opened
        /\ at = "resolving"
    BY <2>1 DEF ResolveEndpoint
  <2>3. /\ at' \in {"fetching", "resolving"} /\ mc # 0
        /\ at' = "fetching" => \A d \in Endpoints : slot'[d] = mc
    BY <2>1 DEF ResolveEndpoint
  <2>4. InUse'
    BY <2>2
  <2> QED BY <2>2, <2>3, <2>4
<1>5. CASE Subscribe
    BY <1>5 DEF Subscribe, Started
<1>6. CASE StartRaises
    BY <1>6 DEF StartRaises
<1>7. CASE Wake
    BY <1>7 DEF Wake
<1>8. CASE Teardown
  <2>1. mc' = None /\ open' = open /\ opened' = opened /\ slot' = slot /\ InUse /\ at = "backoff"
    BY <1>8 DEF Teardown
  <2>2. CASE mc # None
    BY <1>8, <2>1, <2>2 DEF Teardown
  <2>3. CASE mc = None
    BY <1>8, <2>1, <2>3 DEF Teardown, BeginStart
  <2> QED BY <2>2, <2>3
<1>9. CASE Closed
    BY <1>9 DEF Closed, BeginStart
<1>10. CASE Stop
  <2>1. \E c \in Nat : open' \subseteq {c}
    BY <1>10 DEF Stop
  <2> QED BY <1>10, <2>1 DEF Stop
<1>11. CASE Drop
    BY <1>11 DEF Drop
<1>12. ASSUME NEW c \in Conns, Dispatch(c) PROVE LinkInv'
    BY <1>12 DEF Dispatch
<1>13. ASSUME NEW e \in Endpoints, SendBegin(e) PROVE LinkInv'
    BY <1>13 DEF SendBegin
<1>14. CASE SendEnd
    BY <1>14 DEF SendEnd
<1>15. CASE UNCHANGED vars
    BY <1>15 DEF vars
<1> QED
    BY <1>1, <1>2, <1>3, <1>4, <1>5, <1>6, <1>7, <1>8, <1>9, <1>10, <1>11, <1>12, <1>13,
       <1>14, <1>15 DEF Next, Start, Run

LEMMA InitTypes == Init => TypeOK
<1> SUFFICES ASSUME Init PROVE TypeOK
    OBVIOUS
<1> QED
    BY LinkAssumption DEF Init, TypeOK, Places, Preparing, Conns

LEMMA NextTypes == LinkInv /\ TypeOK /\ [Next]_vars => TypeOK'
<1> SUFFICES ASSUME LinkInv, TypeOK, [Next]_vars PROVE TypeOK'
    OBVIOUS
<1> USE LinkAssumption DEF TypeOK, Places, Preparing, Conns, linkVars
<1>0. Grow \/ UNCHANGED delay \/ delay' = 0 => delay' \in 0..MaxDelay
    BY DEF Grow
<1>1. CASE ConnectOk
  <2>1. opened' \in Conns /\ opened' \in 0..MaxConns /\ mc' = opened'
    BY <1>1 DEF ConnectOk
  <2> QED
    BY <1>1, <2>1 DEF ConnectOk
<1>2. CASE ConnectFails
    BY <1>0, <1>2 DEF ConnectFails, Started
<1>3. CASE Prepare
    BY <1>3 DEF Prepare
<1>4. ASSUME NEW e \in Endpoints, ResolveEndpoint(e) PROVE TypeOK'
  <2>1. slot' \in [Endpoints -> Conns \cup {None}]
    BY <1>4 DEF ResolveEndpoint
  <2> QED
    BY <1>4, <2>1 DEF ResolveEndpoint
<1>5. CASE Subscribe
  <2>1. mc \in Conns
    BY <1>5 DEF Subscribe, LinkInv, PlaceInv
  <2> QED
    BY <1>0, <1>5, <2>1 DEF Subscribe, Started
<1>6. CASE StartRaises
    BY <1>0, <1>6 DEF StartRaises
<1>7. CASE Wake
    BY <1>7 DEF Wake
<1>8. CASE Teardown
    BY <1>8 DEF Teardown, BeginStart
<1>9. CASE Closed
    BY <1>9 DEF Closed, BeginStart
<1>10. CASE Stop
    BY <1>10 DEF Stop
<1>11. CASE Drop
    BY <1>11 DEF Drop
<1>12. ASSUME NEW c \in Conns, Dispatch(c) PROVE TypeOK'
    BY <1>12 DEF Dispatch
<1>13. ASSUME NEW e \in Endpoints, SendBegin(e) PROVE TypeOK'
    BY <1>13 DEF SendBegin
<1>14. CASE SendEnd
    BY <1>14 DEF SendEnd
<1>15. CASE UNCHANGED vars
    BY <1>15 DEF vars
<1> QED
    BY <1>1, <1>2, <1>3, <1>4, <1>5, <1>6, <1>7, <1>8, <1>9, <1>10, <1>11, <1>12, <1>13,
       <1>14, <1>15 DEF Next, Start, Run, Resolve

\* Every variable keeps its type, for any number of connections: the delay stays under its cap, and
\* slots, events and subscriptions name connections that were made.
THEOREM LinkTypes == Spec => []TypeOK
<1> QED
    BY InitLink, NextLink, InitTypes, NextTypes, PTL DEF Spec

\* Never two connections to one device, whatever start() fails at.
THEOREM NeverTwoConnections == Spec => []OneConnection
<1>1. LinkInv => OneConnection
  <2> SUFFICES ASSUME LinkInv PROVE OneConnection
    OBVIOUS
  <2>1. PICK c \in Nat : open \subseteq {c}
    BY DEF LinkInv, PlaceInv
  <2>2. IsFiniteSet({c}) /\ Cardinality({c}) = 1
    BY FS_Singleton
  <2>3. IsFiniteSet(open) /\ Cardinality(open) <= Cardinality({c})
    BY <2>1, <2>2, FS_Subset
  <2> QED
    BY <2>2, <2>3 DEF OneConnection
<1> QED
    BY <1>1, InitLink, NextLink, PTL DEF Spec

\* run() waits only with every endpoint resolved on the connection in use.
THEOREM WaitsResolved == Spec => []WaitingIsResolved
<1>1. LinkInv => WaitingIsResolved
    BY DEF LinkInv, PlaceInv, AllResolved, WaitingIsResolved
<1> QED
    BY <1>1, InitLink, NextLink, PTL DEF Spec

---------------------------------------------------------------------------
(* The tables of the device.                                               *)

TableTypes ==
    /\ table \in [Slots -> Configured \cup Foreign \cup {Empty}]
    /\ index \in [Channels -> Slots \cup {NoSlot}]

\* A frame of a configured channel is still of the channel in its slot.
FrameIsCurrent ==
    frame.channel \in Configured => frame.slot \in Slots /\ table[frame.slot] = frame.channel

NodeInv == TableTypes /\ OwnSlot /\ FrameIsCurrent

\* The slot that is written holds none of the node's channels.
LEMMA WritesOver ==
    ASSUME TableTypes, NEW e \in Channels, NEW n \in 0..MaxSlots, NEW i \in Slots,
           Exact(e, n) = {}, SlotToWrite(e, n, i)
    PROVE  table[i] \notin Configured
<1> SUFFICES ASSUME NEW d \in Channels, table[i] = Channel[d] PROVE FALSE
    BY DEF Configured
<1>1. CASE Named(e, n) # {}
  <2>1. i \in Named(e, n)
    BY <1>1 DEF SlotToWrite, IsGreatest
  <2>2. Channel[d].name = Channel[e].name
    BY <2>1 DEF Named
  <2>3. d = e
    BY <2>2, NodeAssumption
  <2>4. i \in Exact(e, n)
    BY <2>1, <2>3 DEF Exact
  <2> QED BY <2>4
<1>2. CASE Named(e, n) = {} /\ EmptySeen(n) # {}
  <2>1. i \in EmptySeen(n)
    BY <1>2 DEF SlotToWrite, IsLeast
  <2>2. table[i] = Empty
    BY <2>1 DEF EmptySeen
  <2> QED BY <2>2, NodeAssumption DEF Configured
<1>3. CASE Named(e, n) = {} /\ EmptySeen(n) = {}
  <2>1. i \in ForeignSeen(e, n)
    BY <1>3 DEF SlotToWrite, IsLeast
  <2> QED BY <2>1 DEF ForeignSeen
<1> QED BY <1>1, <1>2, <1>3

\* A slot found by name and secret holds the channel.
LEMMA ExactIsOwn ==
    ASSUME TableTypes, NEW e \in Channels, NEW n, NEW i \in Exact(e, n)
    PROVE  i \in Slots /\ table[i] = Channel[e]
<1>1. i \in Slots /\ table[i].name = Channel[e].name /\ table[i].psk = Channel[e].psk
    BY DEF Exact, Named
<1>2. Channel[e] \in Configured
    BY DEF Configured
<1>3. table[i] # Empty
    BY <1>1, <1>2, NodeAssumption
<1>4. table[i] \in Configured \cup Foreign
    BY <1>1, <1>3 DEF TableTypes
<1> QED BY <1>1, <1>2, <1>4, NodeAssumption

\* Writing a slot that holds no channel of the node leaves the other endpoints and the frame theirs.
LEMMA WriteKeeps ==
    ASSUME NodeInv, NEW e \in Channels, NEW i \in Slots, table[i] \notin Configured,
           table' = [table EXCEPT ![i] = Channel[e]], UNCHANGED frame,
           index' = index \/ index' = [index EXCEPT ![e] = i]
    PROVE  NodeInv'
<1> USE DEF NodeInv, TableTypes
<1>1. Channel[e] \in Configured
    BY DEF Configured
<1>2. TableTypes'
    BY <1>1
<1>3. OwnSlot'
  <2> SUFFICES ASSUME NEW d \in Channels, index'[d] # NoSlot PROVE table'[index'[d]] = Channel[d]
    BY DEF OwnSlot
  <2>1. CASE d = e /\ index' # index
    BY <2>1
  <2>2. CASE index'[d] = index[d]
    <3>1. table[index[d]] = Channel[d] /\ index[d] \in Slots
      BY <2>2 DEF OwnSlot
    <3>2. index[d] # i
      BY <3>1 DEF Configured
    <3> QED BY <2>2, <3>1, <3>2
  <2> QED BY <2>1, <2>2
<1>4. FrameIsCurrent'
    BY DEF FrameIsCurrent
<1> QED BY <1>2, <1>3, <1>4

LEMMA InitNode == NodeInit => NodeInv
<1> SUFFICES ASSUME NodeInit PROVE NodeInv
    OBVIOUS
<1>1. TableTypes /\ OwnSlot
    BY DEF NodeInit, TableTypes, OwnSlot
<1>2. frame.channel = Empty
    BY DEF NodeInit, NoFrame
<1>3. FrameIsCurrent
    BY <1>2, NodeAssumption DEF FrameIsCurrent
<1> QED BY <1>1, <1>3 DEF NodeInv

LEMMA NextNode == NodeInv /\ [NodeNext]_nodeVars => NodeInv'
<1> SUFFICES ASSUME NodeInv, [NodeNext]_nodeVars PROVE NodeInv'
    OBVIOUS
<1>a. ASSUME UNCHANGED <<table, index, frame>> PROVE NodeInv'
    BY <1>a DEF NodeInv, TableTypes, OwnSlot, FrameIsCurrent
<1>1. CASE LinkStep
    BY <1>1, <1>a DEF LinkStep, device
<1>2. CASE ResolveRoom
    BY <1>2, <1>a DEF ResolveRoom, EnterRoom, CheckContact, AddContact, ListContacts, RemoveContact,
                      AddAgain, Login, RoomStep, device
<1>3. ASSUME NEW e \in Channels, ResolveChannel(e) PROVE NodeInv'
  <2>1. CASE FindChannel(e)
    <3>1. PICK i \in Exact(e, MaxSlots) : index' = [index EXCEPT ![e] = i]
      BY <2>1 DEF FindChannel, IsLeast
    <3>2. i \in Slots /\ table[i] = Channel[e]
      BY <3>1, ExactIsOwn DEF NodeInv
    <3>3. table' = table /\ frame' = frame
      BY <2>1 DEF FindChannel
    <3> QED BY <3>1, <3>2, <3>3 DEF NodeInv, TableTypes, OwnSlot, FrameIsCurrent
  <2>2. ASSUME NEW n \in 0..MaxSlots, NEW i \in Slots, WriteChannel(e, n, i) PROVE NodeInv'
    <3>1. table[i] \notin Configured
      BY <2>2, WritesOver DEF WriteChannel, NodeInv
    <3> QED BY <2>2, <3>1, WriteKeeps DEF WriteChannel
  <2>3. ASSUME NEW n \in 0..MaxSlots, NEW i \in Slots, WriteUnanswered(e, n, i) PROVE NodeInv'
    <3>1. table[i] \notin Configured
      BY <2>3, WritesOver DEF WriteUnanswered, NodeInv
    <3> QED BY <2>3, <3>1, WriteKeeps DEF WriteUnanswered
  <2> QED BY <1>3, <2>1, <2>2, <2>3 DEF ResolveChannel
<1>4. ASSUME NEW k, Advert(k) PROVE NodeInv'
    BY <1>4, <1>a DEF Advert
<1>5. ASSUME NEW i \in Slots, HearFrame(i) PROVE NodeInv'
  <2>1. table' = table /\ index' = index /\ frame' = [slot |-> i, channel |-> table[i]]
    BY <1>5 DEF HearFrame
  <2>2. FrameIsCurrent'
    BY <2>1 DEF FrameIsCurrent
  <2> QED BY <2>1, <2>2 DEF NodeInv, TableTypes, OwnSlot
<1>6. CASE RouteFrame
  <2>1. table' = table /\ index' = index /\ frame' = NoFrame
    BY <1>6 DEF RouteFrame
  <2>2. frame'.channel = Empty
    BY <2>1 DEF NoFrame
  <2>3. FrameIsCurrent'
    BY <2>1, <2>2, NodeAssumption DEF FrameIsCurrent, Configured
  <2> QED BY <2>1, <2>3 DEF NodeInv, TableTypes, OwnSlot
<1>7. CASE UNCHANGED nodeVars
    BY <1>7, <1>a DEF nodeVars, device
<1> QED BY <1>1, <1>2, <1>3, <1>4, <1>5, <1>6, <1>7 DEF NodeNext

LEMMA AlwaysNode == NodeSpec => []NodeInv
<1> QED BY InitNode, NextNode, PTL DEF NodeSpec

\* Whatever start() did to the device's tables, and wherever it was cut short, a slot number in use
\* (channel_index) holds the endpoint's own channel.
THEOREM NodeOwnSlot == NodeSpec => []OwnSlot
<1>1. NodeInv => OwnSlot
    BY DEF NodeInv
<1> QED BY <1>1, AlwaysNode, PTL

\* try_rx never takes a frame of one configured channel for one of another, however long the device
\* held it and however many searches ran in between.
THEOREM NodeNoCrossTalk == NodeSpec => []NoCrossTalk
<1>1. NodeInv => NoCrossTalk
  <2> SUFFICES ASSUME NodeInv, frame.channel \in Configured, NEW e \in TakenBy(frame.slot)
               PROVE  frame.channel = Channel[e]
    BY DEF NoCrossTalk
  <2>1. frame.slot \in Slots /\ table[frame.slot] = frame.channel
    BY DEF NodeInv, FrameIsCurrent
  <2>2. e \in Channels /\ index[e] = frame.slot
    BY DEF TakenBy
  <2>3. index[e] # NoSlot
    BY <2>1, <2>2, NodeAssumption DEF Slots, NoSlot
  <2> QED BY <2>1, <2>2, <2>3 DEF NodeInv, OwnSlot
<1> QED BY <1>1, AlwaysNode, PTL

---------------------------------------------------------------------------

LEMMA NodeInitLink == NodeInit => Init
<1> QED BY DEF NodeInit

LEMMA NodeNextLink == [NodeNext]_nodeVars => [Next]_vars
<1> SUFFICES ASSUME [NodeNext]_nodeVars PROVE [Next]_vars
    OBVIOUS
<1>1. CASE LinkStep
    BY <1>1 DEF LinkStep, Next, Start
<1>2. CASE ResolveRoom
  <2>1. CASE Login
    <3>1. PICK e \in Endpoints : ResolveEndpoint(e)
      BY <2>1, LinkAssumption DEF Login
    <3> QED BY <3>1 DEF Next, Start, Resolve
  <2>2. CASE ~Login
    BY <1>2, <2>2 DEF ResolveRoom, EnterRoom, CheckContact, AddContact, ListContacts,
                      RemoveContact, AddAgain, RoomStep
  <2> QED BY <2>1, <2>2
<1>3. ASSUME NEW e \in Channels, ResolveChannel(e) PROVE [Next]_vars
  <2>1. e \in Endpoints
    BY DEF Channels
  <2>2. ResolveEndpoint(e) \/ StartRaises
    BY <1>3 DEF ResolveChannel, FindChannel, WriteChannel, WriteUnanswered
  <2> QED BY <2>1, <2>2 DEF Next, Start, Resolve
<1>4. ASSUME NEW k, Advert(k) PROVE [Next]_vars
    BY <1>4 DEF Advert
<1>5. ASSUME NEW i, HearFrame(i) PROVE [Next]_vars
    BY <1>5 DEF HearFrame
<1>6. CASE RouteFrame
    BY <1>6 DEF RouteFrame
<1>7. CASE UNCHANGED nodeVars
    BY <1>7 DEF nodeVars
<1> QED BY <1>1, <1>2, <1>3, <1>4, <1>5, <1>6, <1>7 DEF NodeNext

\* Reading and writing the device's tables changes nothing MeshCoreLink says of a node: every step of
\* the node is one of its connection or leaves the connection alone.
THEOREM NodeImplementsLink == NodeSpec => ImplementsLink
<1> QED BY NodeInitLink, NodeNextLink, PTL DEF NodeSpec, ImplementsLink, Spec
---------------------------------------------------------------------------
(* Contacts and the room server in resolve().                              *)

Nodes == Strangers \cup Rooms

ContactTypes ==
    /\ DOMAIN contacts \subseteq Nodes
    /\ \A k \in DOMAIN contacts : contacts[k] \in 0..adverts
    /\ adverts \in 0..MaxAdverts

\* There is never more than the device has room for.
ContactsFit == IsFiniteSet(DOMAIN contacts) /\ Cardinality(DOMAIN contacts) <= Capacity

Resolving(r) == r \in [endpoint : Rooms, step : Steps, victim : Nodes \cup {Empty}]

RoomTypes == room = NoRoom \/ (Resolving(room) /\ at = "resolving")

RoomInv == ContactTypes /\ ContactsFit /\ RoomTypes

\* A contact is only added where it is known already or the table is not full.
LEMMA AddFits ==
    ASSUME NEW S, IsFiniteSet(S), Cardinality(S) <= Capacity, NEW k,
           k \in S \/ Cardinality(S) < Capacity
    PROVE  IsFiniteSet(S \cup {k}) /\ Cardinality(S \cup {k}) <= Capacity
<1>1. /\ IsFiniteSet(S \cup {k}) /\ Cardinality(S) \in Nat
      /\ Cardinality(S \cup {k}) = IF k \in S THEN Cardinality(S) ELSE Cardinality(S) + 1
    BY FS_AddElement, FS_CardinalityType
<1> QED BY <1>1, NodeAssumption

LEMMA InitRoom == NodeInit => RoomInv
<1> SUFFICES ASSUME NodeInit PROVE RoomInv
    OBVIOUS
<1>1. PICK known \in SUBSET Nodes :
          Cardinality(known) <= Capacity /\ contacts = [k \in known |-> 0]
    BY DEF NodeInit, Nodes
<1>2. IsFiniteSet(Nodes)
    BY NodeAssumption, LinkAssumption, FS_Subset, FS_Union DEF Nodes
<1>3. DOMAIN contacts = known /\ IsFiniteSet(known)
    BY <1>1, <1>2, FS_Subset
<1>4. ContactsFit
    BY <1>1, <1>3 DEF ContactsFit
<1>5. ContactTypes
    BY <1>1, <1>3, NodeAssumption DEF ContactTypes, NodeInit
<1> QED BY <1>4, <1>5 DEF RoomInv, RoomTypes, NodeInit

\* The link's own steps leave the contacts alone and end the resolve() they interrupt.
LEMMA LinkStepRoom == RoomInv /\ LinkStep => RoomInv'
<1> SUFFICES ASSUME RoomInv, LinkStep PROVE RoomInv'
    OBVIOUS
<1>1. contacts' = contacts /\ adverts' = adverts
    BY DEF LinkStep, device
<1>2. RoomTypes'
    BY DEF LinkStep, RoomInv, RoomTypes, Resolving
<1> QED BY <1>1, <1>2 DEF RoomInv, ContactTypes, ContactsFit

\* A step of ensure_contact that leaves the contacts alone.
LEMMA GoesOn ==
    ASSUME RoomInv, NEW from \in Steps, RoomStep(from), NEW step \in Steps, Goes(step),
           UNCHANGED contacts
    PROVE  RoomInv'
<1>1. room # NoRoom
    BY DEF RoomStep, NoRoom, Steps
<1>2. Resolving(room')
    BY <1>1 DEF RoomInv, RoomTypes, Resolving, Goes
<1> QED BY <1>2 DEF RoomInv, RoomTypes, RoomStep, ContactTypes, ContactsFit, vars

\* A step that adds the contact of the room server.
LEMMA AddsOn ==
    ASSUME RoomInv, NEW from \in Steps, RoomStep(from), NEW step \in Steps, Goes(step),
           HasSpace, contacts' = Added
    PROVE  RoomInv'
<1>1. room # NoRoom
    BY DEF RoomStep, NoRoom, Steps
<1>2. Resolving(room) /\ Resolving(room') /\ at' = "resolving"
    BY <1>1 DEF RoomInv, RoomTypes, Resolving, Goes, RoomStep, vars
<1>3. room.endpoint \in Nodes
    BY <1>2 DEF Resolving, Nodes
<1>4. DOMAIN contacts' = DOMAIN contacts \cup {room.endpoint}
    BY DEF Added
<1>5. ContactsFit'
    BY <1>4, AddFits DEF RoomInv, ContactsFit, HasSpace
<1>6. adverts' = adverts
    BY DEF RoomStep
<1>7. ContactTypes'
    BY <1>3, <1>4, <1>6, NodeAssumption DEF RoomInv, ContactTypes, Added
<1> QED BY <1>2, <1>5, <1>7 DEF RoomInv, RoomTypes

LEMMA ResolveRoomKeeps == RoomInv /\ ResolveRoom => RoomInv'
<1> SUFFICES ASSUME RoomInv, ResolveRoom PROVE RoomInv'
    OBVIOUS
<1>s. {"check", "add", "list", "remove", "readd", "login"} \subseteq Steps
    BY DEF Steps
<1>1. ASSUME NEW e \in Rooms, EnterRoom(e) PROVE RoomInv'
  <2>1. Resolving(room') /\ at' = "resolving"
    BY <1>1, <1>s DEF EnterRoom, Turn, Resolving, vars
  <2> QED BY <1>1, <2>1 DEF EnterRoom, RoomInv, RoomTypes, ContactTypes, ContactsFit, device
<1>2. CASE CheckContact
    BY <1>2, <1>s, GoesOn DEF CheckContact
<1>3. CASE AddContact
    BY <1>3, <1>s, GoesOn, AddsOn DEF AddContact
<1>4. CASE ListContacts
  <2>1. CASE Goes("login")
    BY <1>4, <2>1, <1>s, GoesOn DEF ListContacts
  <2>2. CASE ~Goes("login")
    <3>1. PICK k \in DOMAIN contacts :
              room' = [endpoint |-> room.endpoint, step |-> "remove", victim |-> k]
      BY <1>4, <2>2 DEF ListContacts
    <3>2. RoomStep("list") /\ contacts' = contacts
      BY <1>4 DEF ListContacts
    <3>3. Resolving(room) /\ at' = "resolving" /\ adverts' = adverts
      BY <3>2 DEF RoomStep, RoomInv, RoomTypes, NoRoom, vars
    <3>4. Resolving(room')
      BY <3>1, <3>3, <1>s DEF Resolving, RoomInv, ContactTypes
    <3> QED BY <3>2, <3>3, <3>4 DEF RoomInv, RoomTypes, ContactTypes, ContactsFit
  <2> QED BY <2>1, <2>2
<1>5. CASE RemoveContact
  <2>1. CASE UNCHANGED contacts /\ Goes("login")
    BY <1>5, <2>1, <1>s, GoesOn DEF RemoveContact
  <2>2. CASE contacts' = [k \in DOMAIN contacts \ {room.victim} |-> contacts[k]] /\ Goes("readd")
    <3>1. RoomStep("remove")
      BY <1>5 DEF RemoveContact
    <3>2. Resolving(room) /\ at' = "resolving" /\ adverts' = adverts
      BY <3>1 DEF RoomStep, RoomInv, RoomTypes, NoRoom, vars
    <3>3. RoomTypes'
      BY <2>2, <3>2, <1>s DEF Resolving, RoomTypes, Goes
    <3>4. /\ DOMAIN contacts' \subseteq DOMAIN contacts
          /\ \A k \in DOMAIN contacts' : contacts'[k] = contacts[k]
      BY <2>2
    <3>5. /\ IsFiniteSet(DOMAIN contacts')
          /\ Cardinality(DOMAIN contacts') <= Cardinality(DOMAIN contacts)
          /\ Cardinality(DOMAIN contacts') \in Nat /\ Cardinality(DOMAIN contacts) \in Nat
      BY <3>4, FS_Subset, FS_CardinalityType DEF RoomInv, ContactsFit
    <3>6. ContactsFit'
      BY <3>5, NodeAssumption DEF RoomInv, ContactsFit
    <3>7. ContactTypes'
      BY <3>2, <3>4 DEF RoomInv, ContactTypes
    <3> QED BY <3>3, <3>6, <3>7 DEF RoomInv
  <2> QED BY <1>5, <2>1, <2>2 DEF RemoveContact
<1>6. CASE AddAgain
    BY <1>6, <1>s, GoesOn, AddsOn DEF AddAgain
<1>7. CASE Login
    BY <1>7 DEF Login, RoomInv, RoomTypes, ContactTypes, ContactsFit, device
<1> QED BY <1>1, <1>2, <1>3, <1>4, <1>5, <1>6, <1>7 DEF ResolveRoom

LEMMA NextRoom == RoomInv /\ [NodeNext]_nodeVars => RoomInv'
<1> SUFFICES ASSUME RoomInv, [NodeNext]_nodeVars PROVE RoomInv'
    OBVIOUS
<1>a. ASSUME UNCHANGED <<contacts, adverts, room>>, at' = at \/ room = NoRoom PROVE RoomInv'
    BY <1>a DEF RoomInv, RoomTypes, ContactTypes, ContactsFit
<1>1. CASE LinkStep
    BY <1>1, LinkStepRoom
<1>2. CASE ResolveRoom
    BY <1>2, ResolveRoomKeeps
<1>3. ASSUME NEW e \in Channels, ResolveChannel(e) PROVE RoomInv'
    BY <1>3, <1>a DEF ResolveChannel, FindChannel, WriteChannel, WriteUnanswered, Turn
<1>4. ASSUME NEW k \in Strangers \cup Rooms, Advert(k) PROVE RoomInv'
  <2>1. /\ DOMAIN contacts' = DOMAIN contacts \cup {k}
        /\ contacts' = [j \in DOMAIN contacts \cup {k} |-> IF j = k THEN adverts' ELSE contacts[j]]
        /\ adverts' = adverts + 1 /\ adverts < MaxAdverts
    BY <1>4 DEF Advert
  <2>2. ContactsFit'
    BY <1>4, <2>1, AddFits DEF Advert, RoomInv, ContactsFit
  <2>3. adverts' \in 0..MaxAdverts /\ 0..adverts \subseteq 0..adverts' /\ adverts' \in 0..adverts'
    BY <2>1, NodeAssumption DEF RoomInv, ContactTypes
  <2>4. ContactTypes'
    BY <2>1, <2>3 DEF RoomInv, ContactTypes, Nodes
  <2>5. RoomTypes'
    BY <1>4 DEF Advert, RoomInv, RoomTypes, vars
  <2> QED BY <2>2, <2>4, <2>5 DEF RoomInv
<1>5. ASSUME NEW i \in Slots, HearFrame(i) PROVE RoomInv'
    BY <1>5, <1>a DEF HearFrame, vars
<1>6. CASE RouteFrame
    BY <1>6, <1>a DEF RouteFrame, vars
<1>7. CASE UNCHANGED nodeVars
    BY <1>7, <1>a DEF nodeVars, vars, device
<1> QED BY <1>1, <1>2, <1>3, <1>4, <1>5, <1>6, <1>7 DEF NodeNext

\* Every variable of a node and its device keeps its type: in particular the contact table never
\* holds more than the device has room for, and a resolve() that was interrupted leaves no room
\* server behind.
THEOREM NodeTypes == NodeSpec => []NodeTypeOK
<1>1. NodeSpec => Spec
    BY NodeInitLink, NodeNextLink, PTL DEF NodeSpec, Spec
<1>2. NodeSpec => []RoomInv
    BY InitRoom, NextRoom, PTL DEF NodeSpec
<1>3. TypeOK /\ NodeInv /\ RoomInv => NodeTypeOK
    BY DEF NodeTypeOK, NodeInv, TableTypes, RoomInv, RoomTypes, ContactTypes, ContactsFit,
           Resolving, Nodes
<1> QED BY <1>1, <1>2, <1>3, LinkTypes, AlwaysNode, PTL
=============================================================================
