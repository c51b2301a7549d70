----------------------------- MODULE NodeEndpoints -----------------------------
(***************************************************************************)
(* What the endpoints of one node do with the tables of its device, in     *)
(* composition with the connection (MeshCoreLink): every start() looks for *)
(* each channel in the channel slots and writes it where it is missing,    *)
(* and adds the contact of each room server; sends and received frames use *)
(* the slot numbers found, also while the next start() is under way.       *)
(*                                                                         *)
(* Sources: transports/meshcore/mappers/{channel_util,room_server,public,  *)
(* private,handler}.py and mappers/__init__.py.  The device is external:   *)
(* it keeps its tables over a loss of the connection, may answer any       *)
(* command with an error, and keeps the frames it received until they are  *)
(* fetched.  The secret of a channel stands for the byte of its hash the   *)
(* code compares.                                                          *)
(***************************************************************************)
EXTENDS MeshCoreLink

CONSTANTS
    MaxSlots,        \* max_channels of the device
    Order,           \* [Endpoints -> Nat], their order in the configuration
    Channel,         \* [channel endpoints -> [name, psk] of the configuration]
    Foreign,         \* other channels the device may hold
    Empty,           \* a slot without a name
    OverrideChannel, \* override_oldest_channel_on_full
    OverrideContact, \* override_oldest_contact_on_full
    Strangers,       \* other contacts the device may hold
    Capacity,        \* contacts the device has room for
    MaxAdverts       \* bound on adverts heard

Channels == Endpoints \ Rooms
Slots == 0..(MaxSlots - 1)
NoSlot == MaxSlots
Configured == {Channel[e] : e \in Channels}

ASSUME NodeAssumption ==
    /\ MaxSlots \in Nat \ {0} /\ Capacity \in Nat \ {0} /\ MaxAdverts \in Nat
    /\ {OverrideChannel, OverrideContact} \subseteq BOOLEAN
    /\ DOMAIN Channel = Channels
    /\ Order \in [Endpoints -> Nat] /\ \A d, e \in Endpoints : Order[d] = Order[e] => d = e
    \* two endpoints of one name overwrite each other at every start
    /\ \A d, e \in Channels : Channel[d].name = Channel[e].name => d = e
    \* a channel is its name and its secret; a slot without a name is empty
    /\ \A c, d \in Configured \cup Foreign : c.name = d.name /\ c.psk = d.psk => c = d
    /\ Empty \notin Configured \cup Foreign
    /\ \A c \in Configured \cup Foreign : c.name # Empty.name
    /\ Foreign \cap Configured = {}
    /\ Strangers \cap Endpoints = {} /\ IsFiniteSet(Strangers)

VARIABLES
    table,    \* [Slots -> channel or Empty], the channels of the device
    index,    \* channel_index of each channel endpoint, or NoSlot
    contacts, \* [contacts of the device -> last_advert]
    adverts,  \* number of adverts heard
    room,     \* the room server in resolve(): where it is, and the contact to be evicted
    frame     \* a frame the device has received: the slot and the channel it was decoded with

device == <<table, index, contacts, adverts, frame>>
nodeVars == <<vars, device, room>>

NoRoom == [endpoint |-> Empty, step |-> "none", victim |-> Empty]
NoFrame == [slot |-> NoSlot, channel |-> Empty]
Steps == {"check", "add", "list", "remove", "readd", "login"}

\* Any table the device may have been left with: the slots in any order, at most Capacity contacts.
NodeInit ==
    /\ Init
    /\ table \in [Slots -> Configured \cup Foreign \cup {Empty}]
    /\ index = [e \in Channels |-> NoSlot]
    /\ \E known \in SUBSET (Strangers \cup Rooms) :
         Cardinality(known) <= Capacity /\ contacts = [k \in known |-> 0]
    /\ adverts = 0 /\ room = NoRoom /\ frame = NoFrame

\* The loop of start() has come to endpoint e.
Turn(e) ==
    /\ at = "resolving" /\ room = NoRoom
    /\ slot[e] # mc /\ \A d \in Endpoints : Order[d] < Order[e] => slot[d] = mc

---------------------------------------------------------------------------
(* Channels: resolve_channel reads slots 0 to n - 1, where n < MaxSlots if *)
(* the device answered the next query with an error.                       *)

Named(e, n) == {i \in Slots : i < n /\ table[i].name = Channel[e].name}
Exact(e, n) == {i \in Named(e, n) : table[i].psk = Channel[e].psk}
EmptySeen(n) == {i \in Slots : i < n /\ table[i] = Empty}

\* Mutant of ForeignSeen: every other channel is foreign, the node's own ones too.
OthersSeen(e, n) == {i \in Slots : i < n /\ table[i] # Empty /\ table[i].name # Channel[e].name}

\* Slots of a channel that is not one of the node's.
ForeignSeen(e, n) ==
    {i \in Slots : i < n /\ table[i] # Empty /\ \A d \in Channels : table[i].name # Channel[d].name}

IsLeast(i, S) == i \in S /\ \A j \in S : i <= j
IsGreatest(i, S) == i \in S /\ \A j \in S : j <= i

\* i is the slot create_channel is to write: the last one of that name with another secret, else the
\* first empty one, else the first foreign one; if there is none the search raises.
SlotToWrite(e, n, i) ==
    IF Named(e, n) # {} THEN IsGreatest(i, Named(e, n))
    ELSE IF EmptySeen(n) # {} THEN IsLeast(i, EmptySeen(n))
    ELSE OverrideChannel /\ IsLeast(i, ForeignSeen(e, n))

\* Found, with its secret.
FindChannel(e) ==
    /\ Turn(e)
    /\ ResolveEndpoint(e)
    /\ \E i \in Slots : IsLeast(i, Exact(e, MaxSlots)) /\ index' = [index EXCEPT ![e] = i]
    /\ UNCHANGED <<table, contacts, adverts, frame, room>>

\* Not found: set_channel writes it, and its answer arrives.
WriteChannel(e, n, i) ==
    /\ Turn(e)
    /\ Exact(e, n) = {} /\ SlotToWrite(e, n, i)
    /\ ResolveEndpoint(e)
    /\ table' = [table EXCEPT ![i] = Channel[e]]
    /\ index' = [index EXCEPT ![e] = i]
    /\ UNCHANGED <<contacts, adverts, frame, room>>

\* Mutant of WriteUnanswered: the error ends the loop over the endpoints, not start().
WriteUnansweredEndsLoop(e, n, i) ==
    /\ Turn(e) /\ mc \notin lost
    /\ Exact(e, n) = {} /\ SlotToWrite(e, n, i)
    /\ at' = "fetching"
    /\ table' = [table EXCEPT ![i] = Channel[e]]
    /\ UNCHANGED <<first, mc, linkVars, ev, delay, slot, sending, index, contacts, adverts, frame, room>>

\* The device writes the slot, restarts, and the answer is lost: resolve() raises.
WriteUnanswered(e, n, i) ==
    /\ Turn(e) /\ mc \notin lost
    /\ Exact(e, n) = {} /\ SlotToWrite(e, n, i)
    /\ StartRaises
    /\ table' = [table EXCEPT ![i] = Channel[e]]
    /\ UNCHANGED <<index, contacts, adverts, frame, room>>

ResolveChannel(e) ==
    \/ FindChannel(e)
    \/ \E n \in 0..MaxSlots, i \in Slots : WriteChannel(e, n, i) \/ WriteUnanswered(e, n, i)

---------------------------------------------------------------------------
(* Room servers: ensure_contact, then a login whose outcome is only logged.*)
(* A lost link answers with errors.                                        *)

\* The room server in resolve() goes on to a step.
Goes(step) == room' = [room EXCEPT !.step = step]

\* Its step leaves the link and the tables but the contacts alone.
RoomStep(step) ==
    /\ at = "resolving" /\ room.step = step
    /\ UNCHANGED <<vars, table, index, adverts, frame>>

\* resolve() of a room server is called.
EnterRoom(e) ==
    /\ Turn(e)
    /\ room' = [endpoint |-> e, step |-> "check", victim |-> Empty]
    /\ UNCHANGED <<vars, device>>

\* get_contact_by_key: found, or not, or an error, which counts as not found.
CheckContact ==
    /\ RoomStep("check")
    /\ \/ room.endpoint \in DOMAIN contacts /\ mc \notin lost /\ Goes("login")
       \/ Goes("add")
    /\ UNCHANGED contacts

HasSpace == Cardinality(DOMAIN contacts) < Capacity \/ room.endpoint \in DOMAIN contacts

\* Its contact with last_advert 0.
Added == [k \in DOMAIN contacts \cup {room.endpoint} |-> IF k = room.endpoint THEN 0 ELSE contacts[k]]

\* try_add_contact says FALSE for a full table and for every other error.
AddContact ==
    /\ RoomStep("add")
    /\ \/ HasSpace /\ mc \notin lost /\ contacts' = Added /\ Goes("login")
       \/ UNCHANGED contacts /\ Goes(IF OverrideContact THEN "list" ELSE "login")

\* get_contacts: the contact with the least last_advert, or an error.
ListContacts ==
    /\ RoomStep("list")
    /\ \/ /\ mc \notin lost
          /\ \E k \in DOMAIN contacts :
               /\ \A j \in DOMAIN contacts : contacts[k] <= contacts[j]
               /\ room' = [endpoint |-> room.endpoint, step |-> "remove", victim |-> k]
       \/ Goes("login")
    /\ UNCHANGED contacts

\* remove_contact: done, or an error.
RemoveContact ==
    /\ RoomStep("remove")
    /\ \/ /\ mc \notin lost
          /\ contacts' = [k \in DOMAIN contacts \ {room.victim} |-> contacts[k]]
          /\ Goes("readd")
       \/ UNCHANGED contacts /\ Goes("login")

AddAgain ==
    /\ RoomStep("readd")
    /\ \/ HasSpace /\ mc \notin lost /\ contacts' = Added
       \/ UNCHANGED contacts
    /\ Goes("login")

\* The login succeeds, is refused or is not answered: resolve() returns.
Login ==
    /\ room.step = "login"
    /\ \E e \in Rooms : e = room.endpoint /\ ResolveEndpoint(e)
    /\ room' = NoRoom
    /\ UNCHANGED device

ResolveRoom ==
    \/ \E e \in Rooms : EnterRoom(e)
    \/ CheckContact \/ AddContact \/ ListContacts \/ RemoveContact \/ AddAgain \/ Login

---------------------------------------------------------------------------
(* The device hears the mesh; the library fetches its frames.              *)

\* An advert: the device notes its time, and adds its sender while there is room.
Advert(k) ==
    /\ adverts < MaxAdverts
    /\ k \in DOMAIN contacts \/ Cardinality(DOMAIN contacts) < Capacity
    /\ adverts' = adverts + 1
    /\ contacts' = [j \in DOMAIN contacts \cup {k} |-> IF j = k THEN adverts' ELSE contacts[j]]
    /\ UNCHANGED <<vars, table, index, frame, room>>

\* A message on the channel of a slot.
HearFrame(i) ==
    /\ frame = NoFrame /\ table[i] # Empty
    /\ frame' = [slot |-> i, channel |-> table[i]]
    /\ UNCHANGED <<vars, table, index, contacts, adverts, room>>

\* Mutant of TakenBy: a channel without a slot takes every frame.
TakenByUnresolved(i) == {e \in Channels : index[e] \in {i, NoSlot}}

\* The channels whose try_rx takes a frame of slot i; route_rx gives it to the first of them.
TakenBy(i) == {e \in Channels : index[e] = i}

\* The library fetches the frame and on_event routes it, or drops it.
RouteFrame ==
    /\ frame # NoFrame
    /\ mc \in subscribed \ lost
    /\ frame' = NoFrame
    /\ UNCHANGED <<vars, table, index, contacts, adverts, room>>

---------------------------------------------------------------------------

\* Mutant of LinkStep: the login under way outlives the start() it belongs to.
LinkStepKeepsRoom ==
    /\ \/ ConnectOk \/ ConnectFails \/ Prepare \/ Subscribe \/ StartRaises \/ Run \/ Stop
       \/ Drop \/ (\E c \in Conns : Dispatch(c)) \/ (\E e \in Endpoints : SendBegin(e)) \/ SendEnd
    /\ UNCHANGED <<room, device>>

\* The rest of the connection's life does not touch the tables; it may end the resolve() under way.
LinkStep ==
    /\ \/ ConnectOk \/ ConnectFails \/ Prepare \/ Subscribe \/ StartRaises \/ Run \/ Stop
       \/ Drop \/ (\E c \in Conns : Dispatch(c)) \/ (\E e \in Endpoints : SendBegin(e)) \/ SendEnd
    /\ room' = IF at' = "resolving" THEN room ELSE NoRoom
    /\ UNCHANGED device

NodeNext ==
    \/ LinkStep \/ ResolveRoom
    \/ \E e \in Channels : ResolveChannel(e)
    \/ \E k \in Strangers \cup Rooms : Advert(k)
    \/ \E i \in Slots : HearFrame(i)
    \/ RouteFrame

NodeSpec == NodeInit /\ [][NodeNext]_nodeVars

---------------------------------------------------------------------------
(* Properties.                                                             *)

NodeTypeOK ==
    /\ TypeOK
    /\ table \in [Slots -> Configured \cup Foreign \cup {Empty}]
    /\ index \in [Channels -> Slots \cup {NoSlot}]
    /\ DOMAIN contacts \subseteq Strangers \cup Rooms /\ Cardinality(DOMAIN contacts) <= Capacity
    /\ \A k \in DOMAIN contacts : contacts[k] \in 0..adverts
    /\ adverts \in 0..MaxAdverts
    /\ room = NoRoom \/ (room.endpoint \in Rooms /\ room.step \in Steps /\ at = "resolving")

\* A slot number in use holds the endpoint's own channel, whichever connection it was found on: what
\* the worker sends while the next start() searches, writes or raises never reaches another channel.
OwnSlot == \A e \in Channels : index[e] # NoSlot => table[index[e]] = Channel[e]

\* A message of one configured channel is never taken for one of another, however long the device
\* held it.  (A foreign message from a slot that was overwritten meanwhile may be.)
NoCrossTalk ==
    frame.channel \in Configured => \A e \in TakenBy(frame.slot) : frame.channel = Channel[e]

\* "If the contact table is full ..., remove the oldest contact": only a full table loses a contact.
EvictsOnlyWhenFull ==
    [][DOMAIN contacts \ DOMAIN contacts' # {} => Cardinality(DOMAIN contacts) = Capacity]_nodeVars

\* The node with its tables is a node as MeshCoreLink describes it.
ImplementsLink == Spec
=============================================================================
