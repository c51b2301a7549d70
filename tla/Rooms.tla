--------------------------------- MODULE Rooms ---------------------------------
(***************************************************************************)
(* The rooms of a configuration: which configurations AppConfig accepts,   *)
(* which RoomRegistry build_rooms makes of them, and where Bridge sends a  *)
(* message of a member.  Pure operators.                                   *)
(*                                                                         *)
(* Sources: config/schema/{app_config,rooms}.py, core/routing.py,          *)
(* domain/models.py, wiring.py (build_rooms) and the routing of            *)
(* core/bridge.py.                                                         *)
(*                                                                         *)
(* A configuration is a record of three sequences:                         *)
(*   lora        [id, endpoints], endpoints a set of names;                *)
(*   messengers  [id, store], store TRUE if commands are configured;       *)
(*   rooms       [lora, subscribers], lora an [node, endpoint] and         *)
(*               subscribers a sequence of those and of                    *)
(*               [transport, chat, topic].                                 *)
(* A chat and a topic are sequences of symbols, because the registry joins *)
(* them; NoTopic is a topic that is left out.                              *)
(***************************************************************************)
EXTENDS Naturals, Sequences, Functions

CONSTANTS NoTopic, Hash

ids(entries) == [i \in DOMAIN entries |-> entries[i].id]
NodeIds(config) == Range(ids(config.lora))
MessengerIds(config) == Range(ids(config.messengers))

IsLora(member) == "node" \in DOMAIN member

\* The types of the schema, as far as rooms are concerned.
IsMember(m) ==
    IF IsLora(m) THEN m = [node |-> m.node, endpoint |-> m.endpoint]
    ELSE /\ m = [transport |-> m.transport, chat |-> m.chat, topic |-> m.topic]
         /\ m.chat \in Seq(Range(m.chat)) /\ (m.topic = NoTopic \/ m.topic \in Seq(Range(m.topic)))
IsRoom(room) ==
    /\ IsMember(room.lora) /\ IsLora(room.lora)
    /\ room.subscribers \in Seq(Range(room.subscribers))
    /\ \A m \in Range(room.subscribers) : IsMember(m)

\* The primary endpoint and the subscribers of a room, in this order.
members(room) == <<room.lora>> \o room.subscribers

\* A seat is a place in the list of a room, and everyone who is listed has one.
Seats(config) == UNION {{i} \X DOMAIN members(config.rooms[i]) : i \in DOMAIN config.rooms}
MemberAt(config, seat) == members(config.rooms[seat[1]])[seat[2]]

---------------------------------------------------------------------------
(* The validators of the schema.                                           *)

\* Mutant of enforce_shape: a second LoRa endpoint is allowed next to messengers.
enforce_shapeMixed(room) ==
    LET subs == room.subscribers
        loras == {i \in DOMAIN subs : IsLora(subs[i])}
    IN  IF loras # {} THEN \E i \in loras : loras = {i} /\ subs[i] # room.lora ELSE subs # <<>>

\* One LoRa endpoint and N messengers, or two LoRa endpoints.
enforce_shape(room) ==
    LET subs == room.subscribers
        loras == {i \in DOMAIN subs : IsLora(subs[i])}
    IN  IF loras # {} THEN Len(subs) = 1 /\ subs[1] # room.lora ELSE subs # <<>>

\* Ids are unique among the nodes and among the messengers.
validate_unique_ids(config) == IsInjective(ids(config.lora)) /\ IsInjective(ids(config.messengers))

validate_lora_ref(config, ref) ==
    \E i \in DOMAIN config.lora :
        config.lora[i].id = ref.node /\ ref.endpoint \in config.lora[i].endpoints

\* What a room refers to exists.
validate_room_refs(config) ==
    \A seat \in Seats(config) :
        LET m == MemberAt(config, seat)
        IN  IF IsLora(m) THEN validate_lora_ref(config, m) ELSE m.transport \in MessengerIds(config)

\* No endpoint and no (transport, chat, topic) is listed twice.
validate_unique_membership(config) == IsInjective([s \in Seats(config) |-> MemberAt(config, s)])

Accepted(config) ==
    /\ \A room \in Range(config.rooms) : enforce_shape(room)
    /\ validate_unique_ids(config) /\ validate_room_refs(config)
    /\ validate_unique_membership(config)

---------------------------------------------------------------------------
(* RoomRegistry, and the members of a room a message goes to.              *)

\* An empty topic counts as none.
messenger_channel(chat, topic) ==
    IF topic \in {NoTopic, <<>>} THEN chat ELSE chat \o <<Hash>> \o topic

ref(m) ==
    IF IsLora(m) THEN [transport |-> m.node, channel |-> <<m.endpoint>>]
    ELSE [transport |-> m.transport, channel |-> messenger_channel(m.chat, m.topic)]

\* RoomRegistry raises for a reference it has seen.
RegistryBuilds(config) == IsInjective([s \in Seats(config) |-> ref(MemberAt(config, s))])

\* The rooms with a member of that reference; a registry that builds has at most one.
for_source(config, source) ==
    {room \in Range(config.rooms) : \E m \in Range(members(room)) : ref(m) = source}

\* The places in the list of the members that have another reference.
others(room, source) == {i \in DOMAIN members(room) : ref(members(room)[i]) # source}

\* A message of a node goes to all the others (route_from_lora).  One of a messenger is put on the
\* air for the first LoRa member and mirrored, once committed, to the other messengers (admit,
\* on_committed).  Which of the two it is, consume decides by the id of the transport.
Recipients(config, room, source) ==
    LET rest == others(room, source)
        loras == {i \in rest : IsLora(members(room)[i])}
    IN  IF source.transport \in NodeIds(config) THEN rest
        ELSE {i \in rest : loras # {} /\ (i \in loras => \A j \in loras : i <= j)}
Reached(config, room, source) == {members(room)[i] : i \in Recipients(config, room, source)}

---------------------------------------------------------------------------

\* What the keys of the validator and of the registry need to agree: no empty topic, no "#" in a
\* chat, no id shared by a node and a messenger.
Separable(config) ==
    /\ NodeIds(config) \cap MessengerIds(config) = {}
    /\ \A seat \in Seats(config) :
         LET m == MemberAt(config, seat)
         IN  ~IsLora(m) => m.topic # <<>> /\ \A i \in DOMAIN m.chat : m.chat[i] # Hash

\* Every member is in one room, and a message of it reaches the rest of that room.
Routable(config) ==
    /\ RegistryBuilds(config)
    /\ \A seat \in Seats(config) :
         LET m == MemberAt(config, seat)
         IN  \A room \in for_source(config, ref(m)) :
               Reached(config, room, ref(m)) = Range(members(room)) \ {m}
=============================================================================
