------------------------------ MODULE MCLifecycle ------------------------------
(* Two nodes, two bots, one of them with commands, and every configuration of *)
(* at most two rooms over a few endpoints, chats and topics, some of which do *)
(* not exist; and configurations whose ids are not unique.                    *)
EXTENDS Lifecycle, FiniteSets

CONSTANTS n1, n2, m1, m2, e1, chat, thread, none, hash

Node(id) == [id |-> id, endpoints |-> {e1}]
Bot(id, store) == [id |-> id, store |-> store]
End(id) == [node |-> id, endpoint |-> e1]
Chat(id, topic) == [transport |-> id, chat |-> <<chat>>, topic |-> topic]

Primaries == {End(n1), End(n2), [node |-> n1, endpoint |-> none]}
Subscribers ==
    {End(n1), End(n2), Chat(m1, NoTopic), Chat(m1, <<thread>>), Chat(m1, <<>>), Chat(m2, NoTopic),
     Chat(n1, NoTopic)}
SeqsUpTo(S, n) == UNION {[1..k -> S] : k \in 0..n}
RoomConfigs == [lora : Primaries, subscribers : SeqsUpTo(Subscribers, 2)]

Two == [lora |-> <<Node(n1), Node(n2)>>, messengers |-> <<Bot(m1, TRUE), Bot(m2, FALSE)>>]
One == [lora |-> <<Node(n1)>>, messengers |-> <<Bot(m1, TRUE)>>]
Twins == [lora |-> <<Node(n1), Node(n1)>>, messengers |-> <<Bot(m1, TRUE)>>]
Nothing == [lora |-> <<>>, messengers |-> <<>>]
Shared == [lora |-> <<Node(n1)>>, messengers |-> <<Bot(n1, TRUE)>>]

With(parts, rooms) == [lora |-> parts.lora, messengers |-> parts.messengers, rooms |-> rooms]

MCConfigs ==
    {With(Two, rooms) : rooms \in SeqsUpTo(RoomConfigs, 2)}
        \cup {With(parts, rooms) : parts \in {One, Twins, Shared, Nothing}, rooms \in SeqsUpTo(RoomConfigs, 1)}

OneConfig == {With(One, <<[lora |-> End(n1), subscribers |-> <<Chat(m1, NoTopic)>>]>>)}
=============================================================================
