----------------------------- MODULE LoraIngress -----------------------------
(***************************************************************************)
(* What one LoRa node hears: the mesh repeats packets, and a repeater or   *)
(* the room server may send our own transmission back.  Received frames go *)
(* through the bounded buffer of the node's Hub to Bridge.consume, which   *)
(* asks TtlDedup and LoopGuard before it routes a message.  The egress     *)
(* worker feeds the LoopGuard, some suspensions after the radio was given  *)
(* the text.                                                               *)
(*                                                                         *)
(* Sources: core/bridge.py (consume), core/dedup.py, core/loopguard.py,    *)
(* core/ttl_window.py, core/egress.py (transmit), transports/hub.py,       *)
(* transports/meshcore/transport.py (on_event).                            *)
(***************************************************************************)
EXTENDS TtlWindow, FiniteSets

CONSTANTS
    Foreign,  \* the messages other stations send, [by, text]
    Wires,    \* the wire texts this node transmits
    NoWire,   \* none of them
    Decoded,  \* [Wires -> [by, text]], what the mapper makes of the echo of a wire text
    HubSize,  \* the buffer of a hub subscriber (hub.py, 256)
    MaxTime   \* bound on the clock

Keys == Foreign \cup {Decoded[w] : w \in Wires}
Texts == {k.text : k \in Keys} \cup Wires

ASSUME IngressAssumption ==
    /\ NoWire \notin Wires
    /\ DOMAIN Decoded = Wires
    /\ HubSize \in Nat \ {0}
    /\ MaxTime \in Nat

\* A received frame: the dedup key (author and text), and the wire text it echoes.
Frame == [key : Keys, echo : Wires \cup {NoWire}]

Never == MaxTime + 1
Times == 0..MaxTime

VARIABLES
    clock,    \* time.monotonic()
    hub,      \* frames published and not yet taken by the consumer
    routing,  \* the consumer is suspended in route_from_lora
    dedup,    \* the TtlWindow of TtlDedup
    guard,    \* the TtlWindow of LoopGuard
    tx,       \* the text the worker is transmitting, or NoWire
    onAir,    \* history: texts this node has transmitted
    asked,    \* history: [Keys -> time dedup was last asked about the key, or Never]
    sentAt,   \* history: [Wires -> time of the last mark_sent, or Never]
    routedAt  \* history: [Keys -> time the key was last routed, or Never]

vars == <<clock, hub, routing, dedup, guard, tx, onAir, asked, sentAt, routedAt>>

Init ==
    /\ clock = 0
    /\ hub = <<>> /\ routing = FALSE
    /\ dedup = <<>> /\ guard = <<>>
    /\ tx = NoWire /\ onAir = {}
    /\ asked = [k \in Keys |-> Never]
    /\ sentAt = [w \in Wires |-> Never]
    /\ routedAt = [k \in Keys |-> Never]

Tick ==
    /\ clock < MaxTime
    /\ clock' = clock + 1
    /\ UNCHANGED <<hub, routing, dedup, guard, tx, onAir, asked, sentAt, routedAt>>

\* Mutant of Publish: nothing bounds the buffer.
PublishUnbounded(f) == hub' = Append(hub, f)

\* Hub.publish: a full buffer loses the new frame.
Publish(f) == hub' = IF Len(hub) < HubSize THEN Append(hub, f) ELSE hub

\* A foreign message, or one more copy of it, reaches the radio.
Hear(k) ==
    /\ Publish([key |-> k, echo |-> NoWire])
    /\ UNCHANGED <<clock, routing, dedup, guard, tx, onAir, asked, sentAt, routedAt>>

\* Our own transmission comes back.
HearEcho(w) ==
    /\ w \in onAir
    /\ Publish([key |-> Decoded[w], echo |-> w])
    /\ UNCHANGED <<clock, routing, dedup, guard, tx, onAir, asked, sentAt, routedAt>>

---------------------------------------------------------------------------
(* Bridge.consume, for a LoRa node.                                        *)

NextFrame(f) ==
    /\ ~routing
    /\ hub # <<>> /\ f = Head(hub)
    /\ hub' = Tail(hub)
    /\ asked' = [asked EXCEPT ![f.key] = clock]
    /\ dedup' = AddIfAbsent(dedup, f.key, clock)

\* dedup.accept says no.
SwallowDuplicate ==
    \E f \in Frame :
        /\ NextFrame(f)
        /\ Has(Evict(dedup, clock), f.key)
        /\ UNCHANGED <<clock, routing, guard, tx, onAir, sentAt, routedAt>>

\* loop_guard.is_echo says yes; asking evicts.
SwallowEcho ==
    \E f \in Frame :
        /\ NextFrame(f)
        /\ ~Has(Evict(dedup, clock), f.key)
        /\ guard' = Evict(guard, clock)
        /\ Has(guard', f.key.text)
        /\ UNCHANGED <<clock, routing, tx, onAir, sentAt, routedAt>>

\* Mutant of Route: the loop guard is not asked.
RouteUnguarded ==
    \E f \in Frame :
        /\ NextFrame(f)
        /\ ~Has(Evict(dedup, clock), f.key)
        /\ routing' = TRUE
        /\ routedAt' = [routedAt EXCEPT ![f.key] = clock]
        /\ UNCHANGED <<clock, guard, tx, onAir, sentAt>>

\* A new message that is not ours: route_from_lora begins.
Route ==
    \E f \in Frame :
        /\ NextFrame(f)
        /\ ~Has(Evict(dedup, clock), f.key)
        /\ guard' = Evict(guard, clock)
        /\ ~Has(guard', f.key.text)
        /\ routing' = TRUE
        /\ routedAt' = [routedAt EXCEPT ![f.key] = clock]
        /\ UNCHANGED <<clock, tx, onAir, sentAt>>

\* The mirrors and the relay of route_from_lora have been awaited.
RouteDone ==
    /\ routing
    /\ routing' = FALSE
    /\ UNCHANGED <<clock, hub, dedup, guard, tx, onAir, asked, sentAt, routedAt>>

---------------------------------------------------------------------------
(* RadioWorker.transmit, as far as the loop guard is concerned.            *)

\* The radio is given the text: from now on others may repeat it.
Transmit(w) ==
    /\ tx = NoWire
    /\ tx' = w
    /\ onAir' = onAir \cup {w}
    /\ UNCHANGED <<clock, hub, routing, dedup, guard, asked, sentAt, routedAt>>

\* send has returned ok, the journal says SENT, the status is shown: mark_sent.
MarkSent ==
    /\ tx # NoWire
    /\ guard' = Add(guard, tx, clock)
    /\ sentAt' = [sentAt EXCEPT ![tx] = clock]
    /\ tx' = NoWire
    /\ UNCHANGED <<clock, hub, routing, dedup, onAir, asked, routedAt>>

\* An error or the commit timeout: the text may be on the air, and is not marked.
TransmitFailed ==
    /\ tx # NoWire
    /\ tx' = NoWire
    /\ UNCHANGED <<clock, hub, routing, dedup, guard, onAir, asked, sentAt, routedAt>>

Next ==
    \/ Tick
    \/ \E k \in Foreign : Hear(k)
    \/ \E w \in Wires : HearEcho(w) \/ Transmit(w)
    \/ SwallowDuplicate \/ SwallowEcho \/ Route \/ RouteDone
    \/ MarkSent \/ TransmitFailed

Spec == Init /\ [][Next]_vars

---------------------------------------------------------------------------
(* Properties.                                                             *)

Item(K) == [key : K, at : Times]

TypeOK ==
    /\ clock \in Times
    /\ hub \in Seq(Frame) /\ Len(hub) <= HubSize
    /\ routing \in BOOLEAN
    /\ dedup \in Seq(Item(Keys)) /\ guard \in Seq(Item(Wires))
    /\ tx \in Wires \cup {NoWire} /\ onAir \subseteq Wires
    /\ asked \in [Keys -> Times \cup {Never}]
    /\ sentAt \in [Wires -> Times \cup {Never}]
    /\ routedAt \in [Keys -> Times \cup {Never}]

\* f is what a step routes.
Routes(f) == ~routing /\ routing' /\ f = Head(hub)

\* A mesh duplicate is not routed twice (AD-9): two messages with the same author and text
\* that are routed are more than TTL apart, however copies, other messages and evictions
\* interleave.
DuplicatesSpaced ==
    [][\A f \in Frame : Routes(f) => \/ routedAt[f.key] = Never
                                     \/ routedAt[f.key] + TTL < clock]_vars

\* The window does not remember for ever: what dedup still refuses after eviction was heard
\* (accepted or refused) within the last TTL seconds.  The bound on the time of ACCEPTANCE
\* does not hold: a refused copy moves its old item behind younger ones.
SilenceForgets ==
    \A e \in {Evict(dedup, clock)[i] : i \in DOMAIN Evict(dedup, clock)} :
        asked[e.key] # Never /\ asked[e.key] + TTL >= clock

\* The loop guard answers exactly "this text was marked within the last TTL seconds".
GuardIsExact ==
    \A w \in Wires :
        Has(Evict(guard, clock), w) <=> sentAt[w] # Never /\ sentAt[w] + TTL >= clock

\* f is an echo of our own transmission that the mapper left intact.
IntactEcho(f) == f.echo \in Wires /\ f.key.text = f.echo

\* Such an echo is not routed while its mark is fresh.
MarkedEchoDropped ==
    [][\A f \in Frame : Routes(f) /\ IntactEcho(f) => \/ sentAt[f.echo] = Never
                                                      \/ sentAt[f.echo] + TTL < clock]_vars

\* "We swallow our own TX echo" (loopguard.py): while the transmission is in progress its
\* echo is not routed either.
OwnEchoDropped ==
    [][\A f \in Frame : Routes(f) /\ IntactEcho(f) => f.echo # tx]_vars
=============================================================================
