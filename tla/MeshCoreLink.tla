----------------------------- MODULE MeshCoreLink -----------------------------
(***************************************************************************)
(* The connection of one LoRa node: start() opens it, prepares the device  *)
(* and subscribes to its events last; run() waits for the loss of the      *)
(* connection and starts again with a growing delay; send() is called by   *)
(* the egress worker at any time.                                          *)
(*                                                                         *)
(* Sources: transports/meshcore/transport.py, transports/meshcore/         *)
(* connection.py and what mappers/ ask of a connection; what resolve()     *)
(* does to the device is the subject of NodeEndpoints.  The meshcore       *)
(* library (a dispatcher that calls the subscribers of an event when it    *)
(* gets to it, commands that fail or time out when the link is gone) is    *)
(* modelled from how the transport uses it.                                *)
(***************************************************************************)
EXTENDS Naturals, FiniteSets

CONSTANTS
    Endpoints,  \* the endpoints of the node
    Rooms,      \* those that are room servers; the others are channels
    MaxConns,   \* bound on connections made
    MaxDelay    \* doublings until the reconnect delay reaches its cap

ASSUME LinkAssumption ==
    /\ Endpoints # {} /\ IsFiniteSet(Endpoints) /\ Rooms \subseteq Endpoints
    /\ MaxConns \in Nat \ {0}
    /\ MaxDelay \in Nat \ {0}

\* Connections are numbered; 0 is None.
Conns == 1..MaxConns
None == 0

\* Where start() or run() is suspended; "dead": the first start raised and the process ended.
Preparing == {"setting_time", "contacts", "resolving", "fetching"}
Places == {"connecting", "waiting", "backoff", "closing", "dead", "stopped"} \cup Preparing

VARIABLES
    at,           \* where start() or run() is suspended
    first,        \* start() was called by Bridge.run, not by run()
    mc,           \* the connection in use, _mc
    opened,       \* the number of connections made
    open,         \* connections made and not yet closed
    lost,         \* connections whose link is gone
    emitted,      \* connections whose DISCONNECTED waits for the dispatcher
    subscribed,   \* connections on_event is subscribed to
    ev,           \* _disconnect_ev: "none", "clear" or "set"
    delay,        \* doublings of the reconnect delay
    slot,         \* [Endpoints -> connection its resolve() last returned on, or None]
    sending,      \* sends under way, [conn, endpoint, slot]
    heard         \* history: connections lost after on_event was subscribed

linkVars == <<opened, open, lost, emitted, subscribed, heard>>
vars == <<at, first, mc, linkVars, ev, delay, slot, sending>>

\* Bridge.run calls start().
Init ==
    /\ at = "connecting" /\ first = TRUE /\ mc = None
    /\ opened = 0 /\ open = {} /\ lost = {} /\ emitted = {} /\ subscribed = {} /\ heard = {}
    /\ ev = "clear" /\ delay = 0
    /\ slot = [e \in Endpoints |-> None]
    /\ sending = {}

---------------------------------------------------------------------------
(* start.                                                                  *)

\* start() creates the event and asks for a connection.
BeginStart == at' = "connecting" /\ ev' = "clear"

\* start() has returned to Bridge.run or to run().
Started == at' = "waiting" /\ first' = FALSE

\* Mutant of Grow: the delay has no cap.
GrowUncapped == delay' = delay + 1

\* delay = min(delay * 2, 60.0)
Grow == delay' = IF delay < MaxDelay THEN delay + 1 ELSE delay

ConnectOk ==
    /\ at = "connecting" /\ opened < MaxConns
    /\ opened' = opened + 1
    /\ mc' = opened' /\ open' = open \cup {opened'}
    /\ at' = "setting_time"
    /\ UNCHANGED <<first, lost, emitted, subscribed, heard, ev, delay, slot, sending>>

\* No answer from the device: start() raises the event itself, so that run() tries again.
ConnectFails ==
    /\ at = "connecting"
    /\ ev' = "set"
    /\ Started
    /\ IF first THEN UNCHANGED delay ELSE Grow
    /\ UNCHANGED <<mc, linkVars, slot, sending>>

\* set_time and ensure_contacts are done; their errors are not looked at.
Prepare ==
    /\ \/ at = "setting_time" /\ at' = "contacts"
       \/ at = "contacts" /\ at' = "resolving"
    /\ UNCHANGED <<first, mc, linkVars, ev, delay, slot, sending>>

\* resolve() of endpoint e returns.  A channel finds or writes its slot, for which the device has to
\* answer; a room server logs the errors of the device and goes on.
ResolveEndpoint(e) ==
    /\ at = "resolving" /\ slot[e] # mc
    /\ e \in Rooms \/ mc \notin lost
    /\ slot' = [slot EXCEPT ![e] = mc]
    /\ at' = IF \A d \in Endpoints : slot'[d] = mc THEN "fetching" ELSE "resolving"
    /\ UNCHANGED <<first, mc, linkVars, ev, delay, sending>>

Resolve == \E e \in Endpoints : ResolveEndpoint(e)

\* Auto-fetching is on; start() subscribes to the events and returns.
Subscribe ==
    /\ at = "fetching"
    /\ subscribed' = subscribed \cup {mc}
    /\ Started
    /\ delay' = IF first THEN delay ELSE 0
    /\ UNCHANGED <<mc, opened, open, lost, emitted, heard, ev, slot, sending>>

\* Mutant of StartRaises: a failure is taken for a finished start.
StartRaisesQuietly ==
    /\ at \in Preparing
    /\ Started
    /\ UNCHANGED <<mc, linkVars, ev, delay, slot, sending>>

\* A step of start() raises: Bridge.run dies of it; run() forgets the event and backs off.
StartRaises ==
    /\ at \in Preparing
    /\ IF first
       THEN at' = "dead" /\ UNCHANGED <<ev, delay>>
       ELSE at' = "backoff" /\ ev' = "none" /\ Grow
    /\ UNCHANGED <<first, mc, linkVars, slot, sending>>

---------------------------------------------------------------------------
(* run, _teardown, stop.                                                   *)

Wake ==
    /\ at = "waiting" /\ ev = "set"
    /\ at' = "backoff"
    /\ UNCHANGED <<first, mc, linkVars, ev, delay, slot, sending>>

\* Mutant of Teardown: the old connection is dropped without being closed.
TeardownForgets ==
    /\ at = "backoff"
    /\ mc' = None
    /\ BeginStart
    /\ UNCHANGED <<first, linkVars, delay, slot, sending>>

\* The delay is over: the old connection, if any, is closed before start() is called.
Teardown ==
    /\ at = "backoff"
    /\ mc' = None
    /\ IF mc # None THEN at' = "closing" /\ UNCHANGED ev ELSE BeginStart
    /\ UNCHANGED <<first, linkVars, delay, slot, sending>>

\* disconnect() has returned or raised.
Closed ==
    /\ at = "closing"
    /\ open' = {}
    /\ BeginStart
    /\ UNCHANGED <<first, mc, opened, lost, emitted, subscribed, heard, delay, slot, sending>>

\* The supervisor has cancelled run() and the worker; stop() closes what is in use.
Stop ==
    /\ ~first /\ at \notin {"stopped", "dead"}
    /\ at' = "stopped"
    /\ ev' = IF ev = "clear" THEN "set" ELSE ev
    /\ mc' = None /\ open' = open \ {mc}
    /\ sending' = {}
    /\ UNCHANGED <<first, opened, lost, emitted, subscribed, heard, delay, slot>>

---------------------------------------------------------------------------
(* The device, and the dispatcher of the library.                          *)

\* Cable, radio, reboot: the connection in use is lost.
Drop ==
    /\ mc # None /\ mc \notin lost
    /\ lost' = lost \cup {mc}
    /\ emitted' = emitted \cup {mc}
    /\ heard' = IF mc \in subscribed THEN heard \cup {mc} ELSE heard
    /\ UNCHANGED <<at, first, mc, opened, open, subscribed, ev, delay, slot, sending>>

\* Mutant of Dispatch: an event that comes while a send is under way is left to the send.
DispatchUnlessSending(c) ==
    /\ c \in emitted
    /\ emitted' = emitted \ {c}
    /\ ev' = IF c \in subscribed /\ ev = "clear" /\ sending = {} THEN "set" ELSE ev
    /\ UNCHANGED <<at, first, mc, opened, open, lost, subscribed, heard, delay, slot, sending>>

\* on_event gets DISCONNECTED, if it is subscribed by now, and raises the CURRENT event.
Dispatch(c) ==
    /\ c \in emitted
    /\ emitted' = emitted \ {c}
    /\ ev' = IF c \in subscribed /\ ev = "clear" THEN "set" ELSE ev
    /\ UNCHANGED <<at, first, mc, opened, open, lost, subscribed, heard, delay, slot, sending>>

---------------------------------------------------------------------------
(* send, called by the egress worker, which awaits it.                     *)

\* A connection is there and the channel has a slot (a room server needs none): the text is given to
\* the device.
SendBegin(e) ==
    /\ ~first /\ at \notin {"stopped", "dead"}
    /\ sending = {}
    /\ mc # None /\ (e \in Rooms \/ slot[e] # None)
    /\ sending' = {[conn |-> mc, endpoint |-> e, slot |-> slot[e]]}
    /\ UNCHANGED <<at, first, mc, linkVars, ev, delay, slot>>

\* The device answers, or the commit timeout ends the wait.
SendEnd ==
    /\ sending # {}
    /\ sending' = {}
    /\ UNCHANGED <<at, first, mc, linkVars, ev, delay, slot>>

Start == ConnectOk \/ ConnectFails \/ Prepare \/ Resolve \/ Subscribe \/ StartRaises
Run == Wake \/ Teardown \/ Closed

Next ==
    \/ Start \/ Run \/ Stop
    \/ Drop \/ \E c \in Conns : Dispatch(c)
    \/ \E e \in Endpoints : SendBegin(e)
    \/ SendEnd

Spec == Init /\ [][Next]_vars

\* Every await of start() and run() ends (commands time out), and the dispatcher runs.
FairSpec ==
    /\ Spec
    /\ WF_vars(Start) /\ WF_vars(Run) /\ \A c \in Conns : WF_vars(Dispatch(c))

---------------------------------------------------------------------------
(* Properties.                                                             *)

TypeOK ==
    /\ at \in Places /\ first \in BOOLEAN
    /\ mc \in Conns \cup {None} /\ opened \in 0..MaxConns
    /\ open \subseteq Conns /\ lost \subseteq Conns /\ emitted \subseteq Conns
    /\ subscribed \subseteq Conns /\ heard \subseteq Conns
    /\ ev \in {"none", "clear", "set"} /\ delay \in 0..MaxDelay
    /\ slot \in [Endpoints -> Conns \cup {None}]
    /\ sending \subseteq [conn : Conns, endpoint : Endpoints, slot : Conns \cup {None}]

\* Never two connections to one device (a serial port opens once), whatever start() fails at
\* and whatever connection its exception leaves behind.
OneConnection == Cardinality(open) <= 1

\* While run() waits with a connection, every endpoint has found its slot on THAT connection:
\* no message goes to a slot number a previous connection left in the handler.
WaitingIsResolved ==
    at = "waiting" /\ mc # None => \A e \in Endpoints : slot[e] = mc

\* A connection lost after start() subscribed is given up, wherever run() was at the time and
\* whichever event object was current.
HeardDropRecovers ==
    \A c \in Conns : mc = c /\ c \in heard ~> mc # c \/ at \in {"dead", "stopped"}

\* "The event is created before connect() so as not to miss DISCONNECTED when the connection
\* breaks at once" (start): every lost connection is given up.
DropRecovers ==
    \A c \in Conns : mc = c /\ c \in lost ~> mc # c \/ at \in {"dead", "stopped"}
=============================================================================
