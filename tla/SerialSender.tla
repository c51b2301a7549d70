---------------------------- MODULE SerialSender ----------------------------
(***************************************************************************)
(* What the path into the air promises, without queue, journal or tasks:   *)
(* every node has messages waiting and at most one in the air.  Of those   *)
(* that wait for a node the one accepted first begins first, and each      *)
(* begins at most once in the life of the system, restarts included.       *)
(* Delivery is not promised: a message may be dropped (too old, or no room *)
(* for it at a restart).  Nothing is accepted, begun or ended while the    *)
(* system is down, and only while it is down may a dropped message return. *)
(***************************************************************************)
EXTENDS Naturals, Sequences

CONSTANTS Msgs, Nodes, NoMsg, Target

VARIABLES
    mode,      \* "down" from a crash to the end of the recovery after it, else "up"
    accepted,  \* messages ever accepted, in that order
    waiting,   \* messages that wait, each for its Target
    inAir,     \* [Nodes -> Msgs \cup {NoMsg}]
    tried      \* messages whose transmission ever began

senderVars == <<mode, accepted, waiting, inAir, tried>>

Accepted == {accepted[i] : i \in DOMAIN accepted}

\* m was accepted before o.
Before(m, o) == \E i, j \in DOMAIN accepted : i < j /\ accepted[i] = m /\ accepted[j] = o

SenderInit ==
    /\ mode = "down" /\ accepted = <<>> /\ waiting = {} /\ tried = {}
    /\ inAir = [n \in Nodes |-> NoMsg]

\* A message is accepted, once.
Accept(m) ==
    /\ mode = "up" /\ m \notin Accepted
    /\ accepted' = Append(accepted, m)
    /\ waiting' = waiting \cup {m}
    /\ UNCHANGED <<mode, inAir, tried>>

\* The first in the line of its node goes on the air; it never was there before.
Begin(m) ==
    /\ mode = "up" /\ m \in waiting \ tried
    /\ inAir[Target[m]] = NoMsg
    /\ \A o \in waiting \ {m} : Target[o] = Target[m] => Before(m, o)
    /\ inAir' = [inAir EXCEPT ![Target[m]] = m]
    /\ tried' = tried \cup {m}
    /\ waiting' = waiting \ {m}
    /\ UNCHANGED <<mode, accepted>>

\* The attempt is over, with whatever result.
End(n) ==
    /\ mode = "up" /\ inAir[n] # NoMsg
    /\ inAir' = [inAir EXCEPT ![n] = NoMsg]
    /\ UNCHANGED <<mode, accepted, waiting, tried>>

\* A message waits no longer; it may also be left out of a recovery.
Drop(m) ==
    /\ m \in waiting
    /\ waiting' = waiting \ {m}
    /\ UNCHANGED <<mode, accepted, inAir, tried>>

\* A crash forgets some of what waits, and what has not begun may come back.
Restart ==
    /\ mode' = "down"
    /\ waiting' \in SUBSET (Accepted \ tried)
    /\ inAir' = [n \in Nodes |-> NoMsg]
    /\ UNCHANGED <<accepted, tried>>

\* The recovery is over.
Resume ==
    /\ mode = "down" /\ mode' = "up"
    /\ UNCHANGED <<accepted, waiting, inAir, tried>>

SenderNext ==
    \/ \E m \in Msgs : Accept(m) \/ Begin(m) \/ Drop(m)
    \/ \E n \in Nodes : End(n)
    \/ Restart \/ Resume

SenderSpec == SenderInit /\ [][SenderNext]_senderVars
=============================================================================
