-------------------------- MODULE ReactionDebouncer --------------------------
(***************************************************************************)
(* The status of a message as its sender sees it in Telegram: a reaction   *)
(* that is put on with a delay and taken off at once when the message has  *)
(* been sent.  The bot's calls travel to the Bot API on connections of     *)
(* their own: the server may serve two calls in either order, a call or    *)
(* its answer may be lost, and the process may die between any two steps.  *)
(*                                                                         *)
(* Sources: transports/telegram/reactions.py (ReactionDebouncer,           *)
(* ReactionFeedback.report); report_status of transports/telegram/         *)
(* transport.py; the order of the reports is that of CommitPipeline        *)
(* (StatusForward).                                                        *)
(*                                                                         *)
(* A task that is cancelled while it sleeps ends without a further step,   *)
(* also when its sleep is over and it has not resumed yet: Task.cancel     *)
(* makes the await raise.                                                  *)
(***************************************************************************)
EXTENDS Naturals, FiniteSets

CONSTANTS
    Messages,  \* (chat id, message id)
    NoTask,    \* no entry in _tasks
    MaxLives   \* bound on starts of the process

ASSUME DebouncerAssumption == MaxLives \in Nat \ {0}

Reported == {"PENDING", "SENT", "FAILED", "REJECTED", "UNKNOWN"}

\* The emoji of a status; SENT has none.
Reactions == Reported \ {"SENT"}

Call == [key : Messages, gen : Nat, reaction : Reactions \cup {"empty"},
         life : 1..MaxLives, served : BOOLEAN]

VARIABLES
    life,        \* how many times the process was started
    status,      \* [Messages -> last status the core reported, or "none"]
    inLife,      \* [Messages -> the life it was reported in]
    tasks,       \* [Messages -> the sleeping task, [gen, reaction], or NoTask]
    generation,  \* [Messages -> Nat], _generation; 0 is an absent key
    sent,        \* messages whose reaction was confirmed, _sent
    calls,       \* set_message_reaction calls under way
    displayed,   \* [Messages -> the reaction the chat shows, or "empty"]
    raced,       \* history: messages sent, or drawn anew, while a call of theirs was under way
    faulty       \* history: messages with a failed call or a death of the process in between

coreVars == <<life, status, inLife>>
botVars == <<tasks, generation, sent>>
vars == <<coreVars, botVars, calls, displayed, raced, faulty>>

Init ==
    /\ life = 1
    /\ status = [m \in Messages |-> "none"] /\ inLife = [m \in Messages |-> 0]
    /\ tasks = [m \in Messages |-> NoTask]
    /\ generation = [m \in Messages |-> 0]
    /\ sent = {} /\ calls = {}
    /\ displayed = [m \in Messages |-> "empty"]
    /\ raced = {} /\ faulty = {}

CallsFor(m) == {c \in calls : c.key = m}
Race(m) == raced' = IF CallsFor(m) # {} THEN raced \cup {m} ELSE raced

---------------------------------------------------------------------------
(* report.                                                                 *)

\* The next status of m is st: a verdict, or what recovery says in a later life.
Follows(m, st) ==
    /\ \/ status[m] = "none" /\ st \in {"PENDING", "REJECTED"}
       \/ status[m] = "PENDING" /\ inLife[m] = life /\ st \in {"SENT", "FAILED", "REJECTED"}
       \/ status[m] = "PENDING" /\ inLife[m] < life /\ st \in {"PENDING", "UNKNOWN"}
    /\ status' = [status EXCEPT ![m] = st]
    /\ inLife' = [inLife EXCEPT ![m] = life]
    /\ UNCHANGED life

\* Mutant of Schedule: the callback that sleeps already is not replaced.
ScheduleOnce(m, st) ==
    /\ Follows(m, st) /\ st # "SENT"
    /\ generation' = [generation EXCEPT ![m] = @ + 1]
    /\ tasks' = [tasks EXCEPT ![m] = IF @ = NoTask
                                     THEN [gen |-> generation[m] + 1, reaction |-> st] ELSE @]
    /\ UNCHANGED <<sent, calls, displayed, raced, faulty>>

\* schedule: a task that sleeps is replaced by the new one.
Schedule(m, st) ==
    /\ Follows(m, st) /\ st # "SENT"
    /\ generation' = [generation EXCEPT ![m] = @ + 1]
    /\ tasks' = [tasks EXCEPT ![m] = [gen |-> generation[m] + 1, reaction |-> st]]
    /\ UNCHANGED <<sent, calls, displayed, raced, faulty>>

\* clear_now: the task is still asleep, nothing has been displayed.
CancelPending(m) ==
    /\ Follows(m, "SENT")
    /\ tasks[m] # NoTask
    /\ tasks' = [tasks EXCEPT ![m] = NoTask]
    /\ generation' = [generation EXCEPT ![m] = @ + 1]
    /\ Race(m)
    /\ UNCHANGED <<sent, calls, displayed, faulty>>

\* Mutant of ClearNothing: whether a reaction was displayed is not asked.
ClearNothingAsked(m) ==
    /\ Follows(m, "SENT")
    /\ tasks[m] = NoTask
    /\ generation' = [generation EXCEPT ![m] = @ + 1]
    /\ calls' = calls \cup {[key |-> m, gen |-> generation[m] + 1, reaction |-> "empty",
                             life |-> life, served |-> FALSE]}
    /\ Race(m)
    /\ UNCHANGED <<tasks, sent, displayed, faulty>>

\* clear_now: no reaction is known to be displayed.
ClearNothing(m) ==
    /\ Follows(m, "SENT")
    /\ tasks[m] = NoTask /\ m \notin sent
    /\ generation' = [generation EXCEPT ![m] = @ + 1]
    /\ Race(m)
    /\ UNCHANGED <<tasks, sent, calls, displayed, faulty>>

\* Mutant of ClearDisplayed: SENT is drawn like the other statuses.
ClearDisplayedMarked(m) ==
    /\ Follows(m, "SENT")
    /\ tasks[m] = NoTask /\ m \in sent
    /\ generation' = [generation EXCEPT ![m] = @ + 1]
    /\ sent' = sent \ {m}
    /\ calls' = calls \cup {[key |-> m, gen |-> generation[m] + 1, reaction |-> "SENT",
                             life |-> life, served |-> FALSE]}
    /\ Race(m)
    /\ UNCHANGED <<tasks, displayed, faulty>>

\* clear_now: the reaction is taken off.
ClearDisplayed(m) ==
    /\ Follows(m, "SENT")
    /\ tasks[m] = NoTask /\ m \in sent
    /\ generation' = [generation EXCEPT ![m] = @ + 1]
    /\ sent' = sent \ {m}
    /\ calls' = calls \cup {[key |-> m, gen |-> generation[m] + 1, reaction |-> "empty",
                             life |-> life, served |-> FALSE]}
    /\ Race(m)
    /\ UNCHANGED <<tasks, displayed, faulty>>

---------------------------------------------------------------------------
(* _delayed_apply.                                                         *)

\* The delay is over and the generation is still the task's.
Wake(m) ==
    /\ tasks[m] # NoTask /\ tasks[m].gen = generation[m]
    /\ tasks' = [tasks EXCEPT ![m] = NoTask]
    /\ calls' = calls \cup {[key |-> m, gen |-> tasks[m].gen, reaction |-> tasks[m].reaction,
                             life |-> life, served |-> FALSE]}
    /\ Race(m)
    /\ UNCHANGED <<coreVars, generation, sent, displayed, faulty>>

---------------------------------------------------------------------------
(* The Bot API and the way to it.                                          *)

\* The server carries a call out.
Serve(c) ==
    /\ ~c.served
    /\ calls' = (calls \ {c}) \cup {[c EXCEPT !.served = TRUE]}
    /\ displayed' = [displayed EXCEPT ![c.key] = c.reaction]
    /\ UNCHANGED <<coreVars, botVars, raced, faulty>>

\* Mutant of Answered: a confirmed reaction is not remembered.
AnsweredForgotten(c) ==
    /\ c.served
    /\ calls' = calls \ {c}
    /\ UNCHANGED <<coreVars, botVars, displayed, raced, faulty>>

\* The answer arrives: a reaction is remembered by the process that asked for it.
Answered(c) ==
    /\ c.served
    /\ calls' = calls \ {c}
    /\ sent' = IF c.reaction # "empty" /\ c.life = life THEN sent \cup {c.key} ELSE sent
    /\ UNCHANGED <<coreVars, tasks, generation, displayed, raced, faulty>>

\* The call or its answer is lost, or the server refuses it: logged and forgotten.
CallFailed(c) ==
    /\ calls' = calls \ {c}
    /\ faulty' = faulty \cup {c.key}
    /\ UNCHANGED <<coreVars, botVars, displayed, raced>>

\* The process dies and is started again; calls under way may still be served.
Restart ==
    /\ life < MaxLives
    /\ life' = life + 1
    /\ tasks' = [m \in Messages |-> NoTask]
    /\ generation' = [m \in Messages |-> 0]
    /\ sent' = {}
    /\ faulty' = faulty \cup {m \in Messages : status[m] # "none"}
    /\ UNCHANGED <<status, inLife, calls, displayed, raced>>

Clear(m) == CancelPending(m) \/ ClearNothing(m) \/ ClearDisplayed(m)

Api(c) == Serve(c) \/ Answered(c) \/ CallFailed(c)

Next ==
    \/ \E m \in Messages : Wake(m) \/ Clear(m) \/ \E st \in Reactions : Schedule(m, st)
    \/ \E c \in calls : Api(c)
    \/ Restart

Spec == Init /\ [][Next]_vars

\* Sleeps end, and every call is answered or times out.
FairSpec ==
    /\ Spec
    /\ \A m \in Messages : WF_vars(Wake(m))
    /\ WF_vars(\E c \in calls : Api(c))

---------------------------------------------------------------------------
(* Properties.                                                             *)

TypeOK ==
    /\ life \in 1..MaxLives
    /\ status \in [Messages -> Reported \cup {"none"}] /\ inLife \in [Messages -> 0..MaxLives]
    /\ tasks \in [Messages -> [gen : Nat, reaction : Reactions] \cup {NoTask}]
    /\ generation \in [Messages -> Nat]
    /\ sent \subseteq Messages /\ calls \subseteq Call
    /\ displayed \in [Messages -> Reactions \cup {"empty"}]
    /\ raced \subseteq Messages /\ faulty \subseteq Messages

\* Nothing sleeps and nothing is under way for m.
Settled(m) == tasks[m] = NoTask /\ CallsFor(m) = {}

\* "SENT clears at once": a message reported as sent shows no reaction once everything has
\* settled, however the delay, the calls and their answers interleave, unless a call was
\* under way at the time of the report, failed, or the process died.
SentIsClean ==
    \A m \in Messages :
        status[m] = "SENT" /\ Settled(m) /\ m \notin raced \cup faulty => displayed[m] = "empty"

\* A call that takes a reaction off is made only for a message that shows one (clear_now:
\* "otherwise Telegram returns REACTION_EMPTY").
ClearIsNeeded ==
    \A c \in calls : c.reaction = "empty" /\ ~c.served => displayed[c.key] # "empty"

\* A verdict reported while the callback for PENDING sleeps, or while its call is under way, is
\* drawn and stays, unless two calls overlap, a call fails or the process dies.
VerdictIsDrawn ==
    \A m \in Messages :
        status[m] \in {"FAILED", "REJECTED"} ~> displayed[m] = status[m] \/ m \in raced \cup faulty

\* The claim of the generation counter (ReactionDebouncer): whatever the race between the
\* callback and SENT, no reaction is left on a message that was sent.
NoStaleReaction ==
    \A m \in Messages :
        status[m] = "SENT" /\ Settled(m) /\ m \notin faulty => displayed[m] = "empty"
=============================================================================
