------------------------------ MODULE Moderation ------------------------------
(***************************************************************************)
(* Roles, bans, aliases and the audit log of one Telegram bot, and the     *)
(* handler that gives user texts to the bridge.  Every update is a task of *)
(* its own, and all tasks share one aiosqlite connection: its thread runs  *)
(* their requests in the order submitted, and a COMMIT of one task makes   *)
(* durable what the others have written so far.                            *)
(*                                                                         *)
(* Sources: transports/telegram/moderation/{store,roles}.py,               *)
(* transports/telegram/commands/{framework,handlers,moderation}.py and     *)
(* on_message of transports/telegram/transport.py.  Left out: malformed    *)
(* commands, unknown commands and commands in groups, which are answered   *)
(* and change nothing; names, time stamps and wording; the menu, which     *)
(* Telegram keeps (the SELECT made for it is a step).                      *)
(***************************************************************************)
EXTENDS Naturals, Sequences, FiniteSets

CONSTANTS
    Users,        \* Telegram users
    Owner,        \* owner_id of the configuration
    Aliases,      \* aliases the length check accepts
    NoAlias,      \* NULL
    TooLong,      \* any alias the length check refuses
    RequireAlias, \* require_alias of the configuration
    Tasks,        \* updates handled at one time
    Commands,     \* the commands and texts users may send
    InitialRole,  \* [Users -> role in the table at the start]
    PageSize,     \* _PAGE_SIZE of the audit log
    MaxUpdates,   \* bound on updates received
    MaxCrashes    \* bound on crashes

\* Role, an IntEnum.  USER is also what a user without a row has.
USER == 0
MODERATOR == 1
ADMIN == 2
OWNER == 3

\* The least role of each command; "text" is a message that is no command, "page" a button of
\* the audit log.
MinRole ==
    [help |-> USER, alias |-> USER, transliter |-> USER, text |-> USER,
     ban |-> MODERATOR, unban |-> MODERATOR, banlist |-> MODERATOR, audit |-> MODERATOR,
     page |-> MODERATOR, grant |-> ADMIN, revoke |-> ADMIN]
Kinds == DOMAIN MinRole

\* arg: the alias, the role granted or the page asked for.
Argument(kind) ==
    CASE kind = "alias" -> Aliases \cup {NoAlias, TooLong}
      [] kind = "grant" -> {MODERATOR, ADMIN}
      [] kind = "page"  -> Nat \ {0}
      [] OTHER          -> {NoAlias}

IsCommand(c) ==
    /\ DOMAIN c = {"kind", "actor", "target", "arg"}
    /\ c.kind \in Kinds /\ c.actor \in Users /\ c.target \in Users
    /\ c.arg \in Argument(c.kind)

ASSUME ModerationAssumption ==
    /\ Owner \in Users
    /\ RequireAlias \in BOOLEAN
    /\ NoAlias \notin Aliases /\ TooLong \notin Aliases \cup {NoAlias}
    /\ \A c \in Commands : IsCommand(c)
    /\ InitialRole \in [Users -> {USER, MODERATOR, ADMIN}]
    /\ PageSize \in Nat \ {0} /\ MaxUpdates \in Nat /\ MaxCrashes \in Nat

VARIABLES
    db,          \* the tables as the connection sees them, its open transaction included
    disk,        \* the tables a crash leaves
    line,        \* the tasks whose request waits for the thread, oldest first
    task,        \* what each task is doing
    buttons,     \* audit buttons users can press, <<user, page>>
    updates,     \* number of updates received
    crashes,     \* number of crashes
    out,         \* what the last step gave to the hub
    flips,       \* history: [Users -> an odd number of toggles has been written]
    raced,       \* history: users two of whose toggles overlapped
    interrupted  \* history: <<kind of row, user>> that a crash left without an audit row

tables == <<db, disk>>
history == <<flips, raced, interrupted>>
vars == <<tables, line, task, buttons, updates, crashes, out, history>>

Nothing == [what |-> "nothing"]
NoCommand == [kind |-> "help", actor |-> Owner, target |-> Owner, arg |-> NoAlias]

\* One update: where its handler is suspended and what it has read.  open: the SELECT has run, its
\* row is to be fetched.  rank, page and pages outlive the next read.  lived is a history: every
\* <<banned, alias>> the sender of a text has had since the text came.
Idle == [at |-> "idle", cmd |-> NoCommand, open |-> FALSE, number |-> 0, flag |-> FALSE,
         name |-> NoAlias, rank |-> USER, page |-> 0, pages |-> 0, lived |-> {}]

Reads == {"check", "rights", "target", "flag", "menu", "list", "disabled", "settings", "count", "page"}
Writes == {"write", "commit", "log", "logcommit"}

Init ==
    /\ db = [role |-> InitialRole, off |-> [u \in Users |-> FALSE],
             alias |-> [u \in Users |-> NoAlias], transliter |-> [u \in Users |-> FALSE],
             log |-> <<>>]
    /\ disk = db
    /\ line = <<>> /\ task = [t \in Tasks |-> Idle]
    /\ buttons = {} /\ updates = 0 /\ crashes = 0 /\ out = Nothing
    /\ flips = [u \in Users |-> FALSE] /\ raced = {} /\ interrupted = {}

---------------------------------------------------------------------------
(* The path of a command through its statements.                           *)

\* Mutant of CanGrant: one may grant one's own role.
CanGrantOwn(actor, role) == actor >= role

CanGrant(actor, role) == actor > role
CanRevoke(actor, role) == actor > role

\* What a handler asks of its actor, over the least role of the command.
Entitled(c, rank) ==
    CASE c.kind \in {"alias", "transliter"} -> rank >= MODERATOR
      [] c.kind = "grant"                   -> CanGrant(rank, c.arg)
      [] OTHER                              -> TRUE

\* The handler's next statement once the actor may do it.
AfterRights(c) ==
    CASE c.kind = "alias"      -> IF c.arg = TooLong THEN "idle" ELSE "write"
      [] c.kind = "transliter" -> "flag"
      [] c.kind = "grant"      -> "write"
      [] c.kind = "revoke"     -> IF c.target = Owner THEN "idle" ELSE "target"
      [] OTHER                 -> "idle"

\* The handler's first statement; get_role knows the owner without one.
AfterCheck(c) ==
    CASE c.kind \in {"ban", "unban"}   -> "write"
      [] c.kind = "banlist"            -> "list"
      [] c.kind \in {"audit", "page"}  -> "count"
      [] c.kind = "text"               -> "disabled"
      [] c.kind \in {"alias", "transliter"} /\ c.target = c.actor -> AfterRights(c)
      [] OTHER -> IF c.actor # Owner THEN "rights"
                  ELSE IF Entitled(c, OWNER) THEN AfterRights(c) ELSE "idle"

First(c) == IF c.actor # Owner /\ MinRole[c.kind] > USER THEN "check" ELSE AfterCheck(c)

\* What on_message asks of the sender of a text.
Standing(s, c) == IF c.kind = "text" THEN {<<s.off[c.actor], s.alias[c.actor]>>} ELSE {}
Lived(s, w) == IF w.at = "idle" THEN {} ELSE w.lived \cup Standing(s, w.cmd)

\* Mutant of Goto: a request that has been answered stays in front of the line.
GotoStuck(t, at) ==
    /\ task' = [task EXCEPT ![t] =
                  IF at = "idle" THEN Idle ELSE [@ EXCEPT !.at = at, !.open = FALSE, !.number = 0]]
    /\ line' = IF at = "idle" THEN line ELSE Append(Tail(line), t)

\* The thread has served task t, which submits its next request or is done.
Goto(t, at) ==
    /\ task' = [task EXCEPT ![t] =
                  IF at = "idle" THEN Idle ELSE [@ EXCEPT !.at = at, !.open = FALSE, !.number = 0]]
    /\ line' = IF at = "idle" THEN Tail(line) ELSE Append(Tail(line), t)

\* The thread is at a request that task t made at this place.
Serves(t, at) == line # <<>> /\ Head(line) = t /\ task[t].at = at

\* A fetch that leaves nothing but the task's next request behind.
Continue(t, at) ==
    /\ Goto(t, at)
    /\ out' = Nothing
    /\ UNCHANGED <<tables, buttons, updates, crashes, history>>

---------------------------------------------------------------------------
(* Updates come in.                                                        *)

\* A task starts on update c and submits its first request, if it needs one.
Begin(t, c) ==
    /\ task[t].at = "idle" /\ updates < MaxUpdates
    /\ updates' = updates + 1
    /\ IF First(c) = "idle"
       THEN UNCHANGED <<task, line>>
       ELSE /\ task' = [task EXCEPT ![t] =
                          [Idle EXCEPT !.at = First(c), !.cmd = c,
                                       !.rank = IF c.actor = Owner THEN OWNER ELSE USER,
                                       !.lived = Standing(db, c)]]
            /\ line' = Append(line, t)
    /\ out' = Nothing
    /\ UNCHANGED <<tables, buttons, crashes, history>>

Receive(t) == \E c \in Commands : Begin(t, c)

\* A button under a page of the audit log, as old as it may be.
Press(t) ==
    \E b \in buttons : Begin(t, [kind |-> "page", actor |-> b[1], target |-> b[1], arg |-> b[2]])

---------------------------------------------------------------------------
(* Reads: execute finds the row, and fetchone, one request later, has it.  *)

RankOf(u) == IF u = Owner THEN OWNER ELSE db.role[u]

\* The rows of the audit log on page p.
RowsOn(p) == {i \in DOMAIN db.log : (p - 1) * PageSize < i /\ i <= p * PageSize}

Number(w) ==
    CASE w.at \in {"check", "rights"} -> RankOf(w.cmd.actor)
      [] w.at \in {"target", "menu"}  -> RankOf(w.cmd.target)
      [] w.at = "count"               -> Len(db.log)
      [] w.at = "page"                -> Cardinality(RowsOn(w.page))
      [] OTHER                        -> 0

\* Mutant of Flag: a moderator's toggle reads the moderator's own flag.
FlagOfActor(w) == IF w.at = "disabled" THEN db.off[w.cmd.actor] ELSE db.transliter[w.cmd.actor]

Flag(w) ==
    CASE w.at = "disabled" -> db.off[w.cmd.actor]
      [] w.at = "flag"     -> db.transliter[w.cmd.target]
      [] OTHER             -> w.flag

Name(w) == IF w.at = "settings" THEN db.alias[w.cmd.actor] ELSE w.name

Select(t) ==
    /\ line # <<>> /\ Head(line) = t /\ task[t].at \in Reads /\ ~task[t].open
    /\ LET w == task[t]
       IN  task' = [task EXCEPT ![t] = [w EXCEPT !.open = TRUE, !.number = Number(w),
                                                !.flag = Flag(w), !.name = Name(w)]]
    /\ line' = Append(Tail(line), t)
    /\ out' = Nothing
    /\ UNCHANGED <<tables, buttons, updates, crashes, history>>

\* _checked, in front of the handler.
Checked(t) ==
    /\ Serves(t, "check") /\ task[t].open
    /\ LET c == task[t].cmd
       IN  Continue(t, IF task[t].number >= MinRole[c.kind] THEN AfterCheck(c) ELSE "idle")

\* The handler asks for its actor's role itself; revoke keeps it.
RightsRead(t) ==
    /\ Serves(t, "rights") /\ task[t].open
    /\ LET w == task[t]
           next == IF Entitled(w.cmd, w.number) THEN AfterRights(w.cmd) ELSE "idle"
       IN  /\ task' = [task EXCEPT ![t] =
                 IF next = "idle" THEN Idle
                 ELSE [w EXCEPT !.at = next, !.open = FALSE, !.number = 0, !.rank = w.number]]
           /\ line' = IF next = "idle" THEN Tail(line) ELSE Append(Tail(line), t)
    /\ out' = Nothing
    /\ UNCHANGED <<tables, buttons, updates, crashes, history>>

TargetRead(t) ==
    /\ Serves(t, "target") /\ task[t].open
    /\ Continue(t, IF CanRevoke(task[t].rank, task[t].number) THEN "write" ELSE "idle")

FlagRead(t) == Serves(t, "flag") /\ task[t].open /\ Continue(t, "write")

\* The list of bans is sent; the menu is drawn for the role found.
Listed(t) == (Serves(t, "list") \/ Serves(t, "menu")) /\ task[t].open /\ Continue(t, "idle")

---------------------------------------------------------------------------
(* on_message.                                                             *)

\* Mutant of DisabledRead: the ban is looked for in commands only.
DisabledUnread(t) == Serves(t, "disabled") /\ task[t].open /\ Continue(t, "settings")

\* A banned user's text ends with a reaction.
DisabledRead(t) ==
    /\ Serves(t, "disabled") /\ task[t].open
    /\ Continue(t, IF task[t].flag THEN "idle" ELSE "settings")

\* The text goes to the hub under the alias, unless an alias is required and missing.
SettingsRead(t) ==
    /\ Serves(t, "settings") /\ task[t].open
    /\ Goto(t, "idle")
    /\ out' = IF RequireAlias /\ task[t].name = NoAlias THEN Nothing
              ELSE [what |-> "message", name |-> task[t].name, lived |-> task[t].lived]
    /\ UNCHANGED <<tables, buttons, updates, crashes, history>>

---------------------------------------------------------------------------
(* The audit log, one page at a time.                                      *)

\* Mutant of PagesOf: one page too many when the last one is full.
PagesBegun(total) == total \div PageSize + 1

\* total_pages, the ceiling of total / PageSize, and at least 1.
PagesOf(total) == IF total = 0 THEN 1 ELSE (total + PageSize - 1) \div PageSize

\* A page number kept between 1 and the last page.
PageShown(p, pages) == IF p > pages THEN pages ELSE p

Counted(t) ==
    /\ Serves(t, "count") /\ task[t].open
    /\ LET pages == PagesOf(task[t].number)
           asked == IF task[t].cmd.kind = "page" THEN task[t].cmd.arg ELSE 1
       IN  task' = [task EXCEPT ![t] = [@ EXCEPT !.at = "page", !.open = FALSE, !.number = 0,
                                                !.page = PageShown(asked, pages), !.pages = pages]]
    /\ line' = Append(Tail(line), t)
    /\ out' = Nothing
    /\ UNCHANGED <<tables, buttons, updates, crashes, history>>

\* The page is shown, with buttons for the pages beside it.
PageRead(t) ==
    /\ Serves(t, "page") /\ task[t].open
    /\ Goto(t, "idle")
    /\ LET w == task[t]
       IN  buttons' = buttons \cup
             {<<w.cmd.actor, p>> : p \in {w.page - 1, w.page + 1} \cap 1..w.pages}
    /\ out' = Nothing
    /\ UNCHANGED <<tables, updates, crashes, history>>

---------------------------------------------------------------------------
(* Writes: the statement, its COMMIT, the audit row, its COMMIT.           *)

\* The statement of each command.  UPDATE ... SET disabled=0 finds no row where there is no ban.
Effect(s, w) ==
    LET c == w.cmd
    IN  CASE c.kind = "ban"        -> [s EXCEPT !.off[c.target] = TRUE]
          [] c.kind = "unban"      -> [s EXCEPT !.off[c.target] = FALSE]
          [] c.kind = "alias"      -> [s EXCEPT !.alias[c.target] = c.arg]
          [] c.kind = "transliter" -> [s EXCEPT !.transliter[c.target] = ~w.flag]
          [] c.kind = "grant"      -> [s EXCEPT !.role[c.target] = c.arg]
          [] c.kind = "revoke"     -> [s EXCEPT !.role[c.target] = USER]

\* Other toggles of the same user that have read the flag this one writes.
OverlappingToggles(t) ==
    {o \in Tasks \ {t} :
        /\ task[o].cmd.kind = "transliter" /\ task[o].cmd.target = task[t].cmd.target
        /\ task[o].at = "write" \/ (task[o].at = "flag" /\ task[o].open)}

\* Task t's statement runs; t submits its request at place next.
Written(t, next) ==
    /\ Serves(t, "write")
    /\ db' = Effect(db, task[t])
    /\ line' = Append(Tail(line), t)
    /\ task' = [o \in Tasks |-> IF o = t THEN [task[o] EXCEPT !.at = next]
                                ELSE [task[o] EXCEPT !.lived = Lived(db', task[o])]]
    /\ LET c == task[t].cmd
       IN  IF c.kind = "transliter"
           THEN /\ flips' = [flips EXCEPT ![c.target] = ~@]
                /\ raced' = IF OverlappingToggles(t) = {} THEN raced ELSE raced \cup {c.target}
           ELSE UNCHANGED <<flips, raced>>
    /\ out' = Nothing
    /\ UNCHANGED <<disk, buttons, updates, crashes, interrupted>>

\* Mutant of Write: unban leaves its COMMIT to that of the audit row.
WriteUncommitted(t) == Written(t, IF task[t].cmd.kind = "unban" THEN "log" ELSE "commit")

Write(t) == Written(t, "commit")

\* The toggle answers after its COMMIT; the other commands go on to the audit log.
Commit(t) ==
    /\ Serves(t, "commit")
    /\ disk' = db
    /\ Goto(t, IF task[t].cmd.kind = "transliter" THEN "idle" ELSE "log")
    /\ out' = Nothing
    /\ UNCHANGED <<db, buttons, updates, crashes, history>>

Log(t) ==
    /\ Serves(t, "log")
    /\ db' = [db EXCEPT !.log = Append(@, task[t].cmd)]
    /\ Goto(t, "logcommit")
    /\ out' = Nothing
    /\ UNCHANGED <<disk, buttons, updates, crashes, history>>

\* on_role_changed reads the target's role again, except for the owner.
LogCommit(t) ==
    /\ Serves(t, "logcommit")
    /\ disk' = db
    /\ LET c == task[t].cmd
       IN  Goto(t, IF c.kind \in {"grant", "revoke"} /\ c.target # Owner THEN "menu" ELSE "idle")
    /\ out' = Nothing
    /\ UNCHANGED <<db, buttons, updates, crashes, history>>

---------------------------------------------------------------------------
(* The process dies and starts again; a stop cancels the handlers likewise.*)

\* The kinds of audit rows that are about one column.
RowKinds == {{"ban", "unban"}, {"grant", "revoke"}, {"alias"}}

Crash ==
    /\ crashes < MaxCrashes
    /\ crashes' = crashes + 1
    /\ db' = disk /\ line' = <<>> /\ task' = [t \in Tasks |-> Idle]
    /\ flips' = disk.transliter /\ raced' = {}
    /\ interrupted' = interrupted \cup
         {<<task[t].cmd.kind, task[t].cmd.target>> :
             t \in {o \in Tasks : task[o].at \in {"commit", "log", "logcommit"}}}
    /\ out' = Nothing
    /\ UNCHANGED <<disk, buttons, updates>>

Handle(t) ==
    \/ Select(t) \/ Checked(t) \/ RightsRead(t) \/ TargetRead(t) \/ FlagRead(t) \/ Listed(t)
    \/ DisabledRead(t) \/ SettingsRead(t) \/ Counted(t) \/ PageRead(t)
    \/ Write(t) \/ Commit(t) \/ Log(t) \/ LogCommit(t)

Next == Crash \/ \E t \in Tasks : Receive(t) \/ Press(t) \/ Handle(t)

Spec == Init /\ [][Next]_vars

---------------------------------------------------------------------------
(* Properties.                                                             *)

Tables == [role : [Users -> {USER, MODERATOR, ADMIN}], off : [Users -> BOOLEAN],
           alias : [Users -> Aliases \cup {NoAlias}], transliter : [Users -> BOOLEAN],
           log : Seq({c \in Commands : c.kind \notin {"transliter", "text"}})]

\* A task is at work exactly while one request of it is in the line: no task starves, none is
\* served twice for one await.
TypeOK ==
    /\ {db, disk} \subseteq Tables
    /\ \A t \in Tasks : task[t].at \in {"idle"} \cup Reads \cup Writes
    /\ {line[i] : i \in DOMAIN line} = {t \in Tasks : task[t].at # "idle"}
    /\ Len(line) = Cardinality({t \in Tasks : task[t].at # "idle"})
    /\ updates \in 0..MaxUpdates /\ crashes \in 0..MaxCrashes

AtRest == \A t \in Tasks : task[t].at = "idle"

About(row, kinds, u) == row.kind \in kinds /\ row.target = u

\* What an audit row says of its target is so in the tables s.
Agrees(s, row) ==
    CASE row.kind = "ban"    -> s.off[row.target]
      [] row.kind = "unban"  -> ~s.off[row.target]
      [] row.kind = "alias"  -> s.alias[row.target] = row.arg
      [] row.kind = "grant"  -> s.role[row.target] = row.arg
      [] row.kind = "revoke" -> s.role[row.target] = USER

\* The last row of these kinds about user u, if there is one, tells what the tables have.
LogTells(s, kinds, u) ==
    \A i \in DOMAIN s.log :
        /\ About(s.log[i], kinds, u)
        /\ \A j \in DOMAIN s.log : i < j => ~About(s.log[j], kinds, u)
        => Agrees(s, s.log[i])

\* A crash came between a statement and its row.
Interrupted(kinds, u) == \E k \in kinds : <<k, u>> \in interrupted

\* The audit log, read in the order its rows were inserted, tells the state of the tables: commands
\* that interleave are logged in the order they took effect, and what has been answered is durable,
\* unless a crash came between a statement and its row.  (audit_page sorts by a time in whole
\* seconds, which does not tell the rows of one second apart.)
LogTellsTables ==
    AtRest =>
        /\ db = disk
        /\ \A kinds \in RowKinds, u \in Users : Interrupted(kinds, u) \/ LogTells(db, kinds, u)

\* Only the owner makes an admin, through any chain of grants, however the roles change while a
\* grant is under way.  (A crash may bring one back: it undoes a revoke that was not committed.)
OnlyOwnerMakesAdmins ==
    [][\A u \in Users :
         db'.role[u] = ADMIN /\ db.role[u] # ADMIN /\ crashes' = crashes =>
             task[Head(line)].cmd.kind = "grant" /\ task[Head(line)].cmd.actor = Owner]_vars

\* A text reaches the hub only if its sender was not banned at some moment since it came, and under
\* an alias the sender had then: ban and alias are read in two statements.
PublishedWasAllowed ==
    out.what = "message" =>
        /\ \E s \in out.lived : ~s[1]
        /\ \E s \in out.lived : s[2] = out.name
        /\ RequireAlias => out.name # NoAlias

\* Every toggle flips, but for two of one user that overlap (both then write the same value).
TogglesCount == \A u \in Users \ raced : db.transliter[u] = flips[u]

\* No page of the audit log is read empty while there are rows, whatever was logged since its number
\* was worked out.
PageNotBlank ==
    [][\A t \in Tasks :
         task[t].at = "page" /\ task'[t].at = "page" /\ task'[t].open # task[t].open /\ db.log # <<>> =>
             task'[t].number > 0]_vars

\* "An admin cannot revoke another admin": a role is lowered only by someone of a higher role.
LoweredByHigher ==
    [][\A u \in Users :
         db'.role[u] < db.role[u] /\ crashes' = crashes =>
             LET actor == task[Head(line)].cmd.actor
             IN  actor # u /\ RankOf(actor) > RankOf(u)]_vars
=============================================================================
