--------------------------- MODULE ModerationProofs ---------------------------
(***************************************************************************)
(* For any users, commands, numbers of handlers, updates and crashes.      *)
(*                                                                         *)
(* Only the owner makes admins, and a text that reaches the hub came from  *)
(* one who was allowed to send it: IInv says, for each handler, what the   *)
(* place it waits at and the values it has read imply.                     *)
(*                                                                         *)
(* The audit log tells the state of the tables, toggles count, and pages   *)
(* of the log are not blank: FullInv says who is in the line, and in which *)
(* order the statements that have been run will be logged.                 *)
(***************************************************************************)
EXTENDS Moderation, FiniteSetTheorems, TLAPS

Fields == {"at", "cmd", "open", "number", "flag", "name", "rank", "page", "pages", "lived"}

\* The places a handler of command c may wait at.
MayBe(c, at) ==
    /\ at = "write" => /\ c.kind \in {"ban", "unban", "alias", "transliter", "grant", "revoke"}
                       /\ c.kind = "grant" /\ c.arg = ADMIN => c.actor = Owner
    /\ at = "flag" => c.kind = "transliter"
    /\ at = "target" => c.kind = "revoke"
    /\ c.kind = "text" => at \in {"idle", "disabled", "settings"}
    /\ at \in {"disabled", "settings"} => c.kind = "text"

\* What a handler has read: an actor's rank, a sender's ban and alias.
HasRead(w) ==
    /\ w.at = "rights" /\ w.open /\ w.cmd.kind = "grant" /\ w.cmd.actor # Owner =>
         w.number \in {USER, MODERATOR, ADMIN}
    /\ w.at = "disabled" /\ w.open => \E s \in w.lived : s[1] = w.flag
    /\ w.at = "settings" => \E s \in w.lived : ~s[1]
    /\ w.at = "settings" /\ w.open => \E s \in w.lived : s[2] = w.name

Fits(s, w) ==
    /\ DOMAIN w = Fields
    /\ w.at # "idle" =>
         /\ w.cmd.kind # "page" => IsCommand(w.cmd)
         /\ MayBe(w.cmd, w.at) /\ HasRead(w) /\ Standing(s, w.cmd) \subseteq w.lived

IsTables(s) ==
    /\ DOMAIN s = {"role", "off", "alias", "transliter", "log"}
    /\ s.role \in [Users -> {USER, MODERATOR, ADMIN}]

TablesInv == IsTables(db) /\ IsTables(disk) /\ crashes \in Nat
TasksFit == DOMAIN task = Tasks /\ \A t \in Tasks : Fits(db, task[t])
IInv == TablesInv /\ TasksFit /\ PublishedWasAllowed

\* The idle task fits any tables.
LEMMA IdleFits == \A s : Fits(s, Idle)
<1> QED BY DEF Fits, Idle, Fields

LEMMA InitModeration == Init => IInv
<1> SUFFICES ASSUME Init PROVE IInv
    OBVIOUS
<1>1. TablesInv
    BY ModerationAssumption DEF Init, TablesInv, IsTables
<1>2. TasksFit
    BY IdleFits DEF Init, TasksFit
<1>3. PublishedWasAllowed
    BY DEF Init, Nothing, PublishedWasAllowed
<1> QED BY <1>1, <1>2, <1>3 DEF IInv

\* The handler of a grant of ADMIN goes on only for the owner.
LEMMA AfterRightsMayBe ==
    ASSUME NEW c, c.kind # "text",
           c.kind = "grant" /\ c.arg = ADMIN => c.actor = Owner
    PROVE  MayBe(c, AfterRights(c)) /\ AfterRights(c) \in {"idle", "write", "flag", "target"}
<1> QED BY DEF AfterRights, MayBe

LEMMA EntitledToGrant ==
    ASSUME NEW c, c.kind = "grant", c.arg = ADMIN,
           NEW rank \in {USER, MODERATOR, ADMIN}
    PROVE  ~ Entitled(c, rank)
<1> QED BY DEF Entitled, CanGrant, USER, MODERATOR, ADMIN

\* A handler just begun, or past its check, is at a place it may be at, and has read nothing yet.
LEMMA AfterCheckMayBe ==
    ASSUME NEW c, c.kind # "page" => IsCommand(c)
    PROVE  MayBe(c, AfterCheck(c)) /\ AfterCheck(c) # "settings"
<1>1. CASE c.kind \in {"ban", "unban", "banlist", "audit", "page", "text"}
    BY <1>1 DEF AfterCheck, MayBe
<1>2. CASE c.kind \in {"alias", "transliter"} /\ c.target = c.actor
    BY <1>2, AfterRightsMayBe DEF AfterCheck
<1>3. CASE /\ c.kind \notin {"ban", "unban", "banlist", "audit", "page", "text"}
           /\ ~(c.kind \in {"alias", "transliter"} /\ c.target = c.actor)
  <2>1. AfterCheck(c) = IF c.actor # Owner THEN "rights"
                        ELSE IF Entitled(c, OWNER) THEN AfterRights(c) ELSE "idle"
    BY <1>3 DEF AfterCheck
  <2>2. c.actor = Owner => MayBe(c, AfterRights(c)) /\ AfterRights(c) # "settings"
    BY <1>3, AfterRightsMayBe
  <2>3. c.kind # "text" => MayBe(c, "rights") /\ MayBe(c, "idle")
    BY DEF MayBe
  <2> QED BY <1>3, <2>1, <2>2, <2>3
<1> QED BY <1>1, <1>2, <1>3

LEMMA FirstMayBe ==
    ASSUME NEW c, c.kind # "page" => IsCommand(c)
    PROVE  MayBe(c, First(c)) /\ First(c) # "settings"
<1>1. CASE First(c) = "check"
  <2>1. c.kind # "text" \/ AfterCheck(c) = "check"
    BY <1>1 DEF First, MinRole, USER
  <2> QED BY <1>1, <2>1, AfterCheckMayBe DEF MayBe
<1>2. CASE First(c) = AfterCheck(c)
    BY <1>2, AfterCheckMayBe
<1> QED BY <1>1, <1>2 DEF First

\* A step of task t that leaves the other tasks and the senders' standing alone.
LEMMA StepOfOne ==
    ASSUME IInv, NEW t \in Tasks, NEW w, task' = [task EXCEPT ![t] = w], Fits(db, w),
           db'.off = db.off, db'.alias = db.alias
    PROVE  TasksFit'
<1>1. \A x : Fits(db, x) => Fits(db', x)
    BY DEF Fits, Standing
<1> QED BY <1>1 DEF IInv, TasksFit

\* A handler that goes on to its next request.
LEMMA GotoFits ==
    ASSUME IInv, NEW t \in Tasks, NEW at, Goto(t, at), task[t].at # "idle",
           MayBe(task[t].cmd, at), at = "settings" => \E s \in task[t].lived : ~s[1],
           db'.off = db.off, db'.alias = db.alias
    PROVE  TasksFit'
<1> DEFINE next == [task[t] EXCEPT !.at = at, !.open = FALSE, !.number = 0]
           w == IF at = "idle" THEN Idle ELSE next
<1>1. task' = [task EXCEPT ![t] = w]
    BY DEF Goto
<1>2. Fits(db, task[t])
    BY DEF IInv, TasksFit
<1>3. /\ DOMAIN next = Fields /\ next.at = at /\ next.cmd = task[t].cmd /\ next.open = FALSE
      /\ next.lived = task[t].lived
    BY <1>2 DEF Fits, Fields
<1> HIDE DEF next
<1>4. Fits(db, next)
    BY <1>2, <1>3 DEF Fits, HasRead
<1>5. Fits(db, w)
    BY <1>4, IdleFits
<1> HIDE DEF w
<1> QED BY <1>1, <1>5, StepOfOne

\* The statement of a command keeps the types of the tables.
LEMMA EffectTables ==
    ASSUME NEW s, IsTables(s), NEW w, IsCommand(w.cmd),
           w.cmd.kind \in {"ban", "unban", "alias", "transliter", "grant", "revoke"}
    PROVE  IsTables(Effect(s, w))
<1> DEFINE c == w.cmd
<1>1. c.target \in Users /\ (c.kind = "grant" => c.arg \in {MODERATOR, ADMIN})
    BY DEF IsCommand, Argument
<1>2. CASE c.kind = "ban"
    BY <1>2 DEF Effect, IsTables
<1>3. CASE c.kind = "unban"
    BY <1>3 DEF Effect, IsTables
<1>4. CASE c.kind = "alias"
    BY <1>4 DEF Effect, IsTables
<1>5. CASE c.kind = "transliter"
    BY <1>5 DEF Effect, IsTables
<1>6. CASE c.kind = "grant"
    BY <1>1, <1>6 DEF Effect, IsTables
<1>7. CASE c.kind = "revoke"
    BY <1>1, <1>7 DEF Effect, IsTables
<1> QED BY <1>2, <1>3, <1>4, <1>5, <1>6, <1>7

\* What a writing task is about.
LEMMA Writer ==
    ASSUME IInv, NEW t \in Tasks, Serves(t, "write")
    PROVE  /\ IsCommand(task[t].cmd)
           /\ task[t].cmd.kind \in {"ban", "unban", "alias", "transliter", "grant", "revoke"}
           /\ task[t].cmd.kind = "grant" /\ task[t].cmd.arg = ADMIN => task[t].cmd.actor = Owner
<1>1. Fits(db, task[t]) /\ task[t].at = "write"
    BY DEF IInv, TasksFit, Serves
<1> QED BY <1>1 DEF Fits, MayBe

LEMMA NextTables == IInv /\ [Next]_vars => TablesInv'
<1> SUFFICES ASSUME IInv, [Next]_vars PROVE TablesInv'
    OBVIOUS
<1> USE DEF TablesInv
<1>0. TablesInv
    BY DEF IInv
<1>1. CASE UNCHANGED <<tables, crashes>>
    BY <1>0, <1>1 DEF tables
<1>2. ASSUME NEW t \in Tasks, Write(t) PROVE TablesInv'
  <2>1. db' = Effect(db, task[t]) /\ disk' = disk /\ crashes' = crashes /\ Serves(t, "write")
    BY <1>2, Zenon DEF Write, Written
  <2> QED BY <1>0, <2>1, EffectTables, Writer
<1>3. ASSUME NEW t \in Tasks, Commit(t) PROVE TablesInv'
  <2>1. disk' = db /\ db' = db /\ crashes' = crashes
    BY <1>3, Zenon DEF Commit
  <2> QED BY <1>0, <2>1
<1>4. ASSUME NEW t \in Tasks, LogCommit(t) PROVE TablesInv'
  <2>1. disk' = db /\ db' = db /\ crashes' = crashes
    BY <1>4, Zenon DEF LogCommit
  <2> QED BY <1>0, <2>1
<1>5. ASSUME NEW t \in Tasks, Log(t) PROVE TablesInv'
    BY <1>0, <1>5 DEF Log, IsTables, history
<1>6. CASE Crash
  <2>1. db' = disk /\ disk' = disk /\ crashes' = crashes + 1
    BY <1>6, Zenon DEF Crash
  <2> QED BY <1>0, <2>1
<1> QED
    BY <1>1, <1>2, <1>3, <1>4, <1>5, <1>6, Zenon
    DEF Next, vars, tables, Receive, Press, Begin, Handle, Select, Checked, RightsRead, TargetRead,
        FlagRead, Listed, DisabledRead, SettingsRead, Counted, PageRead, Continue

\* A handler begins.
LEMMA BeginFits ==
    ASSUME IInv, NEW t \in Tasks, NEW c, c.kind # "page" => IsCommand(c), Begin(t, c)
    PROVE  TasksFit'
<1>1. CASE First(c) = "idle"
  <2>1. task' = task /\ db' = db
    BY <1>1, Zenon DEF Begin, tables
  <2> QED BY <2>1 DEF IInv, TasksFit
<1>2. CASE First(c) # "idle"
  <2> DEFINE w == [Idle EXCEPT !.at = First(c), !.cmd = c,
                               !.rank = IF c.actor = Owner THEN OWNER ELSE USER,
                               !.lived = Standing(db, c)]
  <2>1. task' = [task EXCEPT ![t] = w] /\ db' = db
    BY <1>2, Zenon DEF Begin, tables
  <2>2. /\ DOMAIN w = Fields /\ w.at = First(c) /\ w.cmd = c /\ w.open = FALSE
        /\ w.lived = Standing(db, c)
    BY DEF Idle, Fields
  <2> HIDE DEF w
  <2>3. Fits(db, w)
    BY <2>2, FirstMayBe DEF Fits, HasRead
  <2> QED BY <2>1, <2>3, StepOfOne
<1> QED BY <1>1, <1>2

\* A SELECT finds the row of its place.
LEMMA SelectFits ==
    ASSUME IInv, NEW t \in Tasks, Select(t)
    PROVE  TasksFit'
<1> DEFINE u == task[t]
           w == [u EXCEPT !.open = TRUE, !.number = Number(u), !.flag = Flag(u), !.name = Name(u)]
<1>1. task' = [task EXCEPT ![t] = w] /\ db' = db /\ u.at # "idle"
    BY DEF Select, tables, Reads
<1>2. Fits(db, u)
    BY DEF IInv, TasksFit
<1>3. /\ DOMAIN w = Fields /\ w.at = u.at /\ w.cmd = u.cmd /\ w.lived = u.lived
      /\ w.number = Number(u) /\ w.flag = Flag(u) /\ w.name = Name(u)
    BY <1>2 DEF Fits, Fields
<1> HIDE DEF w
<1>4. u.at = "rights" /\ u.cmd.kind = "grant" /\ u.cmd.actor # Owner =>
        Number(u) \in {USER, MODERATOR, ADMIN}
  <2> SUFFICES ASSUME u.at = "rights", u.cmd.kind = "grant", u.cmd.actor # Owner
               PROVE  Number(u) \in {USER, MODERATOR, ADMIN}
    OBVIOUS
  <2>1. u.cmd.actor \in Users
    BY <1>2 DEF Fits, IsCommand
  <2>2. Number(u) = db.role[u.cmd.actor]
    BY DEF Number, RankOf
  <2> QED BY <2>1, <2>2 DEF IInv, TablesInv, IsTables
<1>5. u.at \in {"disabled", "settings"} => <<db.off[u.cmd.actor], db.alias[u.cmd.actor]>> \in u.lived
    BY <1>2 DEF Fits, MayBe, Standing
<1>6. /\ u.at = "disabled" => \E s \in u.lived : s[1] = Flag(u)
      /\ u.at = "settings" => \E s \in u.lived : s[2] = Name(u)
    BY <1>5 DEF Flag, Name
<1>7. HasRead(w)
    BY <1>1, <1>2, <1>3, <1>4, <1>6 DEF Fits, HasRead
<1>8. Fits(db, w)
    BY <1>1, <1>2, <1>3, <1>7 DEF Fits
<1> QED BY <1>1, <1>8, StepOfOne

\* The other handlers see what a statement does to the senders of their texts.
LEMMA WriteFits ==
    ASSUME IInv, NEW t \in Tasks, Write(t)
    PROVE  TasksFit'
<1> DEFINE w == [task[t] EXCEPT !.at = "commit"]
           kept(o) == [task[o] EXCEPT !.lived = Lived(db', task[o])]
<1>1. Serves(t, "write") /\ task' = [o \in Tasks |-> IF o = t THEN w ELSE kept(o)]
    BY Zenon DEF Write, Written
<1>2. \A o \in Tasks : Fits(db, task[o])
    BY DEF IInv, TasksFit
<1>3. Fits(db', w)
  <2>1. DOMAIN w = Fields /\ w.at = "commit" /\ w.cmd = task[t].cmd
    BY <1>2 DEF Fits, Fields
  <2>2. task[t].at = "write" /\ Fits(db, task[t])
    BY <1>1, <1>2 DEF Serves
  <2>3. task[t].cmd.kind \in {"ban", "unban", "alias", "transliter", "grant", "revoke"}
    BY <2>2 DEF Fits, MayBe
  <2> HIDE DEF w
  <2> QED BY <2>1, <2>2, <2>3 DEF Fits, MayBe, HasRead, Standing
<1>4. ASSUME NEW o \in Tasks PROVE Fits(db', kept(o))
  <2>1. /\ DOMAIN kept(o) = Fields /\ kept(o).at = task[o].at /\ kept(o).cmd = task[o].cmd
        /\ kept(o).open = task[o].open /\ kept(o).number = task[o].number
        /\ kept(o).flag = task[o].flag /\ kept(o).name = task[o].name
        /\ kept(o).lived = Lived(db', task[o])
    BY <1>2 DEF Fits, Fields
  <2> HIDE DEF kept
  <2>2. task[o].at # "idle" =>
          Lived(db', task[o]) = task[o].lived \cup Standing(db', task[o].cmd)
    BY DEF Lived
  <2> QED BY <1>2, <2>1, <2>2 DEF Fits, HasRead
<1> HIDE DEF w, kept
<1> QED BY <1>1, <1>3, <1>4 DEF TasksFit

LEMMA NextTasks == IInv /\ [Next]_vars => TasksFit'
<1> SUFFICES ASSUME IInv, [Next]_vars PROVE TasksFit'
    OBVIOUS
<1>1. \A t \in Tasks : Fits(db, task[t])
    BY DEF IInv, TasksFit
<1>2. ASSUME NEW t \in Tasks, Receive(t) PROVE TasksFit'
    BY <1>2, ModerationAssumption, BeginFits DEF Receive
<1>3. ASSUME NEW t \in Tasks, Press(t) PROVE TasksFit'
    BY <1>3, BeginFits DEF Press
<1>4. ASSUME NEW t \in Tasks, Select(t) PROVE TasksFit'
    BY <1>4, SelectFits
<1>5. ASSUME NEW t \in Tasks, Checked(t) PROVE TasksFit'
  <2> DEFINE at == IF task[t].number >= MinRole[task[t].cmd.kind] THEN AfterCheck(task[t].cmd) ELSE "idle"
  <2>1. /\ task[t].at = "check" /\ Goto(t, at) /\ db' = db
    BY <1>5, Zenon DEF Checked, Serves, Continue, tables
  <2>2. MayBe(task[t].cmd, "check") /\ (task[t].cmd.kind # "page" => IsCommand(task[t].cmd))
    BY <1>1, <2>1 DEF Fits
  <2>3. MayBe(task[t].cmd, at) /\ at # "settings"
    BY <2>2, AfterCheckMayBe DEF MayBe
  <2> HIDE DEF at
  <2> QED BY <2>1, <2>3, GotoFits
<1>6. ASSUME NEW t \in Tasks, RightsRead(t) PROVE TasksFit'
  <2> DEFINE u == task[t]
             next == IF Entitled(u.cmd, u.number) THEN AfterRights(u.cmd) ELSE "idle"
             w == [u EXCEPT !.at = next, !.open = FALSE, !.number = 0, !.rank = u.number]
  <2>1. /\ u.at = "rights" /\ u.open /\ db' = db
        /\ task' = [task EXCEPT ![t] = IF next = "idle" THEN Idle ELSE w]
    BY <1>6, Zenon DEF RightsRead, Serves, tables
  <2>2. Fits(db, u)
    BY <1>1
  <2>3. u.cmd.kind # "text"
    BY <2>1, <2>2 DEF Fits, MayBe
  <2>4. u.cmd.kind = "grant" /\ u.cmd.arg = ADMIN /\ u.cmd.actor # Owner =>
          ~ Entitled(u.cmd, u.number)
    BY <2>1, <2>2, EntitledToGrant DEF Fits, HasRead
  <2>5. next # "idle" => MayBe(u.cmd, next) /\ next \in {"write", "flag", "target"}
    BY <2>3, <2>4, AfterRightsMayBe
  <2>6. /\ DOMAIN w = Fields /\ w.at = next /\ w.cmd = u.cmd /\ w.lived = u.lived /\ w.open = FALSE
    BY <2>2 DEF Fits, Fields
  <2> HIDE DEF next, w
  <2>7. next # "idle" => Fits(db, w)
    BY <2>1, <2>2, <2>5, <2>6 DEF Fits, HasRead
  <2>8. Fits(db, IF next = "idle" THEN Idle ELSE w)
    BY <2>7, IdleFits
  <2> QED BY <2>1, <2>8, StepOfOne
<1>7. ASSUME NEW t \in Tasks, TargetRead(t) PROVE TasksFit'
  <2> DEFINE at == IF CanRevoke(task[t].rank, task[t].number) THEN "write" ELSE "idle"
  <2>1. task[t].at = "target" /\ Goto(t, at) /\ db' = db
    BY <1>7, Zenon DEF TargetRead, Serves, Continue, tables
  <2>2. MayBe(task[t].cmd, at) /\ at # "settings"
    BY <1>1, <2>1 DEF Fits, MayBe
  <2> HIDE DEF at
  <2> QED BY <2>1, <2>2, GotoFits
<1>8. ASSUME NEW t \in Tasks, FlagRead(t) PROVE TasksFit'
  <2>1. task[t].at = "flag" /\ Goto(t, "write") /\ db' = db
    BY <1>8, Zenon DEF FlagRead, Serves, Continue, tables
  <2>2. MayBe(task[t].cmd, "write")
    BY <1>1, <2>1 DEF Fits, MayBe
  <2> QED BY <2>1, <2>2, GotoFits
<1>9. ASSUME NEW t \in Tasks, Listed(t) PROVE TasksFit'
  <2>1. task[t].at \in {"list", "menu"} /\ Goto(t, "idle") /\ db' = db
    BY <1>9 DEF Listed, Serves, Continue, tables
  <2> QED BY <2>1, GotoFits DEF MayBe
<1>10. ASSUME NEW t \in Tasks, DisabledRead(t) PROVE TasksFit'
  <2> DEFINE at == IF task[t].flag THEN "idle" ELSE "settings"
  <2>1. task[t].at = "disabled" /\ task[t].open /\ Goto(t, at) /\ db' = db
    BY <1>10, Zenon DEF DisabledRead, Serves, Continue, tables
  <2>2. MayBe(task[t].cmd, at)
    BY <1>1, <2>1 DEF Fits, MayBe
  <2>3. at = "settings" => \E s \in task[t].lived : ~s[1]
    BY <1>1, <2>1 DEF Fits, HasRead
  <2> HIDE DEF at
  <2> QED BY <2>1, <2>2, <2>3, GotoFits
<1>11. ASSUME NEW t \in Tasks, SettingsRead(t) \/ PageRead(t) PROVE TasksFit'
  <2>1. task[t].at \in {"settings", "page"} /\ Goto(t, "idle") /\ db' = db
    BY <1>11 DEF SettingsRead, PageRead, Serves, tables
  <2> QED BY <2>1, GotoFits DEF MayBe
<1>12. ASSUME NEW t \in Tasks, Counted(t) PROVE TasksFit'
  <2> DEFINE u == task[t]
             pages == PagesOf(u.number)
             asked == IF u.cmd.kind = "page" THEN u.cmd.arg ELSE 1
             w == [u EXCEPT !.at = "page", !.open = FALSE, !.number = 0,
                            !.page = PageShown(asked, pages), !.pages = pages]
  <2>1. u.at = "count" /\ task' = [task EXCEPT ![t] = w] /\ db' = db
    BY <1>12, Zenon DEF Counted, Serves, tables
  <2>2. Fits(db, u)
    BY <1>1
  <2>3. DOMAIN w = Fields /\ w.at = "page" /\ w.cmd = u.cmd /\ w.lived = u.lived
    BY <2>2 DEF Fits, Fields
  <2> HIDE DEF w
  <2>4. Fits(db, w)
    BY <2>1, <2>2, <2>3 DEF Fits, MayBe, HasRead
  <2> QED BY <2>1, <2>4, StepOfOne
<1>13. ASSUME NEW t \in Tasks, Write(t) PROVE TasksFit'
    BY <1>13, WriteFits
<1>14. ASSUME NEW t \in Tasks, Commit(t) \/ Log(t) \/ LogCommit(t) PROVE TasksFit'
  <2>1. PICK at \in {"idle", "log", "logcommit", "menu"} :
          Goto(t, at) /\ task[t].at \in {"commit", "log", "logcommit"}
    BY <1>14 DEF Commit, Log, LogCommit, Serves
  <2>2. db'.off = db.off /\ db'.alias = db.alias
    BY <1>14 DEF Commit, Log, LogCommit, IInv, TablesInv, IsTables
  <2>3. MayBe(task[t].cmd, at)
    BY <1>1, <2>1 DEF Fits, MayBe
  <2> QED BY <2>1, <2>2, <2>3, GotoFits
<1>15. CASE Crash
  <2>1. task' = [t \in Tasks |-> Idle]
    BY <1>15, Zenon DEF Crash
  <2> QED BY <2>1, IdleFits DEF TasksFit
<1>16. CASE UNCHANGED vars
  <2>1. task' = task /\ db' = db
    BY <1>16 DEF vars, tables
  <2> QED BY <2>1 DEF IInv, TasksFit
<1> QED
    BY <1>2, <1>3, <1>4, <1>5, <1>6, <1>7, <1>8, <1>9, <1>10, <1>11, <1>12, <1>13, <1>14, <1>15,
       <1>16, Zenon DEF Next, Handle

\* What a step gives to the hub has been allowed.
LEMMA NextPublished == IInv /\ [Next]_vars => PublishedWasAllowed'
<1> SUFFICES ASSUME IInv, [Next]_vars PROVE PublishedWasAllowed'
    OBVIOUS
<1>1. CASE out' = Nothing
    BY <1>1 DEF Nothing, PublishedWasAllowed
<1>2. CASE UNCHANGED vars
    BY <1>2 DEF vars, IInv, PublishedWasAllowed
<1>3. ASSUME NEW t \in Tasks, SettingsRead(t) PROVE PublishedWasAllowed'
  <2>1. /\ task[t].at = "settings" /\ task[t].open
        /\ out' = IF RequireAlias /\ task[t].name = NoAlias THEN Nothing
                  ELSE [what |-> "message", name |-> task[t].name, lived |-> task[t].lived]
    BY <1>3, Zenon DEF SettingsRead, Serves
  <2>2. /\ \E s \in task[t].lived : ~s[1]
        /\ \E s \in task[t].lived : s[2] = task[t].name
    BY <2>1 DEF IInv, TasksFit, Fits, HasRead
  <2>3. CASE RequireAlias /\ task[t].name = NoAlias
    BY <1>1, <2>1, <2>3
  <2>4. CASE ~(RequireAlias /\ task[t].name = NoAlias)
    <3>1. out'.name = task[t].name /\ out'.lived = task[t].lived
      BY <2>1, <2>4
    <3> QED BY <2>2, <2>4, <3>1 DEF PublishedWasAllowed
  <2> QED BY <2>3, <2>4
<1> QED
    BY <1>1, <1>2, <1>3, ZenonT(60)
    DEF Next, Receive, Press, Begin, Handle, Select, Checked, RightsRead, TargetRead, FlagRead,
        Listed, DisabledRead, Counted, PageRead, Write, Written, Commit, Log, LogCommit, Crash, Continue

LEMMA ModerationInvariant == Spec => []IInv
<1>1. IInv /\ [Next]_vars => IInv'
    BY NextTables, NextTasks, NextPublished, Zenon DEF IInv
<1> QED BY <1>1, InitModeration, PTL DEF Spec

\* A text reaches the hub only if its sender was not banned at some moment since it came, and under
\* an alias the sender had then.
THEOREM ModerationPublished == Spec => []PublishedWasAllowed
<1>1. IInv => PublishedWasAllowed
    BY DEF IInv
<1> QED BY <1>1, ModerationInvariant, PTL

\* A role changes with the statement of the task in front of the line, or with a crash.
LEMMA RoleStep ==
    ASSUME IInv, [Next]_vars, crashes' = crashes
    PROVE  \/ db'.role = db.role
           \/ \E t \in Tasks : Serves(t, "write") /\ db' = Effect(db, task[t])
<1>1. ASSUME NEW t \in Tasks, Write(t)
      PROVE  Serves(t, "write") /\ db' = Effect(db, task[t])
    BY <1>1, Zenon DEF Write, Written
<1>2. ASSUME NEW t \in Tasks, Log(t) PROVE db'.role = db.role
    BY <1>2 DEF Log, IInv, TablesInv, IsTables
<1>3. ~ Crash
    BY DEF Crash, IInv, TablesInv
<1>4. CASE UNCHANGED tables
    BY <1>4 DEF tables
<1>5. ASSUME NEW t \in Tasks, Commit(t) \/ LogCommit(t) PROVE db' = db
    BY <1>5, Zenon DEF Commit, LogCommit
<1> QED
    BY <1>1, <1>2, <1>3, <1>4, <1>5, ZenonT(60)
    DEF Next, vars, tables, Receive, Press, Begin, Handle, Select, Checked, RightsRead, TargetRead,
        FlagRead, Listed, DisabledRead, SettingsRead, Counted, PageRead, Continue

\* Only the owner makes an admin, through any chain of grants.
THEOREM ModerationAdmins == Spec => OnlyOwnerMakesAdmins
<1>1. IInv /\ [Next]_vars =>
        [\A u \in Users :
           db'.role[u] = ADMIN /\ db.role[u] # ADMIN /\ crashes' = crashes =>
             task[Head(line)].cmd.kind = "grant" /\ task[Head(line)].cmd.actor = Owner]_vars
  <2> SUFFICES ASSUME IInv, [Next]_vars, NEW u \in Users,
                      db'.role[u] = ADMIN, db.role[u] # ADMIN, crashes' = crashes
               PROVE  task[Head(line)].cmd.kind = "grant" /\ task[Head(line)].cmd.actor = Owner
      OBVIOUS
  <2>1. PICK t \in Tasks : Serves(t, "write") /\ db' = Effect(db, task[t])
      BY RoleStep
  <2>2. Head(line) = t
      BY <2>1 DEF Serves
  <2> DEFINE c == task[t].cmd
  <2>3. /\ IsCommand(c) /\ c.kind \in {"ban", "unban", "alias", "transliter", "grant", "revoke"}
        /\ c.kind = "grant" /\ c.arg = ADMIN => c.actor = Owner
      BY <2>1, Writer
  <2>4. c.kind = "grant" /\ c.arg = ADMIN
    <3>0. DOMAIN db = {"role", "off", "alias", "transliter", "log"} /\ db.role \in [Users -> {USER, MODERATOR, ADMIN}]
        BY DEF IInv, TablesInv, IsTables
    <3>1. CASE c.kind \in {"ban", "unban", "alias", "transliter"}
        BY <2>1, <3>0, <3>1 DEF Effect
    <3>2. CASE c.kind = "revoke"
        BY <2>1, <3>0, <3>2 DEF Effect, USER, ADMIN
    <3>3. CASE c.kind = "grant"
        BY <2>1, <3>0, <3>3 DEF Effect
    <3> QED BY <2>3, <3>1, <3>2, <3>3
  <2> QED BY <2>2, <2>3, <2>4
<1> QED BY <1>1, ModerationInvariant, PTL DEF Spec, OnlyOwnerMakesAdmins
---------------------------------------------------------------------------
(* The line, the toggles and the audit log.                                *)

Busy == {t \in Tasks : task[t].at # "idle"}

Distinct(queue) == \A i, j \in DOMAIN queue : queue[i] = queue[j] => i = j
Members(queue) == {queue[i] : i \in DOMAIN queue}

\* Every task at work has one request in the line, and no other has.
LineInv ==
    /\ line \in Seq(Tasks)
    /\ Distinct(line) /\ Members(line) = Busy
    /\ IsFiniteSet(Busy) /\ Len(line) = Cardinality(Busy)

Changing == {"ban", "unban", "alias", "transliter", "grant", "revoke"}

\* The commands there are at each place.
Proper(w) ==
    /\ w.at \in {"idle"} \cup Reads \cup Writes
    /\ w.at # "idle" => IF w.cmd.kind = "page" THEN w.cmd.arg \in Nat \ {0} ELSE w.cmd \in Commands
    /\ w.at \in Writes => w.cmd.kind \in Changing /\ ~(w.cmd.kind = "alias" /\ w.cmd.arg = TooLong)
    /\ w.at \in {"log", "logcommit"} => w.cmd.kind # "transliter"

\* The rows counted are still there, and the page worked out from them begins with one of them, if
\* there were any.
Paged(s, w) ==
    /\ w.at = "count" /\ w.open => w.number \in 0..Len(s.log)
    /\ w.at = "page" => /\ w.page \in Nat \ {0}
                        /\ w.page = 1 \/ (w.page - 1) * PageSize < Len(s.log)

\* A toggle that has read the flag of user u and not yet written it.
HoldsFlag(w, u) ==
    /\ w.cmd.kind = "transliter" /\ w.cmd.target = u
    /\ w.at = "write" \/ (w.at = "flag" /\ w.open)

\* What such a toggle has read is still so, unless another one overlapped.
FlagInv ==
    \A u \in Users \ raced :
        /\ db.transliter[u] = flips[u]
        /\ \A t \in Tasks : HoldsFlag(task[t], u) => task[t].flag = db.transliter[u]

\* Tasks whose statement about user u has run, and whose audit row has not been written, or has not
\* been committed.
Unlogged(kinds, u) == {t \in Tasks : task[t].at \in {"commit", "log"} /\ About(task[t].cmd, kinds, u)}
Unsettled(kinds, u) == {t \in Tasks : task[t].at \in Writes \ {"write"} /\ About(task[t].cmd, kinds, u)}

\* Task t has its request before that of task o.
Before(queue, t, o) == \E i, j \in DOMAIN queue : i < j /\ queue[i] = t /\ queue[j] = o

\* Of two tasks without an audit row, the one that will write its row first.
Ahead(queue, t, o, w, v) ==
    \/ w.at = "log" /\ v.at = "commit"
    \/ w.at = v.at /\ Before(queue, t, o)

\* The last of the unlogged statements is what the tables have; if there is none, the log tells.
LogInv(kinds, u) ==
    /\ Unlogged(kinds, u) = {} => LogTells(db, kinds, u)
    /\ \A t \in Unlogged(kinds, u) :
         (\A o \in Unlogged(kinds, u) : o = t \/ Ahead(line, o, t, task[o], task[t])) =>
             Agrees(db, task[t].cmd)

\* What a crash would leave: the log tells it, or a command is cut short.
DiskInv(kinds, u) == Unsettled(kinds, u) = {} => LogTells(disk, kinds, u)

ToldInv ==
    \A kinds \in RowKinds, u \in Users :
        Interrupted(kinds, u) \/ (LogInv(kinds, u) /\ DiskInv(kinds, u))

\* What is not durable yet is going to be committed.
Durable == db = disk \/ \E t \in Tasks : task[t].at \in {"commit", "logcommit"}

TypesInv ==
    /\ {db, disk} \subseteq Tables /\ flips \in [Users -> BOOLEAN]
    /\ \A t \in Tasks : Proper(task[t])
    /\ \A b \in buttons : b[2] \in Nat \ {0}
    /\ updates \in 0..MaxUpdates /\ crashes \in 0..MaxCrashes

PagesInv == \A t \in Tasks : Paged(db, task[t])

FullInv == TypesInv /\ LineInv /\ PagesInv /\ FlagInv /\ ToldInv /\ Durable
---------------------------------------------------------------------------
(* Pages of the audit log.                                                 *)

LEMMA SomePage ==
    ASSUME NEW n \in Nat, n > 0
    PROVE  PagesOf(n) \in Nat /\ PagesOf(n) > 0
<1> DEFINE m == n + PageSize - 1
           k == m \div PageSize
<1>1. PageSize \in Nat /\ PageSize > 0 /\ m \in Nat /\ m >= PageSize
    BY ModerationAssumption
<1>2. PagesOf(n) = k
    BY DEF PagesOf
<1> HIDE DEF m
<1>3. k \in Int /\ m < k * PageSize + PageSize
    BY <1>1
<1> HIDE DEF k
<1>4. k > 0
  <2> SUFFICES ASSUME k <= 0 PROVE FALSE
    BY <1>3
  <2>1. k * PageSize <= 0
    BY <1>1, <1>3
  <2> QED BY <1>1, <1>3, <2>1
<1> QED BY <1>2, <1>3, <1>4

\* There is a row on every page up to the last one.
LEMMA LastPage ==
    ASSUME NEW n \in Nat, n > 0, NEW p \in Nat \ {0}, p <= PagesOf(n)
    PROVE  (p - 1) * PageSize < n
<1> DEFINE k == (n + PageSize - 1) \div PageSize
<1>1. PageSize \in Nat /\ PageSize > 0 /\ n + PageSize - 1 \in Nat
    BY ModerationAssumption
<1>2. k \in Int /\ k * PageSize <= n + PageSize - 1
    BY <1>1
<1>3. p <= k
    BY DEF PagesOf
<1> HIDE DEF k
<1>4. (p - 1) * PageSize <= (k - 1) * PageSize
    BY <1>1, <1>2, <1>3
<1>5. (k - 1) * PageSize = k * PageSize - PageSize
    BY <1>1, <1>2
<1> QED BY <1>1, <1>2, <1>4, <1>5

\* The rows of a page that begins with a row.
LEMMA RowsThere ==
    ASSUME db.log \in Seq(Commands), NEW p \in Nat \ {0}, (p - 1) * PageSize < Len(db.log)
    PROVE  Cardinality(RowsOn(p)) \in Nat \ {0}
<1> DEFINE i == (p - 1) * PageSize + 1
<1>1. PageSize \in Nat /\ PageSize > 0 /\ Len(db.log) \in Nat /\ DOMAIN db.log = 1..Len(db.log)
    BY ModerationAssumption
<1>2. (p - 1) * PageSize \in Nat /\ p * PageSize = (p - 1) * PageSize + PageSize
    BY <1>1
<1>3. i \in RowsOn(p)
    BY <1>1, <1>2 DEF RowsOn
<1>4. RowsOn(p) \subseteq 1..Len(db.log) /\ IsFiniteSet(1..Len(db.log))
    BY <1>1, FS_Interval DEF RowsOn
<1>5. IsFiniteSet(RowsOn(p)) /\ Cardinality(RowsOn(p)) \in Nat
    BY <1>4, FS_Subset, FS_CardinalityType
<1> QED BY <1>3, <1>5, FS_EmptySet

---------------------------------------------------------------------------
(* The line.                                                               *)

\* What the first task leaves of a line, and what it leaves behind itself.
LEMMA Rotation ==
    ASSUME NEW S, NEW q \in Seq(S), q # <<>>, Distinct(q),
           NEW r, r = Tail(q) \/ r = Append(Tail(q), Head(q))
    PROVE  /\ r \in Seq(S) /\ Distinct(r) /\ Head(q) \in S
           /\ r = Tail(q) => Len(r) = Len(q) - 1 /\ Members(r) = Members(q) \ {Head(q)}
           /\ r # Tail(q) => Len(r) = Len(q) /\ Members(r) = Members(q)
           /\ \A t, o : t # Head(q) /\ o # Head(q) /\ Before(r, t, o) => Before(q, t, o)
           /\ \A o : ~Before(r, Head(q), o)
           /\ \A o \in Members(q) : o # Head(q) => Before(q, Head(q), o)
<1> DEFINE n == Len(q)
<1>1. n = Len(q) /\ n \in Nat \ {0} /\ DOMAIN q = 1..n /\ Head(q) = q[1]
    OBVIOUS
<1> HIDE DEF n
<1>2. Tail(q) \in Seq(S) /\ Len(Tail(q)) = n - 1 /\ \A i \in 1..(n - 1) : Tail(q)[i] = q[i + 1]
    BY <1>1
<1>3. r \in Seq(S) /\ Head(q) \in S
    BY <1>1, <1>2, SMTT(60)
<1>4. \A o \in Members(q) : o # Head(q) => Before(q, Head(q), o)
    BY <1>1 DEF Before, Members
<1>0. \A i, j \in DOMAIN q : q[i] = q[j] => i = j
    BY DEF Distinct
<1>5. CASE r = Tail(q)
  <2>1. DOMAIN r = 1..(n - 1) /\ \A i \in 1..(n - 1) : r[i] = q[i + 1]
    BY <1>2, <1>5
  <2>2. \A i \in DOMAIN r : r[i] # Head(q)
    BY <1>0, <1>1, <2>1
  <2>3. Distinct(r)
    <3> SUFFICES ASSUME NEW i \in DOMAIN r, NEW j \in DOMAIN r, r[i] = r[j] PROVE i = j
      BY DEF Distinct
    <3>1. i + 1 \in DOMAIN q /\ j + 1 \in DOMAIN q /\ i \in Nat /\ j \in Nat
      BY <1>1, <2>1
    <3>2. q[i + 1] = q[j + 1]
      BY <2>1
    <3>3. i + 1 = j + 1
      BY <1>0, <3>1, <3>2
    <3> QED BY <3>1, <3>3
  <2>4. Members(r) = Members(q) \ {Head(q)}
    <3>1. ASSUME NEW i \in DOMAIN q, q[i] # Head(q) PROVE i - 1 \in DOMAIN r /\ r[i - 1] = q[i]
      BY <1>1, <2>1, <3>1
    <3>2. \A i \in DOMAIN r : i + 1 \in DOMAIN q /\ r[i] = q[i + 1] /\ r[i] # Head(q)
      BY <1>1, <2>1, <2>2
    <3> QED BY <3>1, <3>2 DEF Members
  <2>5. \A t, o : Before(r, t, o) => Before(q, t, o)
    <3> SUFFICES ASSUME NEW i \in DOMAIN r, NEW j \in DOMAIN r, i < j PROVE Before(q, r[i], r[j])
      BY DEF Before
    <3>1. i + 1 \in DOMAIN q /\ j + 1 \in DOMAIN q /\ i + 1 < j + 1
      BY <1>1, <2>1
    <3> QED BY <2>1, <3>1 DEF Before
  <2>6. \A o : ~Before(r, Head(q), o)
    BY <2>2 DEF Before
  <2>7. r = Tail(q) => Len(r) = Len(q) - 1 /\ Members(r) = Members(q) \ {Head(q)}
    BY <1>1, <1>2, <2>4
  <2>8. \A t, o : t # Head(q) /\ o # Head(q) /\ Before(r, t, o) => Before(q, t, o)
    BY <2>5, Zenon
  <2> QED BY <1>3, <1>4, <1>5, <2>3, <2>6, <2>7, <2>8, Zenon
<1>6. CASE r = Append(Tail(q), Head(q)) /\ r # Tail(q)
  <2>1. /\ DOMAIN r = 1..n /\ Len(r) = n /\ r[n] = q[1]
        /\ \A i \in 1..(n - 1) : r[i] = q[i + 1]
    BY <1>1, <1>2, <1>6
  <2>2. \A i \in 1..(n - 1) : r[i] # Head(q)
    BY <1>0, <1>1, <2>1
  <2>3. Distinct(r)
    <3> SUFFICES ASSUME NEW i \in 1..n, NEW j \in 1..n, r[i] = r[j] PROVE i = j
      BY <2>1 DEF Distinct
    <3>1. CASE i = n \/ j = n
      BY <1>1, <2>1, <2>2, <3>1
    <3>2. CASE i # n /\ j # n
      <4>1. i \in 1..(n - 1) /\ j \in 1..(n - 1) /\ i + 1 \in DOMAIN q /\ j + 1 \in DOMAIN q
        BY <1>1, <3>2
      <4>2. q[i + 1] = q[j + 1]
        BY <2>1, <4>1
      <4>3. i + 1 = j + 1
        BY <1>0, <4>1, <4>2
      <4> QED BY <4>3
    <3> QED BY <3>1, <3>2
  <2>4. Members(r) = Members(q)
    <3>1. \A i \in DOMAIN q : \E j \in DOMAIN r : r[j] = q[i]
      <4> SUFFICES ASSUME NEW i \in DOMAIN q PROVE \E j \in DOMAIN r : r[j] = q[i]
        OBVIOUS
      <4>1. CASE i = 1
        BY <1>1, <2>1, <4>1
      <4>2. CASE i # 1
        <5>1. i - 1 \in 1..(n - 1) /\ i - 1 \in DOMAIN r /\ (i - 1) + 1 = i
          BY <1>1, <2>1, <4>2
        <5>2. r[i - 1] = q[i]
          BY <2>1, <5>1
        <5> QED BY <5>1, <5>2
      <4> QED BY <4>1, <4>2
    <3>2. \A j \in DOMAIN r : \E i \in DOMAIN q : r[j] = q[i]
      <4> SUFFICES ASSUME NEW j \in DOMAIN r PROVE \E i \in DOMAIN q : r[j] = q[i]
        OBVIOUS
      <4>1. CASE j = n
        BY <1>1, <2>1, <4>1
      <4>2. CASE j # n
        <5>1. j \in 1..(n - 1) /\ j + 1 \in DOMAIN q
          BY <1>1, <2>1, <4>2
        <5> QED BY <2>1, <5>1
      <4> QED BY <4>1, <4>2
    <3> QED BY <3>1, <3>2 DEF Members
  <2>5. \A o : ~Before(r, Head(q), o)
    <3> SUFFICES ASSUME NEW i \in DOMAIN r, NEW j \in DOMAIN r, i < j PROVE r[i] # Head(q)
      BY DEF Before
    <3>1. i \in 1..(n - 1)
      BY <1>1, <2>1
    <3> QED BY <2>2, <3>1
  <2>6. \A t, o : t # Head(q) /\ o # Head(q) /\ Before(r, t, o) => Before(q, t, o)
    <3> SUFFICES ASSUME NEW i \in DOMAIN r, NEW j \in DOMAIN r, i < j, r[j] # Head(q)
                 PROVE  Before(q, r[i], r[j])
      BY DEF Before
    <3>1. i \in 1..(n - 1) /\ j \in 1..(n - 1)
      BY <1>1, <2>1
    <3>2. i + 1 \in DOMAIN q /\ j + 1 \in DOMAIN q /\ i + 1 < j + 1
      BY <1>1, <3>1
    <3>3. r[i] = q[i + 1] /\ r[j] = q[j + 1]
      BY <2>1, <3>1
    <3> QED BY <3>2, <3>3 DEF Before
  <2>7. r # Tail(q) => Len(r) = Len(q) /\ Members(r) = Members(q)
    BY <1>1, <2>1, <2>4
  <2> QED BY <1>3, <1>4, <1>6, <2>3, <2>5, <2>6, <2>7, Zenon
<1> QED BY <1>5, <1>6

\* A task that joins a line it is not in.
LEMMA Joining ==
    ASSUME NEW S, NEW q \in Seq(S), Distinct(q), NEW t \in S, t \notin Members(q),
           NEW r, r = Append(q, t)
    PROVE  /\ r \in Seq(S) /\ Len(r) = Len(q) + 1
           /\ Distinct(r) /\ Members(r) = Members(q) \cup {t}
           /\ \A a, o : o # t /\ Before(r, a, o) => Before(q, a, o)
           /\ \A o : ~Before(r, t, o)
<1> DEFINE n == Len(q)
<1>1. n = Len(q) /\ n \in Nat /\ DOMAIN q = 1..n
    OBVIOUS
<1> HIDE DEF n
<1>2. /\ r \in Seq(S) /\ Len(r) = n + 1 /\ DOMAIN r = 1..(n + 1) /\ r[n + 1] = t
      /\ \A i \in 1..n : r[i] = q[i]
    BY <1>1
<1>0. /\ \A i, j \in DOMAIN q : q[i] = q[j] => i = j
      /\ \A i \in DOMAIN q : q[i] # t
    BY DEF Distinct, Members
<1>3. Distinct(r)
  <2> SUFFICES ASSUME NEW i \in 1..(n + 1), NEW j \in 1..(n + 1), r[i] = r[j] PROVE i = j
    BY <1>2 DEF Distinct
  <2>1. CASE i \in 1..n /\ j \in 1..n
    BY <1>0, <1>1, <1>2, <2>1
  <2>2. CASE i = n + 1 \/ j = n + 1
    BY <1>0, <1>1, <1>2, <2>2
  <2> QED BY <1>1, <2>1, <2>2
<1>4. Members(r) = Members(q) \cup {t}
  <2>1. \A i \in DOMAIN r : (i \in DOMAIN q /\ r[i] = q[i]) \/ r[i] = t
    BY <1>1, <1>2
  <2>2. \A i \in DOMAIN q : i \in DOMAIN r /\ r[i] = q[i]
    BY <1>1, <1>2
  <2>3. n + 1 \in DOMAIN r /\ r[n + 1] = t
    BY <1>1, <1>2
  <2> QED BY <2>1, <2>2, <2>3 DEF Members
<1>5. \A a, o : o # t /\ Before(r, a, o) => Before(q, a, o)
  <2> SUFFICES ASSUME NEW i \in DOMAIN r, NEW j \in DOMAIN r, i < j, r[j] # t
               PROVE  Before(q, r[i], r[j])
    BY DEF Before
  <2>1. i \in 1..n /\ j \in 1..n
    BY <1>1, <1>2
  <2> QED BY <1>1, <1>2, <2>1 DEF Before
<1>6. \A o : ~Before(r, t, o)
  <2> SUFFICES ASSUME NEW i \in DOMAIN r, NEW j \in DOMAIN r, i < j PROVE r[i] # t
    BY DEF Before
  <2>1. i \in 1..n
    BY <1>1, <1>2
  <2> QED BY <1>0, <1>1, <1>2, <2>1
<1> QED BY <1>2, <1>3, <1>4, <1>5, <1>6
---------------------------------------------------------------------------
(* What a step of a handler may do.                                        *)

\* Nothing but what a text has lived through is different.
Same(w, v) ==
    /\ v.at = w.at /\ v.cmd = w.cmd /\ v.open = w.open
    /\ v.number = w.number /\ v.flag = w.flag /\ v.page = w.page

\* The thread serves task t, which submits its next request or is done.
Served(t) ==
    /\ line # <<>> /\ Head(line) = t /\ task[t].at # "idle"
    /\ \A o \in Tasks \ {t} : Same(task[o], task'[o])
    /\ \/ task'[t].at = "idle" /\ line' = Tail(line)
       \/ task'[t].at # "idle" /\ task'[t].cmd = task[t].cmd /\ line' = Append(Tail(line), t)

\* Nothing is written, and what the task has read is so now, or it has kept it.
ReadStep(t) ==
    /\ Served(t)
    /\ task[t].at \in Reads /\ task'[t].at \in {"idle", "write"} \cup Reads
    /\ UNCHANGED <<db, disk, flips, raced, interrupted, updates, crashes>>
    /\ Proper(task'[t]) /\ Paged(db, task'[t])
    /\ \A u : HoldsFlag(task'[t], u) =>
         \/ task'[t].flag = db.transliter[u]
         \/ HoldsFlag(task[t], u) /\ task'[t].flag = task[t].flag
    /\ \A b \in buttons' : b[2] \in Nat \ {0}

LEMMA GotoServed ==
    ASSUME IInv, NEW t \in Tasks, NEW from, Serves(t, from), from # "idle", NEW at, Goto(t, at)
    PROVE  /\ Served(t) /\ task'[t].at = at
           /\ at # "idle" => /\ task'[t].cmd = task[t].cmd /\ ~task'[t].open
                             /\ task'[t].flag = task[t].flag /\ task'[t].page = task[t].page
<1> DEFINE next == [task[t] EXCEPT !.at = at, !.open = FALSE, !.number = 0]
           w == IF at = "idle" THEN Idle ELSE next
<1>1. DOMAIN task = Tasks /\ DOMAIN task[t] = Fields
    BY DEF IInv, TasksFit, Fits
<1>2. task' = [task EXCEPT ![t] = w]
    BY DEF Goto
<1>3. task'[t] = w /\ \A o \in Tasks \ {t} : task'[o] = task[o]
    BY <1>1, <1>2
<1>4. /\ next.at = at /\ next.cmd = task[t].cmd /\ ~next.open
      /\ next.flag = task[t].flag /\ next.page = task[t].page
    BY <1>1 DEF Fields
<1>5. Idle.at = "idle"
    BY DEF Idle
<1>6. line' = IF at = "idle" THEN Tail(line) ELSE Append(Tail(line), t)
    BY DEF Goto
<1>7. line # <<>> /\ Head(line) = t /\ task[t].at # "idle"
    BY DEF Serves
<1> HIDE DEF next
<1> QED BY <1>3, <1>4, <1>5, <1>6, <1>7 DEF Served, Same

LEMMA GotoRead ==
    ASSUME IInv, TypesInv, NEW t \in Tasks, NEW from \in Reads, Serves(t, from), task[t].open,
           NEW at \in {"idle", "write"} \cup (Reads \ {"page"}), Goto(t, at),
           at = "write" => /\ task[t].cmd.kind \in Changing
                           /\ ~(task[t].cmd.kind = "alias" /\ task[t].cmd.arg = TooLong)
                           /\ task[t].cmd.kind = "transliter" => from = "flag",
           UNCHANGED <<db, disk, flips, raced, interrupted, updates, crashes>>,
           \A b \in buttons' : b[2] \in Nat \ {0}
    PROVE  ReadStep(t)
<1>0. from # "idle" /\ task[t].at = from
    BY DEF Reads, Serves
<1>1. /\ Served(t) /\ task'[t].at = at
      /\ at # "idle" => /\ task'[t].cmd = task[t].cmd /\ ~task'[t].open
                        /\ task'[t].flag = task[t].flag /\ task'[t].page = task[t].page
    BY <1>0, GotoServed
<1>2. Proper(task[t])
    BY DEF TypesInv
<1>3. Proper(task'[t])
    BY <1>0, <1>1, <1>2 DEF Proper, Reads, Writes
<1>4. Paged(db, task'[t])
    BY <1>1 DEF Paged
<1>5. ASSUME NEW u, HoldsFlag(task'[t], u)
      PROVE  HoldsFlag(task[t], u) /\ task'[t].flag = task[t].flag
  <2>1. at = "write" /\ task[t].cmd.kind = "transliter" /\ task[t].cmd.target = u
    BY <1>1, <1>5 DEF HoldsFlag
  <2> QED BY <1>0, <1>1, <2>1 DEF HoldsFlag
<1> QED BY <1>0, <1>1, <1>3, <1>4, <1>5 DEF ReadStep

\* Where the handlers go on to.
LEMMA AfterRightsPlace ==
    ASSUME NEW c
    PROVE  /\ AfterRights(c) \in {"idle", "write", "flag", "target"}
           /\ AfterRights(c) = "write" => /\ c.kind \in {"alias", "grant"}
                                          /\ ~(c.kind = "alias" /\ c.arg = TooLong)
<1> QED BY DEF AfterRights

LEMMA AfterCheckPlace ==
    ASSUME NEW c
    PROVE  /\ AfterCheck(c) \in {"idle", "write", "list", "count", "disabled", "flag", "target", "rights"}
           /\ AfterCheck(c) = "write" => /\ c.kind \in {"ban", "unban", "alias", "grant"}
                                         /\ ~(c.kind = "alias" /\ c.arg = TooLong)
<1> QED BY AfterRightsPlace DEF AfterCheck

\* A SELECT reads the tables as they are.
LEMMA SelectStep ==
    ASSUME IInv, FullInv, NEW t \in Tasks, Select(t)
    PROVE  ReadStep(t)
<1> DEFINE u == task[t]
           w == [u EXCEPT !.open = TRUE, !.number = Number(u), !.flag = Flag(u), !.name = Name(u)]
<1>1. /\ task' = [task EXCEPT ![t] = w] /\ u.at \in Reads
      /\ line # <<>> /\ Head(line) = t /\ line' = Append(Tail(line), t)
      /\ UNCHANGED <<db, disk, flips, raced, interrupted, updates, crashes, buttons>>
    BY DEF Select, tables, history
<1>2. DOMAIN task = Tasks /\ DOMAIN u = Fields
    BY DEF IInv, TasksFit, Fits
<1>3. /\ w.at = u.at /\ w.cmd = u.cmd /\ w.number = Number(u) /\ w.flag = Flag(u)
      /\ w.page = u.page
    BY <1>2 DEF Fields
<1> HIDE DEF w
<1>4. task'[t] = w /\ \A o \in Tasks \ {t} : task'[o] = task[o]
    BY <1>1, <1>2
<1>5. Proper(u) /\ Paged(db, u) /\ \A b \in buttons : b[2] \in Nat \ {0}
    BY DEF FullInv, TypesInv, PagesInv
<1>6. Served(t)
    BY <1>1, <1>3, <1>4 DEF Served, Same, Reads
<1>7. Proper(w)
    BY <1>1, <1>3, <1>5 DEF Proper, Reads, Writes
<1>8. Paged(db, w)
  <2>1. u.at = "count" => Number(u) = Len(db.log)
    BY DEF Number
  <2>2. Len(db.log) \in Nat
    BY DEF FullInv, TypesInv, Tables
  <2> QED BY <1>3, <1>5, <2>1, <2>2 DEF Paged
<1>9. ASSUME NEW x, HoldsFlag(w, x) PROVE w.flag = db.transliter[x]
  <2>1. u.at = "flag" /\ u.cmd.target = x
    BY <1>1, <1>3, <1>9 DEF HoldsFlag, Reads
  <2> QED BY <1>3, <2>1 DEF Flag
<1> QED BY <1>1, <1>3, <1>4, <1>5, <1>6, <1>7, <1>8, <1>9 DEF ReadStep

LEMMA RightsStep ==
    ASSUME IInv, FullInv, NEW t \in Tasks, RightsRead(t)
    PROVE  ReadStep(t)
<1> DEFINE u == task[t]
           next == IF Entitled(u.cmd, u.number) THEN AfterRights(u.cmd) ELSE "idle"
           w == [u EXCEPT !.at = next, !.open = FALSE, !.number = 0, !.rank = u.number]
<1>1. /\ task' = [task EXCEPT ![t] = IF next = "idle" THEN Idle ELSE w] /\ u.at = "rights"
      /\ line # <<>> /\ Head(line) = t
      /\ line' = IF next = "idle" THEN Tail(line) ELSE Append(Tail(line), t)
      /\ UNCHANGED <<db, disk, flips, raced, interrupted, updates, crashes, buttons>>
    BY Zenon DEF RightsRead, Serves, tables, history
<1>2. DOMAIN task = Tasks /\ DOMAIN u = Fields
    BY DEF IInv, TasksFit, Fits
<1>3. w.at = next /\ w.cmd = u.cmd /\ ~w.open
    BY <1>2 DEF Fields
<1>4. /\ next \in {"idle", "write", "flag", "target"}
      /\ next = "write" => /\ u.cmd.kind \in {"alias", "grant"}
                           /\ ~(u.cmd.kind = "alias" /\ u.cmd.arg = TooLong)
    BY AfterRightsPlace
<1> DEFINE v == IF next = "idle" THEN Idle ELSE w
<1> HIDE DEF next, w
<1>5. task'[t] = v /\ \A o \in Tasks \ {t} : task'[o] = task[o]
    BY <1>1, <1>2
<1>6. v.at = next /\ (next # "idle" => v.cmd = u.cmd /\ ~v.open)
    BY <1>3 DEF Idle
<1> HIDE DEF v
<1>7. Proper(u) /\ \A b \in buttons : b[2] \in Nat \ {0}
    BY DEF FullInv, TypesInv
<1>8. Served(t)
    BY <1>1, <1>5, <1>6 DEF Served, Same
<1>9. Proper(v)
    BY <1>1, <1>4, <1>6, <1>7 DEF Proper, Reads, Writes, Changing
<1>10. Paged(db, v) /\ \A x : ~HoldsFlag(v, x)
    BY <1>4, <1>6 DEF Paged, HoldsFlag
<1> QED BY <1>1, <1>4, <1>5, <1>6, <1>7, <1>8, <1>9, <1>10 DEF ReadStep, Reads

\* The page worked out from a count begins with a row, if there are rows.
LEMMA CountedStep ==
    ASSUME IInv, FullInv, NEW t \in Tasks, Counted(t)
    PROVE  ReadStep(t)
<1> DEFINE u == task[t]
           pages == PagesOf(u.number)
           asked == IF u.cmd.kind = "page" THEN u.cmd.arg ELSE 1
           p == PageShown(asked, pages)
           w == [u EXCEPT !.at = "page", !.open = FALSE, !.number = 0, !.page = p, !.pages = pages]
<1>1. /\ task' = [task EXCEPT ![t] = w] /\ u.at = "count" /\ u.open
      /\ line # <<>> /\ Head(line) = t /\ line' = Append(Tail(line), t)
      /\ UNCHANGED <<db, disk, flips, raced, interrupted, updates, crashes, buttons>>
    BY Zenon DEF Counted, Serves, tables, history
<1>2. DOMAIN task = Tasks /\ DOMAIN u = Fields
    BY DEF IInv, TasksFit, Fits
<1>3. w.at = "page" /\ w.cmd = u.cmd /\ w.page = p
    BY <1>2 DEF Fields
<1>4. Proper(u) /\ Paged(db, u) /\ \A b \in buttons : b[2] \in Nat \ {0}
    BY DEF FullInv, TypesInv, PagesInv
<1>5. u.number \in 0..Len(db.log) /\ Len(db.log) \in Nat
    BY <1>1, <1>4 DEF Paged, FullInv, TypesInv, Tables
<1>6. asked \in Nat \ {0}
    BY <1>1, <1>4 DEF Proper
<1>7. /\ p \in Nat \ {0}
      /\ p = 1 \/ (p - 1) * PageSize < Len(db.log)
  <2>0. PageSize \in Nat /\ PageSize > 0
    BY ModerationAssumption
  <2>1. CASE u.number = 0
    <3>1. p = 1
      BY <1>6, <2>1 DEF PagesOf, PageShown
    <3> QED BY <3>1
  <2>2. CASE u.number # 0
    <3>1. pages \in Nat /\ pages > 0
      BY <1>5, <2>2, SomePage
    <3>2. p \in Nat \ {0} /\ p <= pages
      BY <1>6, <3>1 DEF PageShown
    <3>3. (p - 1) * PageSize < u.number
      BY <1>5, <2>2, <3>2, LastPage
    <3>4. (p - 1) * PageSize \in Int
      BY <2>0, <3>2
    <3> QED BY <1>5, <3>2, <3>3, <3>4
  <2> QED BY <2>1, <2>2
<1> HIDE DEF w, p
<1>8. task'[t] = w /\ \A o \in Tasks \ {t} : task'[o] = task[o]
    BY <1>1, <1>2
<1>9. Served(t)
    BY <1>1, <1>3, <1>8 DEF Served, Same
<1>10. Proper(w)
    BY <1>1, <1>3, <1>4 DEF Proper, Reads, Writes
<1>11. Paged(db, w) /\ \A x : ~HoldsFlag(w, x)
    BY <1>3, <1>7 DEF Paged, HoldsFlag
<1> QED BY <1>1, <1>3, <1>4, <1>8, <1>9, <1>10, <1>11 DEF ReadStep, Reads
LEMMA PageReadStep ==
    ASSUME IInv, FullInv, NEW t \in Tasks, PageRead(t)
    PROVE  ReadStep(t)
<1> DEFINE u == task[t]
<1>1. /\ Serves(t, "page") /\ u.open /\ Goto(t, "idle")
      /\ buttons' = buttons \cup {<<u.cmd.actor, p>> : p \in {u.page - 1, u.page + 1} \cap 1..u.pages}
      /\ UNCHANGED <<db, disk, flips, raced, interrupted, updates, crashes>>
    BY Zenon DEF PageRead, tables, history
<1>2. \A b \in buttons' : b[2] \in Nat \ {0}
  <2>1. \A b \in buttons : b[2] \in Nat \ {0}
    BY DEF FullInv, TypesInv
  <2>2. u.page \in Nat
    BY <1>1 DEF FullInv, PagesInv, Paged, Serves
  <2>3. \A p \in {u.page - 1, u.page + 1} \cap 1..u.pages : p \in Nat \ {0}
    BY <2>2
  <2> QED BY <1>1, <2>1, <2>3
<1>3. "page" \in Reads
    BY DEF Reads
<1> QED BY <1>1, <1>2, <1>3, GotoRead DEF FullInv

\* Every other step of a handler than its statements.
LEMMA ReadSteps ==
    ASSUME IInv, FullInv, NEW t \in Tasks, Handle(t),
           ~Write(t), ~Commit(t), ~Log(t), ~LogCommit(t)
    PROVE  ReadStep(t)
<1> DEFINE u == task[t]
<1>0. /\ TypesInv /\ Proper(u) /\ (MayBe(u.cmd, u.at) \/ u.at = "idle")
      /\ \A b \in buttons : b[2] \in Nat \ {0}
    BY DEF FullInv, TypesInv, IInv, TasksFit, Fits
<1>1. ASSUME NEW from \in Reads, NEW at \in {"idle", "write"} \cup (Reads \ {"page"}),
             Serves(t, from), u.open, Continue(t, at),
             at = "write" => /\ u.cmd.kind \in Changing
                             /\ ~(u.cmd.kind = "alias" /\ u.cmd.arg = TooLong)
                             /\ u.cmd.kind = "transliter" => from = "flag"
      PROVE  ReadStep(t)
  <2>1. /\ Goto(t, at)
        /\ UNCHANGED <<db, disk, flips, raced, interrupted, updates, crashes, buttons>>
    BY <1>1, Zenon DEF Continue, tables, history
  <2>2. TypesInv /\ \A b \in buttons' : b[2] \in Nat \ {0}
    BY <2>1 DEF FullInv, TypesInv
  <2> QED BY <1>1, <2>1, <2>2, GotoRead
<1>2. CASE Checked(t)
  <2> DEFINE at == IF u.number >= MinRole[u.cmd.kind] THEN AfterCheck(u.cmd) ELSE "idle"
  <2>1. Serves(t, "check") /\ u.open /\ Continue(t, at)
    BY <1>2, Zenon DEF Checked
  <2>2. /\ at \in {"idle", "write"} \cup (Reads \ {"page"})
        /\ at = "write" => /\ u.cmd.kind \in Changing
                           /\ ~(u.cmd.kind = "alias" /\ u.cmd.arg = TooLong)
                           /\ u.cmd.kind # "transliter"
    BY AfterCheckPlace DEF Reads, Changing
  <2> HIDE DEF at
  <2> QED BY <1>1, <2>1, <2>2 DEF Reads
<1>3. CASE TargetRead(t)
  <2> DEFINE at == IF CanRevoke(u.rank, u.number) THEN "write" ELSE "idle"
  <2>1. Serves(t, "target") /\ u.open /\ Continue(t, at)
    BY <1>3, Zenon DEF TargetRead
  <2>2. u.cmd.kind = "revoke"
    BY <2>1 DEF Serves, IInv, TasksFit, Fits, MayBe
  <2>3. at \in {"idle", "write"}
    OBVIOUS
  <2> HIDE DEF at
  <2> QED BY <1>1, <2>1, <2>2, <2>3 DEF Reads, Changing
<1>4. CASE FlagRead(t)
  <2>1. u.cmd.kind = "transliter"
    BY <1>4 DEF FlagRead, Serves, IInv, TasksFit, Fits, MayBe
  <2> QED BY <1>1, <1>4, <2>1 DEF FlagRead, Reads, Changing
<1>5. CASE Listed(t)
    BY <1>1, <1>5 DEF Listed, Reads
<1>6. CASE DisabledRead(t)
  <2> DEFINE at == IF u.flag THEN "idle" ELSE "settings"
  <2>1. Serves(t, "disabled") /\ u.open /\ Continue(t, at)
    BY <1>6, Zenon DEF DisabledRead
  <2>2. at \in {"idle", "settings"}
    OBVIOUS
  <2> HIDE DEF at
  <2> QED BY <1>1, <2>1, <2>2 DEF Reads
<1>7. CASE SettingsRead(t)
  <2>1. /\ Serves(t, "settings") /\ u.open /\ Goto(t, "idle")
        /\ UNCHANGED <<db, disk, flips, raced, interrupted, updates, crashes, buttons>>
    BY <1>7, Zenon DEF SettingsRead, tables, history
  <2>2. TypesInv /\ \A b \in buttons' : b[2] \in Nat \ {0}
    BY <2>1 DEF FullInv, TypesInv
  <2> QED BY <2>1, <2>2, GotoRead DEF Reads
<1> QED
    BY <1>2, <1>3, <1>4, <1>5, <1>6, <1>7, SelectStep, RightsStep, CountedStep, PageReadStep
    DEF Handle

---------------------------------------------------------------------------
(* The other steps.                                                        *)

\* A statement of task t and what the other tasks see of it.
LEMMA WriteServed ==
    ASSUME IInv, FullInv, NEW t \in Tasks, Write(t)
    PROVE  /\ Served(t) /\ task[t].at = "write" /\ task'[t].at = "commit"
           /\ task'[t].cmd = task[t].cmd
           /\ db' = Effect(db, task[t])
           /\ UNCHANGED <<disk, buttons, updates, crashes, interrupted>>
<1> DEFINE w == [task[t] EXCEPT !.at = "commit"]
           kept(o) == [task[o] EXCEPT !.lived = Lived(db', task[o])]
<1>1. /\ Serves(t, "write") /\ task' = [o \in Tasks |-> IF o = t THEN w ELSE kept(o)]
      /\ line' = Append(Tail(line), t) /\ db' = Effect(db, task[t])
      /\ UNCHANGED <<disk, buttons, updates, crashes, interrupted>>
    BY Zenon DEF Write, Written
<1>2. \A o \in Tasks : DOMAIN task[o] = Fields
    BY DEF IInv, TasksFit, Fits
<1>3. task'[t] = w /\ w.at = "commit" /\ w.cmd = task[t].cmd
    BY <1>1, <1>2 DEF Fields
<1>4. ASSUME NEW o \in Tasks \ {t} PROVE Same(task[o], task'[o])
  <2>1. task'[o] = kept(o)
    BY <1>1
  <2>2. Same(task[o], kept(o))
    BY <1>2 DEF Same, Fields
  <2> HIDE DEF kept
  <2> QED BY <2>1, <2>2
<1>5. line # <<>> /\ Head(line) = t /\ task[t].at = "write"
    BY <1>1 DEF Serves
<1> HIDE DEF w, kept
<1> QED BY <1>1, <1>3, <1>4, <1>5 DEF Served

LEMMA CommitServed ==
    ASSUME IInv, NEW t \in Tasks, Commit(t)
    PROVE  /\ Served(t) /\ task[t].at = "commit"
           /\ task'[t].at = IF task[t].cmd.kind = "transliter" THEN "idle" ELSE "log"
           /\ disk' = db
           /\ UNCHANGED <<db, buttons, updates, crashes, flips, raced, interrupted>>
<1> DEFINE at == IF task[t].cmd.kind = "transliter" THEN "idle" ELSE "log"
<1>1. /\ Serves(t, "commit") /\ Goto(t, at) /\ disk' = db
      /\ UNCHANGED <<db, buttons, updates, crashes, flips, raced, interrupted>>
    BY Zenon DEF Commit, history
<1>2. task[t].at = "commit"
    BY <1>1 DEF Serves
<1> HIDE DEF at
<1>3. Served(t) /\ task'[t].at = at
    BY <1>1, GotoServed
<1> QED BY <1>1, <1>2, <1>3 DEF at

LEMMA LogServed ==
    ASSUME IInv, NEW t \in Tasks, Log(t)
    PROVE  /\ Served(t) /\ task[t].at = "log" /\ task'[t].at = "logcommit"
           /\ db' = [db EXCEPT !.log = Append(@, task[t].cmd)]
           /\ UNCHANGED <<disk, buttons, updates, crashes, flips, raced, interrupted>>
<1>1. /\ Serves(t, "log") /\ Goto(t, "logcommit")
      /\ db' = [db EXCEPT !.log = Append(@, task[t].cmd)]
      /\ UNCHANGED <<disk, buttons, updates, crashes, flips, raced, interrupted>>
    BY DEF Log, history
<1>2. task[t].at = "log"
    BY <1>1 DEF Serves
<1> QED BY <1>1, <1>2, GotoServed

LEMMA LogCommitServed ==
    ASSUME IInv, NEW t \in Tasks, LogCommit(t)
    PROVE  /\ Served(t) /\ task[t].at = "logcommit" /\ task'[t].at \in {"idle", "menu"}
           /\ task'[t].at = "menu" => task'[t].cmd = task[t].cmd /\ ~task'[t].open
           /\ disk' = db
           /\ UNCHANGED <<db, buttons, updates, crashes, flips, raced, interrupted>>
<1> DEFINE at == IF task[t].cmd.kind \in {"grant", "revoke"} /\ task[t].cmd.target # Owner
                 THEN "menu" ELSE "idle"
<1>1. /\ Serves(t, "logcommit") /\ Goto(t, at) /\ disk' = db
      /\ UNCHANGED <<db, buttons, updates, crashes, flips, raced, interrupted>>
    BY Zenon DEF LogCommit, history
<1>2. task[t].at = "logcommit" /\ at \in {"idle", "menu"}
    BY <1>1 DEF Serves
<1> HIDE DEF at
<1>3. /\ Served(t) /\ task'[t].at = at
      /\ at # "idle" => task'[t].cmd = task[t].cmd /\ ~task'[t].open
    BY <1>1, GotoServed
<1> QED BY <1>1, <1>2, <1>3

\* A handler begins with a request, or has nothing to ask.
Begun(t) ==
    /\ task[t].at = "idle" /\ task'[t].at \in Reads \cup {"write"}
    /\ DOMAIN task' = Tasks /\ \A o \in Tasks \ {t} : task'[o] = task[o]
    /\ line' = Append(line, t)
    /\ Proper(task'[t]) /\ ~task'[t].open /\ task'[t].at # "page"
    /\ task'[t].cmd.kind # "transliter" \/ task'[t].at # "write"

LEMMA BeginSteps ==
    ASSUME IInv, FullInv, NEW t \in Tasks, Receive(t) \/ Press(t)
    PROVE  /\ Begun(t) \/ UNCHANGED <<task, line>>
           /\ updates' \in 0..MaxUpdates
           /\ UNCHANGED <<db, disk, buttons, crashes, flips, raced, interrupted>>
<1>1. PICK c : /\ Begin(t, c)
               /\ IF c.kind = "page" THEN c.arg \in Nat \ {0} ELSE c \in Commands
  <2>1. CASE Receive(t)
    <3>1. PICK c \in Commands : Begin(t, c)
      BY <2>1 DEF Receive
    <3>2. IsCommand(c)
      BY ModerationAssumption
    <3>3. c.kind = "page" => c.arg \in Nat \ {0}
      BY <3>2 DEF IsCommand, Argument
    <3> QED BY <3>1, <3>3
  <2>2. CASE Press(t)
    <3>1. PICK b \in buttons :
            Begin(t, [kind |-> "page", actor |-> b[1], target |-> b[1], arg |-> b[2]])
      BY <2>2 DEF Press
    <3>2. b[2] \in Nat \ {0}
      BY DEF FullInv, TypesInv
    <3> QED BY <3>1, <3>2
  <2> QED BY <2>1, <2>2
<1>2. /\ task[t].at = "idle" /\ updates < MaxUpdates /\ updates' = updates + 1
      /\ UNCHANGED <<db, disk, buttons, crashes, flips, raced, interrupted>>
    BY <1>1, Zenon DEF Begin, tables, history
<1>3. updates' \in 0..MaxUpdates
    BY <1>2, ModerationAssumption DEF FullInv, TypesInv
<1>4. CASE First(c) = "idle"
    BY <1>1, <1>2, <1>3, <1>4, Zenon DEF Begin
<1>5. CASE First(c) # "idle"
  <2> DEFINE w == [Idle EXCEPT !.at = First(c), !.cmd = c,
                               !.rank = IF c.actor = Owner THEN OWNER ELSE USER,
                               !.lived = Standing(db, c)]
  <2>1. task' = [task EXCEPT ![t] = w] /\ line' = Append(line, t)
    BY <1>1, <1>5, Zenon DEF Begin
  <2>2. w.at = First(c) /\ w.cmd = c /\ ~w.open
    BY DEF Idle
  <2> HIDE DEF w
  <2>3. DOMAIN task = Tasks
    BY DEF IInv, TasksFit
  <2>4. /\ First(c) \in {"check", "write", "list", "count", "disabled", "flag", "target", "rights"}
        /\ First(c) = "write" => /\ c.kind \in {"ban", "unban", "alias", "grant"}
                                 /\ ~(c.kind = "alias" /\ c.arg = TooLong)
    BY <1>5, AfterCheckPlace DEF First
  <2>5. Proper(w)
    BY <1>1, <2>2, <2>4 DEF Proper, Reads, Writes, Changing
  <2>6. Begun(t)
    BY <1>2, <2>1, <2>2, <2>3, <2>4, <2>5 DEF Begun, Reads
  <2> QED BY <1>2, <1>3, <2>6
<1> QED BY <1>4, <1>5
---------------------------------------------------------------------------
(* What every step keeps.                                                  *)

LEMMA ServedOther ==
    ASSUME NEW t, Served(t), NEW o \in Tasks \ {t}
    PROVE  /\ task'[o].at = task[o].at /\ task'[o].cmd = task[o].cmd
           /\ task'[o].open = task[o].open /\ task'[o].number = task[o].number
           /\ task'[o].flag = task[o].flag /\ task'[o].page = task[o].page
<1> QED BY DEF Served, Same

LEMMA ServedLine ==
    ASSUME LineInv, NEW t \in Tasks, Served(t)
    PROVE  LineInv'
<1>1. /\ line' \in Seq(Tasks) /\ Distinct(line')
      /\ line' = Tail(line) => Len(line') = Len(line) - 1 /\ Members(line') = Members(line) \ {t}
      /\ line' # Tail(line) => Len(line') = Len(line) /\ Members(line') = Members(line)
  <2>1. line \in Seq(Tasks) /\ line # <<>> /\ Distinct(line) /\ Head(line) = t
    BY DEF LineInv, Served
  <2>2. line' = Tail(line) \/ line' = Append(Tail(line), Head(line))
    BY DEF Served
  <2> QED BY <2>1, <2>2, Rotation
<1>2. line' # Tail(line) <=> task'[t].at # "idle"
  <2>1. Len(Append(Tail(line), t)) # Len(Tail(line))
    BY DEF LineInv, Served
  <2> QED BY <2>1 DEF Served
<1>3. t \in Busy /\ \A o \in Tasks \ {t} : task'[o].at = task[o].at
    BY ServedOther DEF Busy, Served
<1>4. CASE task'[t].at # "idle"
  <2>1. Busy' = Busy
    BY <1>3, <1>4 DEF Busy
  <2> QED BY <1>1, <1>2, <1>4, <2>1 DEF LineInv
<1>5. CASE task'[t].at = "idle"
  <2>1. Busy' = Busy \ {t}
    BY <1>3, <1>5 DEF Busy
  <2>2. IsFiniteSet(Busy') /\ Cardinality(Busy') = Cardinality(Busy) - 1
    BY <1>3, <2>1, FS_RemoveElement DEF LineInv
  <2> QED BY <1>1, <1>2, <1>5, <2>1, <2>2 DEF LineInv
<1> QED BY <1>4, <1>5

LEMMA BegunLine ==
    ASSUME LineInv, NEW t \in Tasks, Begun(t)
    PROVE  LineInv'
<1>0. t \notin Busy /\ t \notin Members(line)
    BY DEF LineInv, Begun, Busy
<1>1. /\ line' \in Seq(Tasks) /\ Len(line') = Len(line) + 1
      /\ Distinct(line') /\ Members(line') = Members(line) \cup {t}
  <2>1. line \in Seq(Tasks) /\ Distinct(line) /\ line' = Append(line, t)
    BY DEF LineInv, Begun
  <2> QED BY <1>0, <2>1, Joining, ZenonT(60)
<1>2. Busy' = Busy \cup {t}
    BY DEF Begun, Busy, Reads
<1>3. IsFiniteSet(Busy') /\ Cardinality(Busy') = Cardinality(Busy) + 1
    BY <1>0, <1>2, FS_AddElement DEF LineInv
<1> QED BY <1>1, <1>2, <1>3 DEF LineInv

\* Every handler step serves the task in front of the line.
LEMMA HandleServed ==
    ASSUME IInv, FullInv, NEW t \in Tasks, Handle(t)
    PROVE  Served(t)
<1>1. CASE Write(t)
    BY <1>1, WriteServed
<1>2. CASE Commit(t)
    BY <1>2, CommitServed
<1>3. CASE Log(t)
    BY <1>3, LogServed
<1>4. CASE LogCommit(t)
    BY <1>4, LogCommitServed
<1> QED BY <1>1, <1>2, <1>3, <1>4, ReadSteps DEF ReadStep

LEMMA CrashIdles ==
    ASSUME Crash
    PROVE  /\ task' = [t \in Tasks |-> Idle] /\ \A t \in Tasks : task'[t].at = "idle"
           /\ line' = <<>> /\ db' = disk /\ UNCHANGED <<disk, buttons, updates>>
           /\ flips' = disk.transliter
           /\ crashes < MaxCrashes /\ crashes' = crashes + 1
           /\ interrupted' = interrupted \cup
                {<<task[t].cmd.kind, task[t].cmd.target>> :
                    t \in {o \in Tasks : task[o].at \in {"commit", "log", "logcommit"}}}
<1>1. task' = [t \in Tasks |-> Idle]
    BY Zenon DEF Crash
<1>2. \A t \in Tasks : task'[t].at = "idle"
    BY <1>1 DEF Idle
<1> QED BY <1>1, <1>2, Zenon DEF Crash

LEMMA NextLine == IInv /\ FullInv /\ [Next]_vars => LineInv'
<1> SUFFICES ASSUME IInv, FullInv, [Next]_vars PROVE LineInv'
    OBVIOUS
<1>0. LineInv
    BY DEF FullInv
<1>1. CASE Crash
  <2>1. line' = <<>> /\ Busy' = {}
    BY <1>1, CrashIdles DEF Busy
  <2> QED BY <2>1, FS_EmptySet DEF LineInv, Distinct, Members
<1>2. CASE UNCHANGED <<task, line>>
    BY <1>0, <1>2 DEF LineInv, Busy
<1>3. ASSUME NEW t \in Tasks, Receive(t) \/ Press(t) PROVE LineInv'
    BY <1>0, <1>2, <1>3, BeginSteps, BegunLine
<1>4. ASSUME NEW t \in Tasks, Handle(t) PROVE LineInv'
    BY <1>0, <1>4, HandleServed, ServedLine
<1>5. CASE UNCHANGED vars
    BY <1>2, <1>5 DEF vars
<1> QED BY <1>1, <1>3, <1>4, <1>5 DEF Next
\* The statement of a command keeps the tables of their types.
LEMMA EffectTypes ==
    ASSUME NEW s \in Tables, NEW w, IsCommand(w.cmd), w.cmd.kind \in Changing,
           ~(w.cmd.kind = "alias" /\ w.cmd.arg = TooLong)
    PROVE  Effect(s, w) \in Tables
<1> DEFINE c == w.cmd
<1>1. /\ c.target \in Users /\ (c.kind = "grant" => c.arg \in {MODERATOR, ADMIN})
      /\ c.kind = "alias" => c.arg \in Aliases \cup {NoAlias}
    BY DEF IsCommand, Argument
<1>2. CASE c.kind = "ban"
    BY <1>1, <1>2 DEF Effect, Tables
<1>3. CASE c.kind = "unban"
    BY <1>1, <1>3 DEF Effect, Tables
<1>4. CASE c.kind = "alias"
    BY <1>1, <1>4 DEF Effect, Tables
<1>5. CASE c.kind = "transliter"
  <2>1. (~w.flag) \in BOOLEAN
    OBVIOUS
  <2> QED BY <1>1, <1>5, <2>1 DEF Effect, Tables
<1>6. CASE c.kind = "grant"
    BY <1>1, <1>6 DEF Effect, Tables
<1>7. CASE c.kind = "revoke"
    BY <1>1, <1>7 DEF Effect, Tables
<1> QED BY <1>2, <1>3, <1>4, <1>5, <1>6, <1>7 DEF Changing

\* What a task is about that writes or has written.
LEMMA WriterProper ==
    ASSUME IInv, FullInv, NEW t \in Tasks, task[t].at \in Writes
    PROVE  /\ task[t].cmd \in Commands /\ IsCommand(task[t].cmd)
           /\ task[t].cmd.kind \in Changing
           /\ ~(task[t].cmd.kind = "alias" /\ task[t].cmd.arg = TooLong)
<1>1. Proper(task[t])
    BY DEF FullInv, TypesInv
<1>2. /\ task[t].cmd.kind \in Changing
      /\ ~(task[t].cmd.kind = "alias" /\ task[t].cmd.arg = TooLong)
    BY <1>1 DEF Proper
<1>3. task[t].cmd.kind # "page" /\ task[t].at # "idle"
    BY <1>2 DEF Changing, Writes
<1>4. task[t].cmd \in Commands
    BY <1>1, <1>3 DEF Proper
<1> QED BY <1>2, <1>4, ModerationAssumption

LEMMA NextTypes == IInv /\ FullInv /\ [Next]_vars => TypesInv'
<1> SUFFICES ASSUME IInv, FullInv, [Next]_vars PROVE TypesInv'
    OBVIOUS
<1>0. TypesInv
    BY DEF FullInv
<1>a. ASSUME NEW w, NEW v, Same(w, v), Proper(w) PROVE Proper(v)
    BY <1>a DEF Same, Proper
<1>b. ASSUME NEW t \in Tasks, Served(t), Proper(task'[t]) PROVE \A o \in Tasks : Proper(task'[o])
    BY <1>0, <1>a, <1>b DEF Served, TypesInv
<1>1. CASE Crash
  <2>1. /\ db' = disk /\ disk' = disk /\ buttons' = buttons /\ updates' = updates
        /\ flips' = disk.transliter /\ crashes < MaxCrashes /\ crashes' = crashes + 1
        /\ \A t \in Tasks : task'[t].at = "idle"
    BY <1>1, CrashIdles
  <2>2. \A t \in Tasks : Proper(task'[t])
    BY <2>1 DEF Proper, Writes
  <2>3. crashes' \in 0..MaxCrashes
    BY <1>0, <2>1, ModerationAssumption DEF TypesInv
  <2>4. flips' \in [Users -> BOOLEAN]
    BY <1>0, <2>1 DEF TypesInv, Tables
  <2> QED BY <1>0, <2>1, <2>2, <2>3, <2>4 DEF TypesInv
<1>2. ASSUME NEW t \in Tasks, Receive(t) \/ Press(t) PROVE TypesInv'
  <2>1. \A o \in Tasks : Proper(task'[o])
    BY <1>0, <1>2, BeginSteps DEF Begun, TypesInv
  <2> QED BY <1>0, <1>2, <2>1, BeginSteps DEF TypesInv
<1>3. ASSUME NEW t \in Tasks, ReadStep(t) PROVE TypesInv'
  <2>1. \A o \in Tasks : Proper(task'[o])
    BY <1>3, <1>b DEF ReadStep
  <2> QED BY <1>0, <1>3, <2>1 DEF TypesInv, ReadStep
<1>4. ASSUME NEW t \in Tasks, Write(t) PROVE TypesInv'
  <2>1. /\ Served(t) /\ task[t].at = "write" /\ task'[t].at = "commit" /\ task'[t].cmd = task[t].cmd
        /\ db' = Effect(db, task[t])
        /\ UNCHANGED <<disk, buttons, updates, crashes, interrupted>>
    BY <1>4, WriteServed
  <2>2. Proper(task'[t])
    BY <1>0, <2>1, WriterProper DEF TypesInv, Proper, Writes, Changing
  <2>3. db' \in Tables
    BY <1>0, <2>1, WriterProper, EffectTypes DEF TypesInv, Writes
  <2>4. flips' \in [Users -> BOOLEAN]
    <3>1. flips' = flips \/ flips' = [flips EXCEPT ![task[t].cmd.target] = ~@]
      BY <1>4 DEF Write, Written
    <3> QED BY <1>0, <3>1 DEF TypesInv
  <2>5. \A o \in Tasks : Proper(task'[o])
    BY <1>b, <2>1, <2>2
  <2> QED BY <1>0, <2>1, <2>3, <2>4, <2>5 DEF TypesInv
<1>5. ASSUME NEW t \in Tasks, Commit(t) PROVE TypesInv'
  <2>1. /\ Served(t) /\ task[t].at = "commit" /\ disk' = db
        /\ task'[t].at = IF task[t].cmd.kind = "transliter" THEN "idle" ELSE "log"
        /\ UNCHANGED <<db, buttons, updates, crashes, flips, raced, interrupted>>
    BY <1>5, CommitServed
  <2>2. Proper(task'[t])
    <3>1. task'[t].at # "idle" => task'[t].cmd = task[t].cmd
      BY <2>1 DEF Served
    <3> QED BY <1>0, <2>1, <3>1, WriterProper DEF TypesInv, Proper, Writes, Changing
  <2>3. \A o \in Tasks : Proper(task'[o])
    BY <1>b, <2>1, <2>2
  <2> QED BY <1>0, <2>1, <2>3 DEF TypesInv
<1>6. ASSUME NEW t \in Tasks, Log(t) PROVE TypesInv'
  <2>1. /\ Served(t) /\ task[t].at = "log" /\ task'[t].at = "logcommit"
        /\ db' = [db EXCEPT !.log = Append(@, task[t].cmd)]
        /\ UNCHANGED <<disk, buttons, updates, crashes, flips, raced, interrupted>>
    BY <1>6, LogServed
  <2>2. Proper(task[t]) /\ task'[t].cmd = task[t].cmd
    BY <1>0, <2>1 DEF TypesInv, Served
  <2>3. Proper(task'[t])
    BY <2>1, <2>2 DEF Proper, Writes
  <2>4. task[t].cmd \in {c \in Commands : c.kind \notin {"transliter", "text"}}
    BY <2>1, <2>2, WriterProper DEF Proper, Writes, Changing
  <2>5. db' \in Tables
    <3> DEFINE Rows == {c \in Commands : c.kind \notin {"transliter", "text"}}
    <3>1. db \in Tables /\ db.log \in Seq(Rows)
      BY <1>0 DEF TypesInv, Tables
    <3>2. task[t].cmd \in Rows
      BY <2>4
    <3> HIDE DEF Rows
    <3>3. Append(db.log, task[t].cmd) \in Seq(Rows)
      BY <3>1, <3>2
    <3>4. Append(db.log, task[t].cmd) \in Seq({c \in Commands : c.kind \notin {"transliter", "text"}})
      BY <3>3 DEF Rows
    <3> QED BY <2>1, <3>1, <3>4 DEF Tables
  <2>6. \A o \in Tasks : Proper(task'[o])
    BY <1>b, <2>1, <2>3
  <2> QED BY <1>0, <2>1, <2>5, <2>6 DEF TypesInv
<1>7. ASSUME NEW t \in Tasks, LogCommit(t) PROVE TypesInv'
  <2>1. /\ Served(t) /\ task[t].at = "logcommit" /\ disk' = db /\ task'[t].at \in {"idle", "menu"}
        /\ UNCHANGED <<db, buttons, updates, crashes, flips, raced, interrupted>>
    BY <1>7, LogCommitServed
  <2>2. Proper(task'[t])
    <3>1. task'[t].at # "idle" => task'[t].cmd = task[t].cmd
      BY <2>1 DEF Served
    <3> QED BY <1>0, <2>1, <3>1 DEF TypesInv, Proper, Reads, Writes
  <2>3. \A o \in Tasks : Proper(task'[o])
    BY <1>b, <2>1, <2>2
  <2> QED BY <1>0, <2>1, <2>3 DEF TypesInv
<1>8. CASE UNCHANGED vars
    BY <1>0, <1>8 DEF TypesInv, vars, tables, history
<1> QED BY <1>1, <1>2, <1>3, <1>4, <1>5, <1>6, <1>7, <1>8, ReadSteps DEF Next

\* The log only grows, but for a crash, which leaves no handler that has counted it.
LEMMA NextPages == IInv /\ FullInv /\ [Next]_vars => PagesInv'
<1> SUFFICES ASSUME IInv, FullInv, [Next]_vars PROVE PagesInv'
    OBVIOUS
<1>0. PagesInv /\ db \in Tables
    BY DEF FullInv, TypesInv
<1>00. Len(db.log) \in Nat /\ PageSize \in Nat
    BY <1>0, ModerationAssumption DEF Tables
<1>a. ASSUME NEW w, NEW v, Same(w, v), NEW s, s.log = db.log \/ Len(s.log) = Len(db.log) + 1,
             Paged(db, w)
      PROVE  Paged(s, v)
  <2>1. Len(s.log) \in Nat /\ Len(db.log) <= Len(s.log)
    BY <1>00, <1>a
  <2>2. v.at = "count" /\ v.open => v.number \in 0..Len(s.log)
    BY <1>00, <1>a, <2>1 DEF Same, Paged
  <2>3. v.at = "page" => /\ v.page \in Nat \ {0}
                         /\ v.page = 1 \/ (v.page - 1) * PageSize < Len(s.log)
    <3> SUFFICES ASSUME v.at = "page", v.page # 1
                 PROVE  v.page \in Nat \ {0} /\ (v.page - 1) * PageSize < Len(s.log)
      BY <1>a DEF Same, Paged
    <3>1. v.page \in Nat \ {0} /\ (v.page - 1) * PageSize < Len(db.log)
      BY <1>a DEF Same, Paged
    <3>2. (v.page - 1) * PageSize \in Int
      BY <1>00, <3>1
    <3> QED BY <1>00, <2>1, <3>1, <3>2
  <2> QED BY <2>2, <2>3 DEF Paged
<1>b. ASSUME NEW t \in Tasks, Served(t), db'.log = db.log \/ Len(db'.log) = Len(db.log) + 1,
             Paged(db', task'[t])
      PROVE  PagesInv'
  <2>1. \A o \in Tasks \ {t} : Paged(db', task'[o])
    BY <1>0, <1>a, <1>b DEF Served, PagesInv
  <2> QED BY <1>b, <2>1 DEF PagesInv
<1>1. CASE Crash
    BY <1>1, CrashIdles DEF PagesInv, Paged
<1>2. ASSUME NEW t \in Tasks, Receive(t) \/ Press(t) PROVE PagesInv'
  <2>1. Begun(t) \/ UNCHANGED task
    BY <1>2, BeginSteps
  <2>2. db' = db
    BY <1>2, BeginSteps
  <2>3. CASE Begun(t)
    BY <1>0, <2>2, <2>3 DEF Begun, PagesInv, Paged
  <2> QED BY <1>0, <2>1, <2>2, <2>3 DEF PagesInv
<1>3. ASSUME NEW t \in Tasks, ReadStep(t) PROVE PagesInv'
    BY <1>3, <1>b DEF ReadStep
<1>4. ASSUME NEW t \in Tasks, Write(t) PROVE PagesInv'
  <2>1. Served(t) /\ task'[t].at = "commit" /\ db' = Effect(db, task[t]) /\ task[t].at = "write"
    BY <1>4, WriteServed
  <2>2. db'.log = db.log
    BY <1>0, <2>1, WriterProper DEF Effect, Changing, Tables, Writes
  <2> QED BY <1>b, <2>1, <2>2 DEF Paged
<1>5. ASSUME NEW t \in Tasks, Commit(t) PROVE PagesInv'
  <2>1. Served(t) /\ task'[t].at \in {"idle", "log"} /\ db' = db
    BY <1>5, CommitServed
  <2> QED BY <1>b, <2>1 DEF Paged
<1>6. ASSUME NEW t \in Tasks, Log(t) PROVE PagesInv'
  <2>1. /\ Served(t) /\ task'[t].at = "logcommit"
        /\ db' = [db EXCEPT !.log = Append(@, task[t].cmd)]
    BY <1>6, LogServed
  <2>2. Len(db'.log) = Len(db.log) + 1
    BY <1>0, <2>1 DEF Tables
  <2> QED BY <1>b, <2>1, <2>2 DEF Paged
<1>7. ASSUME NEW t \in Tasks, LogCommit(t) PROVE PagesInv'
  <2>1. Served(t) /\ task'[t].at \in {"idle", "menu"} /\ db' = db
    BY <1>7, LogCommitServed
  <2> QED BY <1>b, <2>1 DEF Paged
<1>8. CASE UNCHANGED vars
    BY <1>0, <1>8 DEF PagesInv, vars, tables
<1> QED BY <1>1, <1>2, <1>3, <1>4, <1>5, <1>6, <1>7, <1>8, ReadSteps DEF Next
---------------------------------------------------------------------------
(* Toggles.                                                                *)

\* What the statement of task t does to a toggle's flag and to the history of toggles.
LEMMA Toggles ==
    ASSUME IInv, FullInv, NEW t \in Tasks, Write(t)
    PROVE  LET c == task[t].cmd
           IN  IF c.kind = "transliter"
               THEN /\ db'.transliter = [db.transliter EXCEPT ![c.target] = ~task[t].flag]
                    /\ flips' = [flips EXCEPT ![c.target] = ~flips[c.target]]
                    /\ raced' = IF OverlappingToggles(t) = {} THEN raced ELSE raced \cup {c.target}
               ELSE db'.transliter = db.transliter /\ flips' = flips /\ raced' = raced
<1> DEFINE c == task[t].cmd
<1>1. db' = Effect(db, task[t]) /\ task[t].at = "write"
    BY WriteServed
<1>2. db \in Tables /\ c.kind \in Changing /\ IsCommand(c)
    BY <1>1, WriterProper DEF FullInv, TypesInv, Writes
<1>3. IF c.kind = "transliter"
      THEN /\ flips' = [flips EXCEPT ![c.target] = ~flips[c.target]]
           /\ raced' = IF OverlappingToggles(t) = {} THEN raced ELSE raced \cup {c.target}
      ELSE flips' = flips /\ raced' = raced
    BY DEF Write, Written
<1>4. CASE c.kind = "transliter"
  <2>1. db' = [db EXCEPT !.transliter[c.target] = ~task[t].flag]
    BY <1>1, <1>4 DEF Effect
  <2>2. db'.transliter = [db.transliter EXCEPT ![c.target] = ~task[t].flag]
    BY <1>2, <2>1 DEF Tables
  <2> QED BY <1>3, <1>4, <2>2
<1>5. CASE c.kind # "transliter"
  <2>1. db'.transliter = db.transliter
    BY <1>1, <1>2, <1>5 DEF Effect, Changing, Tables
  <2> QED BY <1>3, <1>5, <2>1
<1> QED BY <1>4, <1>5

\* A step that leaves the flags and their history alone, and holds no flag that was not there.
LEMMA FlagsKept ==
    ASSUME FlagInv, UNCHANGED <<flips, raced>>, db'.transliter = db.transliter,
           \A t \in Tasks, u \in Users : HoldsFlag(task'[t], u) =>
               \/ task'[t].flag = db.transliter[u]
               \/ HoldsFlag(task[t], u) /\ task'[t].flag = task[t].flag
    PROVE  FlagInv'
<1> SUFFICES ASSUME NEW u \in Users \ raced, NEW t \in Tasks, HoldsFlag(task'[t], u)
             PROVE  task'[t].flag = db.transliter[u]
    BY DEF FlagInv
<1> QED BY DEF FlagInv

LEMMA NextFlags == IInv /\ FullInv /\ [Next]_vars => FlagInv'
<1> SUFFICES ASSUME IInv, FullInv, [Next]_vars PROVE FlagInv'
    OBVIOUS
<1>0. FlagInv /\ db \in Tables /\ disk \in Tables /\ flips \in [Users -> BOOLEAN]
    BY DEF FullInv, TypesInv
<1>a. ASSUME NEW w, NEW v, Same(w, v), NEW u PROVE HoldsFlag(v, u) => HoldsFlag(w, u) /\ v.flag = w.flag
    BY <1>a DEF Same, HoldsFlag
<1>b. ASSUME NEW t \in Tasks, Served(t), UNCHANGED <<flips, raced>>, db'.transliter = db.transliter,
             \A u \in Users : ~HoldsFlag(task'[t], u)
      PROVE  FlagInv'
    BY <1>0, <1>a, <1>b, FlagsKept DEF Served
<1>1. CASE Crash
  <2>1. /\ db' = disk /\ flips' = disk.transliter /\ \A t \in Tasks : task'[t].at = "idle"
    BY <1>1, CrashIdles
  <2> QED BY <2>1 DEF FlagInv, HoldsFlag
<1>2. ASSUME NEW t \in Tasks, Receive(t) \/ Press(t) PROVE FlagInv'
  <2>1. Begun(t) \/ UNCHANGED task
    BY <1>2, BeginSteps
  <2>2. UNCHANGED <<db, flips, raced>>
    BY <1>2, BeginSteps
  <2>3. CASE Begun(t)
    <3>1. \A u \in Users : ~HoldsFlag(task'[t], u)
      BY <2>3 DEF Begun, HoldsFlag
    <3>2. \A o \in Tasks \ {t} : task'[o] = task[o]
      BY <2>3 DEF Begun
    <3> QED BY <1>0, <2>2, <3>1, <3>2, FlagsKept
  <2> QED BY <1>0, <2>1, <2>2, <2>3, FlagsKept
<1>3. ASSUME NEW t \in Tasks, ReadStep(t) PROVE FlagInv'
  <2>1. UNCHANGED <<db, flips, raced>>
    BY <1>3 DEF ReadStep
  <2>2. \A u : HoldsFlag(task'[t], u) =>
          \/ task'[t].flag = db.transliter[u]
          \/ HoldsFlag(task[t], u) /\ task'[t].flag = task[t].flag
    BY <1>3 DEF ReadStep
  <2>3. \A o \in Tasks \ {t} : Same(task[o], task'[o])
    BY <1>3 DEF ReadStep, Served
  <2> QED BY <1>0, <1>a, <2>1, <2>2, <2>3, FlagsKept
<1>4. ASSUME NEW t \in Tasks, Write(t) PROVE FlagInv'
  <2> DEFINE c == task[t].cmd
  <2>1. Served(t) /\ task[t].at = "write" /\ task'[t].at = "commit"
    BY <1>4, WriteServed
  <2>2. \A u \in Users : ~HoldsFlag(task'[t], u)
    BY <2>1 DEF HoldsFlag
  <2>3. CASE c.kind # "transliter"
    BY <1>4, <1>b, <2>1, <2>2, <2>3, Toggles
  <2>4. CASE c.kind = "transliter"
    <3>1. /\ db'.transliter = [db.transliter EXCEPT ![c.target] = ~task[t].flag]
          /\ flips' = [flips EXCEPT ![c.target] = ~flips[c.target]]
          /\ raced' = IF OverlappingToggles(t) = {} THEN raced ELSE raced \cup {c.target}
      BY <1>4, <2>4, Toggles
    <3>2. c.target \in Users
      BY <2>1, WriterProper DEF IsCommand, Writes
    <3>3. db.transliter \in [Users -> BOOLEAN]
      BY <1>0 DEF Tables
    <3>4. HoldsFlag(task[t], c.target)
      BY <2>1, <2>4 DEF HoldsFlag
    <3>5. ASSUME NEW u \in Users \ raced' PROVE u \in Users \ raced /\ db'.transliter[u] = flips'[u]
      <4>1. u \in Users \ raced
        BY <3>1
      <4>2. CASE u = c.target
        <5>1. db.transliter[u] = flips[u] /\ task[t].flag = db.transliter[u]
          BY <1>0, <3>4, <4>1, <4>2 DEF FlagInv
        <5> QED BY <1>0, <3>1, <3>2, <3>3, <4>1, <4>2, <5>1
      <4>3. CASE u # c.target
        BY <1>0, <3>1, <3>3, <4>1, <4>3 DEF FlagInv
      <4> QED BY <4>1, <4>2, <4>3
    <3>6. ASSUME NEW u \in Users \ raced', NEW o \in Tasks, HoldsFlag(task'[o], u)
          PROVE  task'[o].flag = db'.transliter[u]
      <4>1. o # t
        BY <2>2, <3>6
      <4>2. Same(task[o], task'[o])
        BY <2>1, <4>1 DEF Served
      <4>3. HoldsFlag(task[o], u) /\ task'[o].flag = task[o].flag
        BY <1>a, <3>6, <4>2
      <4>4. u # c.target
        <5> SUFFICES ASSUME u = c.target PROVE FALSE
          OBVIOUS
        <5>1. o \in OverlappingToggles(t)
          BY <4>1, <4>3 DEF HoldsFlag, OverlappingToggles
        <5> QED BY <3>1, <3>6, <5>1
      <4>5. task[o].flag = db.transliter[u]
        BY <1>0, <3>5, <3>6, <4>3 DEF FlagInv
      <4> QED BY <3>1, <3>3, <4>3, <4>4, <4>5
    <3> QED BY <3>5, <3>6 DEF FlagInv
  <2> QED BY <2>3, <2>4
<1>5. ASSUME NEW t \in Tasks, Commit(t) PROVE FlagInv'
  <2>1. Served(t) /\ task'[t].at \in {"idle", "log"} /\ UNCHANGED <<db, flips, raced>>
    BY <1>5, CommitServed
  <2> QED BY <1>b, <2>1 DEF HoldsFlag
<1>6. ASSUME NEW t \in Tasks, Log(t) PROVE FlagInv'
  <2>1. /\ Served(t) /\ task'[t].at = "logcommit" /\ UNCHANGED <<flips, raced>>
        /\ db' = [db EXCEPT !.log = Append(@, task[t].cmd)]
    BY <1>6, LogServed
  <2>2. db'.transliter = db.transliter
    BY <1>0, <2>1 DEF Tables
  <2> QED BY <1>b, <2>1, <2>2 DEF HoldsFlag
<1>7. ASSUME NEW t \in Tasks, LogCommit(t) PROVE FlagInv'
  <2>1. Served(t) /\ task'[t].at \in {"idle", "menu"} /\ UNCHANGED <<db, flips, raced>>
    BY <1>7, LogCommitServed
  <2> QED BY <1>b, <2>1 DEF HoldsFlag
<1>8. CASE UNCHANGED vars
    BY <1>0, <1>8 DEF FlagInv, vars, tables, history
<1> QED BY <1>1, <1>2, <1>3, <1>4, <1>5, <1>6, <1>7, <1>8, ReadSteps DEF Next
---------------------------------------------------------------------------
(* The audit log.                                                          *)

\* The columns of user u that rows of other kinds, or about other users, are about.
LEMMA EffectElse ==
    ASSUME NEW s \in Tables, NEW w, w.cmd.kind \in Changing, NEW u \in Users
    PROVE  /\ Effect(s, w).log = s.log
           /\ ~About(w.cmd, {"ban", "unban"}, u) => Effect(s, w).off[u] = s.off[u]
           /\ ~About(w.cmd, {"grant", "revoke"}, u) => Effect(s, w).role[u] = s.role[u]
           /\ ~About(w.cmd, {"alias"}, u) => Effect(s, w).alias[u] = s.alias[u]
<1> DEFINE c == w.cmd
<1>1. CASE c.kind = "ban"
    BY <1>1 DEF Effect, Tables, About
<1>2. CASE c.kind = "unban"
    BY <1>2 DEF Effect, Tables, About
<1>3. CASE c.kind = "alias"
    BY <1>3 DEF Effect, Tables, About
<1>4. CASE c.kind = "transliter"
    BY <1>4 DEF Effect, Tables, About
<1>5. CASE c.kind = "grant"
    BY <1>5 DEF Effect, Tables, About
<1>6. CASE c.kind = "revoke"
    BY <1>6 DEF Effect, Tables, About
<1> QED BY <1>1, <1>2, <1>3, <1>4, <1>5, <1>6 DEF Changing

\* A statement makes what its row will say so.
LEMMA EffectAgrees ==
    ASSUME NEW s \in Tables, NEW w, IsCommand(w.cmd), NEW kinds \in RowKinds, w.cmd.kind \in kinds
    PROVE  Agrees(Effect(s, w), w.cmd)
<1> DEFINE c == w.cmd
<1>0. c.target \in Users
    BY DEF IsCommand
<1>1. CASE c.kind = "ban"
    BY <1>0, <1>1 DEF Effect, Tables, Agrees
<1>2. CASE c.kind = "unban"
    BY <1>0, <1>2 DEF Effect, Tables, Agrees
<1>3. CASE c.kind = "alias"
    BY <1>0, <1>3 DEF Effect, Tables, Agrees
<1>5. CASE c.kind = "grant"
    BY <1>0, <1>5 DEF Effect, Tables, Agrees
<1>6. CASE c.kind = "revoke"
    BY <1>0, <1>6 DEF Effect, Tables, Agrees
<1> QED BY <1>1, <1>2, <1>3, <1>5, <1>6 DEF RowKinds

\* What rows of these kinds about user u say depends on one column only.
LEMMA AgreesBy ==
    ASSUME NEW s, NEW r, NEW kinds \in RowKinds, NEW u, NEW row, About(row, kinds, u),
           kinds = {"ban", "unban"} => r.off[u] = s.off[u],
           kinds = {"grant", "revoke"} => r.role[u] = s.role[u],
           kinds = {"alias"} => r.alias[u] = s.alias[u],
           Agrees(s, row)
    PROVE  Agrees(r, row)
<1>1. CASE kinds = {"ban", "unban"}
  <2>1. row.kind \in {"ban", "unban"} /\ row.target = u
    BY <1>1 DEF About
  <2> QED BY <1>1, <2>1 DEF Agrees
<1>2. CASE kinds = {"grant", "revoke"}
  <2>1. row.kind \in {"grant", "revoke"} /\ row.target = u
    BY <1>2 DEF About
  <2> QED BY <1>2, <2>1 DEF Agrees
<1>3. CASE kinds = {"alias"}
  <2>1. row.kind = "alias" /\ row.target = u
    BY <1>3 DEF About
  <2> QED BY <1>3, <2>1 DEF Agrees
<1> QED BY <1>1, <1>2, <1>3 DEF RowKinds

\* A statement about something else leaves what the rows say as it is.
LEMMA EffectTells ==
    ASSUME NEW s \in Tables, NEW w, w.cmd.kind \in Changing, NEW kinds \in RowKinds, NEW u \in Users,
           ~About(w.cmd, kinds, u)
    PROVE  /\ \A row : About(row, kinds, u) /\ Agrees(s, row) => Agrees(Effect(s, w), row)
           /\ LogTells(s, kinds, u) => LogTells(Effect(s, w), kinds, u)
<1>1. \A row : About(row, kinds, u) /\ Agrees(s, row) => Agrees(Effect(s, w), row)
  <2>1. /\ kinds = {"ban", "unban"} => Effect(s, w).off[u] = s.off[u]
        /\ kinds = {"grant", "revoke"} => Effect(s, w).role[u] = s.role[u]
        /\ kinds = {"alias"} => Effect(s, w).alias[u] = s.alias[u]
    BY EffectElse
  <2> QED BY <2>1, AgreesBy
<1>2. Effect(s, w).log = s.log
    BY EffectElse
<1> QED BY <1>1, <1>2 DEF LogTells

\* A row is added to the log.
LEMMA AppendTells ==
    ASSUME NEW s \in Tables, NEW c, NEW r, r = [s EXCEPT !.log = Append(@, c)],
           NEW kinds \in RowKinds, NEW u
    PROVE  /\ \A row : About(row, kinds, u) /\ Agrees(s, row) => Agrees(r, row)
           /\ ~About(c, kinds, u) /\ LogTells(s, kinds, u) => LogTells(r, kinds, u)
           /\ About(c, kinds, u) /\ Agrees(s, c) => LogTells(r, kinds, u)
<1> DEFINE n == Len(s.log)
<1>1. r.off = s.off /\ r.role = s.role /\ r.alias = s.alias /\ r.log = Append(s.log, c)
    BY DEF Tables
<1>2. \A row : About(row, kinds, u) /\ Agrees(s, row) => Agrees(r, row)
    BY <1>1, AgreesBy
<1>3. n \in Nat /\ DOMAIN s.log = 1..n
    BY DEF Tables
<1>4. DOMAIN r.log = 1..(n + 1) /\ r.log[n + 1] = c /\ \A i \in 1..n : r.log[i] = s.log[i]
  <2>1. PICK S : s.log \in Seq(S)
    BY DEF Tables
  <2> QED BY <1>1, <2>1
<1> HIDE DEF n
<1>5. ASSUME ~About(c, kinds, u), LogTells(s, kinds, u) PROVE LogTells(r, kinds, u)
  <2> SUFFICES ASSUME NEW i \in DOMAIN r.log, About(r.log[i], kinds, u),
                      \A j \in DOMAIN r.log : i < j => ~About(r.log[j], kinds, u)
               PROVE  Agrees(r, r.log[i])
    BY DEF LogTells
  <2>1. i \in 1..n /\ r.log[i] = s.log[i]
    BY <1>3, <1>4, <1>5
  <2>2. \A j \in DOMAIN s.log : i < j => ~About(s.log[j], kinds, u)
    BY <1>3, <1>4
  <2>3. Agrees(s, s.log[i])
    BY <1>3, <1>5, <2>1, <2>2 DEF LogTells
  <2> QED BY <1>2, <2>1, <2>3
<1>6. ASSUME About(c, kinds, u), Agrees(s, c) PROVE LogTells(r, kinds, u)
  <2> SUFFICES ASSUME NEW i \in DOMAIN r.log,
                      \A j \in DOMAIN r.log : i < j => ~About(r.log[j], kinds, u)
               PROVE  i = n + 1
    BY <1>2, <1>4, <1>6 DEF LogTells
  <2>1. n + 1 \in DOMAIN r.log
    BY <1>3, <1>4
  <2> QED BY <1>3, <1>4, <1>6, <2>1
<1> QED BY <1>2, <1>5, <1>6

\* How a step orders the requests.
LEMMA ServedOrder ==
    ASSUME LineInv, NEW t \in Tasks, Served(t)
    PROVE  /\ \A a, o : a # t /\ o # t /\ Before(line', a, o) => Before(line, a, o)
           /\ \A o : ~Before(line', t, o)
           /\ \A o \in Busy : o # t => Before(line, t, o)
<1>1. line \in Seq(Tasks) /\ line # <<>> /\ Distinct(line) /\ Head(line) = t /\ Members(line) = Busy
    BY DEF LineInv, Served
<1>2. line' = Tail(line) \/ line' = Append(Tail(line), Head(line))
    BY DEF Served
<1> QED BY <1>1, <1>2, Rotation

LEMMA BegunOrder ==
    ASSUME LineInv, NEW t \in Tasks, Begun(t)
    PROVE  \A a, o : o # t /\ Before(line', a, o) => Before(line, a, o)
<1>1. line \in Seq(Tasks) /\ Distinct(line) /\ line' = Append(line, t) /\ t \notin Members(line)
    BY DEF LineInv, Begun, Busy
<1> QED BY <1>1, Joining

\* A step that leaves the unlogged statements and their order alone.
LEMMA LogKept ==
    ASSUME NEW kinds, NEW u, LogInv(kinds, u), NEW P, P = Unlogged(kinds, u), Unlogged(kinds, u)' = P,
           \A t \in P : task'[t].cmd = task[t].cmd,
           \A t, o \in P : o # t /\ Ahead(line', o, t, task'[o], task'[t]) =>
               Ahead(line, o, t, task[o], task[t]),
           \A row : About(row, kinds, u) /\ Agrees(db, row) => Agrees(db', row),
           LogTells(db, kinds, u) => LogTells(db', kinds, u)
    PROVE  LogInv(kinds, u)'
<1>1. P = {} => LogTells(db', kinds, u)
    BY DEF LogInv
<1>2. ASSUME NEW t \in P,
             \A o \in P : o = t \/ Ahead(line', o, t, task'[o], task'[t])
      PROVE  Agrees(db', task'[t].cmd)
  <2>1. \A o \in P : o = t \/ Ahead(line, o, t, task[o], task[t])
    BY <1>2
  <2>2. Agrees(db, task[t].cmd)
    BY <2>1 DEF LogInv
  <2>3. About(task[t].cmd, kinds, u)
    BY DEF Unlogged
  <2> QED BY <2>2, <2>3
<1> QED BY <1>1, <1>2 DEF LogInv

\* The step of a task that is not one of them, before it and after it.
LEMMA ServedElse ==
    ASSUME LineInv, NEW t \in Tasks, Served(t), NEW kinds, NEW u, LogInv(kinds, u),
           t \notin Unlogged(kinds, u), t \notin Unlogged(kinds, u)',
           \A row : About(row, kinds, u) /\ Agrees(db, row) => Agrees(db', row),
           LogTells(db, kinds, u) => LogTells(db', kinds, u)
    PROVE  LogInv(kinds, u)'
<1>1. \A o \in Tasks \ {t} : task'[o].at = task[o].at /\ task'[o].cmd = task[o].cmd
    BY ServedOther
<1>2. Unlogged(kinds, u)' = Unlogged(kinds, u)
    BY <1>1 DEF Unlogged
<1>3. \A o \in Unlogged(kinds, u) : o \in Tasks \ {t}
    BY DEF Unlogged
<1>4. \A a, o \in Unlogged(kinds, u) :
        Ahead(line', o, a, task'[o], task'[a]) => Ahead(line, o, a, task[o], task[a])
    BY <1>1, <1>3, ServedOrder DEF Ahead
<1>5. \A o \in Unlogged(kinds, u) : task'[o].cmd = task[o].cmd
    BY <1>1, <1>3
<1> QED BY <1>2, <1>4, <1>5, LogKept
\* The statement is run: it is the last one of those that are not logged.
LEMMA WriteLog ==
    ASSUME IInv, FullInv, NEW t \in Tasks, Write(t), NEW kinds \in RowKinds, NEW u \in Users,
           LogInv(kinds, u)
    PROVE  LogInv(kinds, u)'
<1>0. LineInv /\ db \in Tables
    BY DEF FullInv, TypesInv
<1>1. /\ Served(t) /\ task[t].at = "write" /\ task'[t].at = "commit" /\ task'[t].cmd = task[t].cmd
      /\ db' = Effect(db, task[t])
    BY WriteServed
<1>2. IsCommand(task[t].cmd) /\ task[t].cmd.kind \in Changing
    BY <1>1, WriterProper DEF Writes
<1>3. CASE ~About(task[t].cmd, kinds, u)
  <2>1. t \notin Unlogged(kinds, u) /\ t \notin Unlogged(kinds, u)'
    BY <1>1, <1>3 DEF Unlogged
  <2> QED BY <1>0, <1>1, <1>2, <1>3, <2>1, EffectTells, ServedElse
<1>4. CASE About(task[t].cmd, kinds, u)
  <2>1. t \in Unlogged(kinds, u)'
    BY <1>1, <1>4 DEF Unlogged
  <2>2. Agrees(db', task'[t].cmd)
    BY <1>0, <1>1, <1>2, <1>4, EffectAgrees DEF About
  <2>3. \A o : ~Ahead(line', t, o, task'[t], task'[o])
    BY <1>0, <1>1, ServedOrder DEF Ahead
  <2>4. ASSUME NEW x \in Unlogged(kinds, u)',
               \A o \in Unlogged(kinds, u)' : o = x \/ Ahead(line', o, x, task'[o], task'[x])
        PROVE  x = t
    BY <2>1, <2>3, <2>4
  <2> QED BY <2>1, <2>2, <2>4 DEF LogInv
<1> QED BY <1>3, <1>4

\* The statement is committed and its row is next: the order stays.
LEMMA CommitLog ==
    ASSUME IInv, FullInv, NEW t \in Tasks, Commit(t), NEW kinds \in RowKinds, NEW u \in Users,
           LogInv(kinds, u)
    PROVE  LogInv(kinds, u)'
<1> DEFINE P == Unlogged(kinds, u)
<1>0. LineInv
    BY DEF FullInv
<1>1. /\ Served(t) /\ task[t].at = "commit"
      /\ task'[t].at = IF task[t].cmd.kind = "transliter" THEN "idle" ELSE "log"
      /\ db' = db
    BY CommitServed
<1>2. CASE ~About(task[t].cmd, kinds, u)
  <2>1. task'[t].at = "idle" \/ task'[t].cmd = task[t].cmd
    BY <1>1 DEF Served
  <2>2. t \notin P /\ t \notin P'
    BY <1>1, <1>2, <2>1 DEF Unlogged
  <2> QED BY <1>0, <1>1, <2>2, ServedElse
<1>3. CASE About(task[t].cmd, kinds, u)
  <2>1. task'[t].at = "log" /\ task'[t].cmd = task[t].cmd
    BY <1>1, <1>3 DEF About, RowKinds, Served
  <2>2. \A o \in Tasks \ {t} : task'[o].at = task[o].at /\ task'[o].cmd = task[o].cmd
    BY <1>1, ServedOther
  <2>3. P' = P
    BY <1>1, <1>3, <2>1, <2>2 DEF Unlogged
  <2>4. /\ \A a, o : a # t /\ o # t /\ Before(line', a, o) => Before(line, a, o)
        /\ \A o : ~Before(line', t, o)
        /\ \A o \in Busy : o # t => Before(line, t, o)
    BY <1>0, <1>1, ServedOrder
  <2>5. \A o \in P : o \in Busy /\ o \in Tasks /\ task[o].at \in {"commit", "log"}
    BY DEF Unlogged, Busy
  <2>6. ASSUME NEW x \in P, NEW o \in P, o # x, Ahead(line', o, x, task'[o], task'[x])
        PROVE  Ahead(line, o, x, task[o], task[x])
    <3>1. CASE o = t
      BY <1>1, <2>1, <2>2, <2>4, <2>5, <2>6, <3>1 DEF Ahead
    <3>2. CASE x = t
      BY <1>1, <2>1, <2>2, <2>4, <2>5, <2>6, <3>2 DEF Ahead
    <3>3. CASE o # t /\ x # t
      BY <2>2, <2>4, <2>5, <2>6, <3>3 DEF Ahead
    <3> QED BY <3>1, <3>2, <3>3
  <2>7. \A o \in P : task'[o].cmd = task[o].cmd
    BY <2>1, <2>2, <2>5
  <2> HIDE DEF P
  <2>8. Unlogged(kinds, u)' = P
    BY <2>3 DEF P
  <2> QED BY <1>1, <2>6, <2>7, <2>8, LogKept DEF P
<1> QED BY <1>2, <1>3

\* The row is written: of the statements that are not logged it was the first one's.
LEMMA LogLog ==
    ASSUME IInv, FullInv, NEW t \in Tasks, Log(t), NEW kinds \in RowKinds, NEW u \in Users,
           LogInv(kinds, u)
    PROVE  LogInv(kinds, u)'
<1> DEFINE P == Unlogged(kinds, u)
           c == task[t].cmd
<1>0. LineInv /\ db \in Tables
    BY DEF FullInv, TypesInv
<1>1. /\ Served(t) /\ task[t].at = "log" /\ task'[t].at = "logcommit"
      /\ db' = [db EXCEPT !.log = Append(@, c)]
    BY LogServed
<1>2. t \notin P'
    BY <1>1 DEF Unlogged
<1>3. /\ \A row : About(row, kinds, u) /\ Agrees(db, row) => Agrees(db', row)
      /\ ~About(c, kinds, u) /\ LogTells(db, kinds, u) => LogTells(db', kinds, u)
      /\ About(c, kinds, u) /\ Agrees(db, c) => LogTells(db', kinds, u)
    BY <1>0, <1>1, AppendTells, SMTT(60)
<1>4. CASE ~About(c, kinds, u)
  <2>1. t \notin P
    BY <1>4 DEF Unlogged
  <2> QED BY <1>0, <1>1, <1>2, <1>3, <1>4, <2>1, ServedElse
<1>5. CASE About(c, kinds, u)
  <2>1. t \in P
    BY <1>1, <1>5 DEF Unlogged
  <2>2. \A o \in Tasks \ {t} : task'[o].at = task[o].at /\ task'[o].cmd = task[o].cmd
    BY <1>1, ServedOther
  <2>3. P' = P \ {t}
    BY <1>2, <2>2 DEF Unlogged
  <2>4. /\ \A a, o : a # t /\ o # t /\ Before(line', a, o) => Before(line, a, o)
        /\ \A o \in Busy : o # t => Before(line, t, o)
    BY <1>0, <1>1, ServedOrder
  <2>5. \A o \in P : o \in Busy /\ o \in Tasks /\ task[o].at \in {"commit", "log"}
    BY DEF Unlogged, Busy
  <2>6. \A o \in P \ {t} : Ahead(line, t, o, task[t], task[o])
    BY <1>1, <2>4, <2>5 DEF Ahead
  <2>7. ASSUME P' = {} PROVE LogTells(db', kinds, u)
    <3>1. \A o \in P : o = t
      BY <2>3, <2>7
    <3>2. Agrees(db, c)
      BY <2>1, <3>1 DEF LogInv
    <3> QED BY <1>3, <1>5, <3>2
  <2>8. ASSUME NEW x \in P',
               \A o \in P' : o = x \/ Ahead(line', o, x, task'[o], task'[x])
        PROVE  Agrees(db', task'[x].cmd)
    <3>1. x \in P /\ x # t /\ task'[x].cmd = task[x].cmd
      BY <2>2, <2>3, <2>5, <2>8
    <3>2. ASSUME NEW o \in P PROVE o = x \/ Ahead(line, o, x, task[o], task[x])
      <4>1. CASE o = t
        BY <2>6, <3>1, <4>1
      <4>2. CASE o # t /\ o # x
        <5>1. Ahead(line', o, x, task'[o], task'[x])
          BY <2>3, <2>8, <4>2
        <5> QED BY <2>2, <2>4, <2>5, <3>1, <4>2, <5>1 DEF Ahead
      <4> QED BY <4>1, <4>2
    <3>3. Agrees(db, task[x].cmd) /\ About(task[x].cmd, kinds, u)
      BY <3>1, <3>2 DEF LogInv, Unlogged
    <3> QED BY <1>3, <3>1, <3>3
  <2> QED BY <2>7, <2>8 DEF LogInv
<1> QED BY <1>4, <1>5

\* Of what a crash finds unsettled it notes that it was interrupted.
LEMMA CrashTold ==
    ASSUME ToldInv, Crash, NEW kinds \in RowKinds, NEW u \in Users
    PROVE  Interrupted(kinds, u)' \/ (LogInv(kinds, u)' /\ DiskInv(kinds, u)')
<1>1. /\ db' = disk /\ disk' = disk /\ \A t \in Tasks : task'[t].at = "idle"
      /\ interrupted' = interrupted \cup
           {<<task[t].cmd.kind, task[t].cmd.target>> :
               t \in {o \in Tasks : task[o].at \in {"commit", "log", "logcommit"}}}
    BY CrashIdles
<1>2. CASE Interrupted(kinds, u)
  <2>1. Interrupted(kinds, u)'
    BY <1>1, <1>2 DEF Interrupted
  <2> QED BY <2>1
<1>3. CASE Unsettled(kinds, u) # {}
  <2>1. PICK t \in Tasks : task[t].at \in {"commit", "log", "logcommit"} /\ About(task[t].cmd, kinds, u)
    BY <1>3 DEF Unsettled, Writes
  <2>2. <<task[t].cmd.kind, u>> \in interrupted' /\ task[t].cmd.kind \in kinds
    BY <1>1, <2>1 DEF About
  <2>3. Interrupted(kinds, u)'
    BY <2>2 DEF Interrupted
  <2> QED BY <2>3
<1>4. CASE ~Interrupted(kinds, u) /\ Unsettled(kinds, u) = {}
  <2>1. LogTells(disk, kinds, u)
    BY <1>4 DEF ToldInv, DiskInv
  <2>2. Unlogged(kinds, u)' = {}
    BY <1>1 DEF Unlogged
  <2>3. LogInv(kinds, u)' /\ DiskInv(kinds, u)'
    BY <1>1, <2>1, <2>2 DEF LogInv, DiskInv
  <2> QED BY <2>3
<1> QED BY <1>2, <1>3, <1>4

LEMMA NextTold == IInv /\ FullInv /\ [Next]_vars => ToldInv'
<1> SUFFICES ASSUME IInv, FullInv, [Next]_vars, NEW kinds \in RowKinds, NEW u \in Users
             PROVE  Interrupted(kinds, u)' \/ (LogInv(kinds, u)' /\ DiskInv(kinds, u)')
    BY DEF ToldInv
<1>0. LineInv /\ ToldInv
    BY DEF FullInv
<1>1. CASE Crash
    BY <1>0, <1>1, CrashTold
<1>2. CASE Interrupted(kinds, u) /\ interrupted' = interrupted
  <2>1. Interrupted(kinds, u)'
    BY <1>2 DEF Interrupted
  <2> QED BY <2>1
<1>3. SUFFICES ASSUME ~Interrupted(kinds, u) \/ interrupted' # interrupted, ~Crash
               PROVE  Interrupted(kinds, u)' \/ (LogInv(kinds, u)' /\ DiskInv(kinds, u)')
    BY <1>1, <1>2
<1>4. interrupted' = interrupted => LogInv(kinds, u) /\ DiskInv(kinds, u)
    BY <1>0, <1>3 DEF ToldInv
\* What is on disk stays as it is, and so does what is unsettled of it.
<1>a. ASSUME disk' = disk, interrupted' = interrupted,
             \A o \in Unsettled(kinds, u) : task'[o].cmd = task[o].cmd /\ task'[o].at \in Writes \ {"write"}
      PROVE  DiskInv(kinds, u)'
  <2>1. Unsettled(kinds, u)' = {} => Unsettled(kinds, u) = {}
    BY <1>a DEF Unsettled
  <2> QED BY <1>4, <1>a, <2>1 DEF DiskInv
\* The tables are made durable.
<1>b. ASSUME disk' = db', LogInv(kinds, u)' PROVE DiskInv(kinds, u)'
  <2>1. Unsettled(kinds, u)' = {} => Unlogged(kinds, u)' = {}
    BY DEF Unsettled, Unlogged, Writes
  <2> QED BY <1>b, <2>1 DEF LogInv, DiskInv
<1>5. ASSUME NEW t \in Tasks, Receive(t) \/ Press(t) PROVE LogInv(kinds, u)' /\ DiskInv(kinds, u)'
  <2>1. UNCHANGED <<db, disk, interrupted>> /\ (Begun(t) \/ UNCHANGED <<task, line>>)
    BY <1>5, BeginSteps
  <2>2. CASE Begun(t)
    <3>1. \A o \in Tasks \ {t} : task'[o] = task[o]
      BY <2>2 DEF Begun
    <3>2. task[t].at = "idle" /\ task'[t].at \notin {"commit", "log", "logcommit"}
      BY <2>2 DEF Begun, Reads
    <3>3. Unlogged(kinds, u)' = Unlogged(kinds, u)
      BY <3>1, <3>2 DEF Unlogged
    <3>4. \A o \in Unlogged(kinds, u) : o \in Tasks \ {t}
      BY <3>2 DEF Unlogged
    <3>5. \A a, o \in Unlogged(kinds, u) :
            Ahead(line', o, a, task'[o], task'[a]) => Ahead(line, o, a, task[o], task[a])
      BY <1>0, <2>2, <3>1, <3>4, BegunOrder DEF Ahead
    <3>6. LogInv(kinds, u)'
      BY <1>4, <2>1, <3>1, <3>3, <3>4, <3>5, LogKept
    <3>7. \A o \in Unsettled(kinds, u) : o \in Tasks \ {t} /\ task[o].at \in Writes \ {"write"}
      BY <3>2 DEF Unsettled, Writes
    <3> QED BY <1>a, <2>1, <3>1, <3>6, <3>7
  <2>3. CASE UNCHANGED <<task, line>>
    BY <1>4, <2>1, <2>3 DEF LogInv, DiskInv, Unlogged, Unsettled
  <2> QED BY <2>1, <2>2, <2>3
<1>6. ASSUME NEW t \in Tasks, ReadStep(t) PROVE LogInv(kinds, u)' /\ DiskInv(kinds, u)'
  <2>1. /\ Served(t) /\ UNCHANGED <<db, disk, interrupted>>
        /\ task[t].at \in Reads /\ task'[t].at \in {"idle", "write"} \cup Reads
    BY <1>6 DEF ReadStep
  <2>2. t \notin Unlogged(kinds, u) /\ t \notin Unlogged(kinds, u)'
    BY <2>1 DEF Unlogged, Reads
  <2>3. LogInv(kinds, u)'
    BY <1>0, <1>4, <2>1, <2>2, ServedElse
  <2>4. \A o \in Unsettled(kinds, u) : o \in Tasks \ {t} /\ task[o].at \in Writes \ {"write"}
    BY <2>1 DEF Unsettled, Writes, Reads
  <2> QED BY <1>a, <2>1, <2>3, <2>4, ServedOther
<1>7. ASSUME NEW t \in Tasks, Write(t) PROVE LogInv(kinds, u)' /\ DiskInv(kinds, u)'
  <2>1. /\ Served(t) /\ task[t].at = "write" /\ UNCHANGED <<disk, interrupted>>
    BY <1>7, WriteServed
  <2>2. LogInv(kinds, u)'
    BY <1>4, <1>7, <2>1, WriteLog
  <2>3. \A o \in Unsettled(kinds, u) : o \in Tasks \ {t} /\ task[o].at \in Writes \ {"write"}
    BY <2>1 DEF Unsettled
  <2> QED BY <1>a, <2>1, <2>2, <2>3, ServedOther
<1>8. ASSUME NEW t \in Tasks, Commit(t) PROVE LogInv(kinds, u)' /\ DiskInv(kinds, u)'
  <2>1. disk' = db /\ db' = db /\ interrupted' = interrupted
    BY <1>8, CommitServed
  <2>2. LogInv(kinds, u)'
    BY <1>4, <1>8, <2>1, CommitLog
  <2> QED BY <1>b, <2>1, <2>2
<1>9. ASSUME NEW t \in Tasks, Log(t) PROVE LogInv(kinds, u)' /\ DiskInv(kinds, u)'
  <2>1. /\ Served(t) /\ task[t].at = "log" /\ task'[t].at = "logcommit"
        /\ UNCHANGED <<disk, interrupted>>
    BY <1>9, LogServed
  <2>2. LogInv(kinds, u)'
    BY <1>4, <1>9, <2>1, LogLog
  <2>3. task'[t].cmd = task[t].cmd
    BY <2>1 DEF Served
  <2>4. \A o \in Unsettled(kinds, u) : o \in Tasks /\ task[o].at \in Writes \ {"write"}
    BY DEF Unsettled
  <2>5. \A o \in Unsettled(kinds, u) : task'[o].cmd = task[o].cmd /\ task'[o].at \in Writes \ {"write"}
    BY <2>1, <2>3, <2>4, ServedOther DEF Writes
  <2> QED BY <1>a, <2>1, <2>2, <2>5
<1>10. ASSUME NEW t \in Tasks, LogCommit(t) PROVE LogInv(kinds, u)' /\ DiskInv(kinds, u)'
  <2>1. /\ Served(t) /\ task[t].at = "logcommit" /\ task'[t].at \in {"idle", "menu"}
        /\ disk' = db /\ UNCHANGED <<db, interrupted>>
    BY <1>10, LogCommitServed
  <2>2. t \notin Unlogged(kinds, u) /\ t \notin Unlogged(kinds, u)'
    BY <2>1 DEF Unlogged
  <2>3. LogInv(kinds, u)'
    BY <1>0, <1>4, <2>1, <2>2, ServedElse
  <2> QED BY <1>b, <2>1, <2>3
<1>11. CASE UNCHANGED vars
  <2>1. UNCHANGED <<db, disk, task, line, interrupted>>
    BY <1>11 DEF vars, tables, history
  <2> QED BY <1>4, <2>1 DEF LogInv, DiskInv, Unlogged, Unsettled
<1> QED BY <1>3, <1>5, <1>6, <1>7, <1>8, <1>9, <1>10, <1>11, ReadSteps DEF Next

LEMMA NextDurable == IInv /\ FullInv /\ [Next]_vars => Durable'
<1> SUFFICES ASSUME IInv, FullInv, [Next]_vars PROVE Durable'
    OBVIOUS
<1>0. Durable
    BY DEF FullInv
<1>a. ASSUME NEW t \in Tasks, Served(t), task[t].at \notin {"commit", "logcommit"},
             UNCHANGED <<db, disk>>
      PROVE  Durable'
    BY <1>0, <1>a, ServedOther DEF Durable
<1>1. CASE Crash
    BY <1>1, CrashIdles DEF Durable
<1>2. ASSUME NEW t \in Tasks, Receive(t) \/ Press(t) PROVE Durable'
  <2>1. UNCHANGED <<db, disk>> /\ (Begun(t) \/ UNCHANGED <<task, line>>)
    BY <1>2, BeginSteps
  <2> QED BY <1>0, <2>1 DEF Durable, Begun
<1>3. ASSUME NEW t \in Tasks, ReadStep(t) PROVE Durable'
    BY <1>3, <1>a DEF ReadStep, Reads
<1>4. ASSUME NEW t \in Tasks, Write(t) PROVE Durable'
    BY <1>4, WriteServed DEF Durable
<1>5. ASSUME NEW t \in Tasks, Commit(t) PROVE Durable'
    BY <1>5, CommitServed DEF Durable
<1>6. ASSUME NEW t \in Tasks, Log(t) PROVE Durable'
    BY <1>6, LogServed DEF Durable
<1>7. ASSUME NEW t \in Tasks, LogCommit(t) PROVE Durable'
    BY <1>7, LogCommitServed DEF Durable
<1>8. CASE UNCHANGED vars
    BY <1>0, <1>8 DEF Durable, vars, tables
<1> QED BY <1>1, <1>2, <1>3, <1>4, <1>5, <1>6, <1>7, <1>8, ReadSteps DEF Next
LEMMA InitFull == Init => FullInv
<1> SUFFICES ASSUME Init PROVE FullInv
    OBVIOUS
<1>1. /\ db = [role |-> InitialRole, off |-> [u \in Users |-> FALSE],
               alias |-> [u \in Users |-> NoAlias], transliter |-> [u \in Users |-> FALSE],
               log |-> <<>>]
      /\ disk = db /\ line = <<>> /\ buttons = {} /\ updates = 0 /\ crashes = 0
      /\ flips = [u \in Users |-> FALSE]
      /\ \A t \in Tasks : task[t].at = "idle"
    BY DEF Init, Idle
<1>2. db \in Tables
    BY <1>1, ModerationAssumption DEF Tables
<1>3. TypesInv
    BY <1>1, <1>2, ModerationAssumption DEF TypesInv, Proper, Writes
<1>4. LineInv
  <2>1. Busy = {}
    BY <1>1 DEF Busy
  <2> QED BY <1>1, <2>1, FS_EmptySet DEF LineInv, Distinct, Members
<1>5. PagesInv /\ FlagInv
    BY <1>1 DEF PagesInv, Paged, FlagInv, HoldsFlag
<1>6. ToldInv
    BY <1>1 DEF ToldInv, LogInv, DiskInv, Unlogged, LogTells
<1>7. Durable
    BY <1>1 DEF Durable
<1> QED BY <1>3, <1>4, <1>5, <1>6, <1>7 DEF FullInv

LEMMA FullInvariant == Spec => [](IInv /\ FullInv)
<1>1. IInv /\ FullInv /\ [Next]_vars => (IInv /\ FullInv)'
    BY NextTables, NextTasks, NextPublished, NextTypes, NextLine, NextPages, NextFlags, NextTold,
       NextDurable, Zenon DEF IInv, FullInv
<1> QED BY <1>1, InitModeration, InitFull, PTL DEF Spec

\* Every variable keeps its type, and a task is at work exactly while one request of it is in the
\* line: no task starves, none is served twice for one await.
THEOREM ModerationTypes == Spec => []TypeOK
<1>1. IInv /\ FullInv => TypeOK
    BY DEF FullInv, TypesInv, Proper, LineInv, Members, Busy, TypeOK
<1> QED BY <1>1, FullInvariant, PTL

\* With no handler at work, everything written is durable and the audit log, read in its order, tells
\* the state of the tables, whatever commands interleaved: they are logged in the order they took
\* effect.
THEOREM ModerationLog == Spec => []LogTellsTables
<1>1. FullInv => LogTellsTables
  <2> SUFFICES ASSUME FullInv, AtRest
               PROVE  /\ db = disk
                      /\ \A kinds \in RowKinds, u \in Users :
                           Interrupted(kinds, u) \/ LogTells(db, kinds, u)
    BY DEF LogTellsTables
  <2>1. db = disk
    BY DEF FullInv, Durable, AtRest
  <2>2. \A kinds, u : Unlogged(kinds, u) = {}
    BY DEF AtRest, Unlogged
  <2> QED BY <2>1, <2>2 DEF FullInv, ToldInv, LogInv
<1> QED BY <1>1, FullInvariant, PTL

\* Every toggle flips, but for two of one user that overlap.
THEOREM ModerationToggles == Spec => []TogglesCount
<1>1. FullInv => TogglesCount
    BY DEF FullInv, FlagInv, TogglesCount
<1> QED BY <1>1, FullInvariant, PTL

\* No page of the audit log is read empty while there are rows, whatever was logged since its number
\* was worked out.
THEOREM ModerationPages == Spec => PageNotBlank
<1>1. IInv /\ FullInv /\ [Next]_vars =>
        [\A t \in Tasks :
           task[t].at = "page" /\ task'[t].at = "page" /\ task'[t].open # task[t].open
             /\ db.log # <<>> => task'[t].number > 0]_vars
  <2> SUFFICES ASSUME IInv, FullInv, [Next]_vars, NEW t \in Tasks, task[t].at = "page",
                      task'[t].at = "page", task'[t].open # task[t].open, db.log # <<>>
               PROVE  task'[t].number > 0
    OBVIOUS
  <2>1. Select(t)
    <3>1. \A o \in Tasks : Served(o) => o = t
      BY ServedOther
    <3>2. ~Crash
      BY CrashIdles
    <3>3. \A o \in Tasks : ~(Receive(o) \/ Press(o))
      BY BeginSteps DEF Begun
    <3>4. task' # task
      OBVIOUS
    <3>5. Handle(t)
      <4>1. PICK o \in Tasks : Handle(o)
        BY <3>2, <3>3, <3>4 DEF Next, vars
      <4> QED BY <3>1, <4>1, HandleServed
    <3>6. \A from : Serves(t, from) => from = "page"
      BY DEF Serves
    <3>7. ~Goto(t, "idle") \/ ~Serves(t, "page")
      BY GotoServed
    <3> QED
      BY <3>5, <3>6, <3>7, Zenon
      DEF Handle, Checked, RightsRead, TargetRead, FlagRead, Listed, DisabledRead, SettingsRead,
          Counted, PageRead, Write, Written, Commit, Log, LogCommit
  <2>2. task'[t].number = Cardinality(RowsOn(task[t].page))
    <3> DEFINE u == task[t]
               w == [u EXCEPT !.open = TRUE, !.number = Number(u), !.flag = Flag(u), !.name = Name(u)]
    <3>1. task' = [task EXCEPT ![t] = w]
      BY <2>1 DEF Select
    <3>2. DOMAIN task = Tasks /\ DOMAIN u = Fields
      BY DEF IInv, TasksFit, Fits
    <3>3. w.number = Number(u)
      BY <3>2 DEF Fields
    <3>4. task'[t] = w
      BY <3>1, <3>2
    <3> HIDE DEF w
    <3> QED BY <3>3, <3>4 DEF Number
  <2>3. db.log \in Seq(Commands) /\ Len(db.log) \in Nat /\ Len(db.log) > 0
    BY DEF FullInv, TypesInv, Tables
  <2>4. task[t].page \in Nat \ {0} /\ (task[t].page - 1) * PageSize < Len(db.log)
    <3>1. /\ task[t].page \in Nat \ {0}
          /\ task[t].page = 1 \/ (task[t].page - 1) * PageSize < Len(db.log)
      BY DEF FullInv, PagesInv, Paged
    <3>2. (1 - 1) * PageSize = 0
      BY ModerationAssumption
    <3> QED BY <2>3, <3>1, <3>2
  <2> QED BY <2>2, <2>3, <2>4, RowsThere
<1> QED BY <1>1, FullInvariant, PTL DEF Spec, PageNotBlank
=============================================================================
