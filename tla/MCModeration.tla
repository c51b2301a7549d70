----------------------------- MODULE MCModeration -----------------------------
(* An owner, an admin and a user; four updates, two of them at a time.  The   *)
(* tasks are interchangeable.                                                *)
EXTENDS Moderation, TLC

CONSTANTS owner, ann, bob, t1, t2, a1

cmd(kind, actor, target, arg) == [kind |-> kind, actor |-> actor, target |-> target, arg |-> arg]

MCInitialRole == owner :> USER @@ ann :> ADMIN @@ bob :> USER

Handlers == Permutations(Tasks)

MCCommands ==
    {cmd("ban", ann, bob, NoAlias), cmd("unban", owner, bob, NoAlias),
     cmd("grant", ann, bob, ADMIN), cmd("grant", owner, bob, ADMIN),
     cmd("grant", ann, bob, MODERATOR), cmd("revoke", owner, bob, NoAlias),
     cmd("revoke", bob, ann, NoAlias), cmd("alias", bob, bob, a1),
     cmd("alias", bob, ann, a1), cmd("alias", owner, bob, NoAlias), cmd("alias", ann, bob, TooLong),
     cmd("transliter", bob, bob, NoAlias), cmd("transliter", ann, bob, NoAlias),
     cmd("text", bob, bob, NoAlias), cmd("audit", ann, ann, NoAlias),
     cmd("banlist", bob, bob, NoAlias), cmd("help", bob, bob, NoAlias)}
=============================================================================
