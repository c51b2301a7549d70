-------------------------- MODULE MCCommitPipeline --------------------------
(* Small instances of CommitPipeline.                                      *)
EXTENDS CommitPipeline, TLC

CONSTANTS m1, m2, m3, tg, other, n1, n2

\* m1 and m2 come from two chats of one bot, m3 is a relay from node n2.
MCSource == m1 :> tg @@ m2 :> tg @@ m3 :> n2
MCTarget == m1 :> n1 @@ m2 :> n1 @@ m3 :> n1
MCRoom == m1 :> {other} @@ m2 :> {other} @@ m3 :> {}
\* The ids differ, as they do when every chat has its own counter far apart.
MCNativeId == m1 :> 1 @@ m2 :> 2 @@ m3 :> 1
MCConfigs == {{n1, n2}, {n2}}
MCRefused == {}
=============================================================================
