------------------------ MODULE MCCommitPipelineLive ------------------------
(* CommitPipeline against SerialSender, and under fairness.                *)
EXTENDS CommitPipelineRefinement, TLC

CONSTANTS m1, m2, m3, tg1, tg2, n1

\* Two bots in one room; m3 is a message the admission refuses.
MCSource == m1 :> tg1 @@ m2 :> tg2 @@ m3 :> tg2
MCTarget == m1 :> n1 @@ m2 :> n1 @@ m3 :> n1
MCRoom == m1 :> {tg2} @@ m2 :> {tg1} @@ m3 :> {tg1}
MCNativeId == m1 :> 1 @@ m2 :> 2 @@ m3 :> 3
MCConfigs == {{n1}, {}}
\* A configuration that no restart changes.
SameConfig == {{n1}}

\* Two chats of one bot that happen to be at the same message number.
OneBotSource == m1 :> tg1 @@ m2 :> tg1 @@ m3 :> tg2
OneBotNativeId == m1 :> 7 @@ m2 :> 7 @@ m3 :> 7
=============================================================================
