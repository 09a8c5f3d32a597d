------------------------ MODULE MCCoreWheelPipeline ------------------------
(***************************************************************************)
(* Two runs of one pull request, which changes the pinned revision between *)
(* them, a push to the default branch and a run that warms the caches: up  *)
(* to three of them in a behaviour.  Another pair of a warming run and a   *)
(* push pins a revision whose wheels lack exports.                         *)
(***************************************************************************)
EXTENDS CoreWheelPipeline, TLC

CONSTANTS pr1, pr2, push, warm, badPush, badWarm

EventOf    == (pr1 :> "pull_request") @@ (pr2 :> "pull_request") @@ (push :> "push")
              @@ (warm :> "warm") @@ (badPush :> "push") @@ (badWarm :> "warm")
RefOf      == (pr1 :> "pr") @@ (pr2 :> "pr") @@ (push :> "main") @@ (warm :> "main")
              @@ (badPush :> "main") @@ (badWarm :> "main")
RevisionOf == (pr1 :> "old") @@ (pr2 :> "new") @@ (push :> "old") @@ (warm :> "old")
              @@ (badPush :> "bad") @@ (badWarm :> "bad")
TwoPlatforms == {"Linux", "Windows"}

Scenarios == {{pr1, pr2, warm}, {pr1, push}, {push, warm}, {badPush, badWarm}}

MCInit == Init /\ {r \in Runs : phase[r] = "none"} \in Scenarios

MCSpec == MCInit /\ [][Next]_vars /\ Progressing
=============================================================================
