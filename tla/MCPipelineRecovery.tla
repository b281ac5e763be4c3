------------------------- MODULE MCPipelineRecovery -------------------------
(* One branch and five webhooks: ann breaks it, a pipeline runs and succeeds, *)
(* bob breaks it and it succeeds again.  Any of them may be handled late,     *)
(* twice or at the same time as the others.                                  *)
EXTENDS PipelineRecovery

CONSTANTS main, ann, bob

MCBranch == [w \in 1 .. 5 |-> main]
MCStatus == <<"failed", "running", "success", "failed", "success">>
MCAuthor == <<ann, ann, ann, bob, bob>>
=============================================================================
