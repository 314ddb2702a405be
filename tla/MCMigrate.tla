----------------------------- MODULE MCMigrate -----------------------------
(***************************************************************************)
(* Small instances of Migrate for TLC.                                     *)
(***************************************************************************)
EXTENDS Migrate

CONSTANTS v1, v2, r1, r2

\* A main line whose branches each add or edit a file: the full checkout,
\* the one that only has the later file, the one with an edited second file.
BranchTrees ==
  {<<v1, v1, None>>, <<None, v1, None>>, <<v1, v2, None>>}

\* The checkouts of a merge that lands early files late.
MergeTrees == {<<v1, v1, v1>>, <<None, None, v1>>, <<v1, None, v1>>}

\* A replica that migrates at boot (r1) and the command line (r2), on
\* diverging checkouts; the same with resets; one operator and a late merge.
Deployments ==
  {[runners |-> {r1, r2}, kinds |-> {"apply", "status", "dryRun"},
    trees |-> BranchTrees],
   [runners |-> {r1, r2}, kinds |-> {"apply", "reset"}, trees |-> BranchTrees],
   [runners |-> {r2}, kinds |-> {"apply", "status", "dryRun"},
    trees |-> MergeTrees]}

\* Two replicas of one checkout; one of them alone.
Replicas == {[runners |-> {r1, r2}, kinds |-> {"apply"},
              trees |-> {<<v1, v1>>}]}
OneReplica == {[runners |-> {r1}, kinds |-> {"apply"}, trees |-> {<<v1, v1>>}]}
=============================================================================
