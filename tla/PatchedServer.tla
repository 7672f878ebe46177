---------------------------- MODULE PatchedServer ----------------------------
(***************************************************************************)
(* The patch script and the server that is started from what it leaves: runs *)
(* may have ended early or used other flags for some files, so a server can    *)
(* have the speedup of one file and not the one of another.                    *)
(***************************************************************************)
EXTENDS Patcher, SchedulerStep

\* The edits a server finds in its files.
CodeOf(files) ==
    [utilsFast |-> Has(files["utils"], "if num_replicas == 1"),
     utilsSnapshot |-> Has(files["utils"], "if _kv_snapshot"),
     inputsFast |-> Has(files["inputs"], "one pass"),
     managerFast |-> Has(files["block_manager"], "if empty connector metrics"),
     cacheSnapshot |-> Has(files["cache_manager"], "def metrics_snapshot")]
WholePackage == \A f \in Files : pkg[f].whole
RecordsSteps == Has(pkg["utils"], "if _REC_PATH")

vars == <<patcherVars, stepVars>>

Init == PatcherInit /\ StepInit

\* The patch script runs while no server does: a server reads its files when it starts.
PatchStep == phase = "down" /\ PatcherNext /\ UNCHANGED stepVars

\* Python does not import a file that is cut; _rec_append is in utils if that is patched.
StartPatched ==
    /\ ~Running /\ WholePackage
    /\ StartServer(CodeOf(pkg))
    /\ route' = "record" => RecordsSteps
    /\ UNCHANGED patcherVars

ServerStep == Work /\ UNCHANGED patcherVars

Next == PatchStep \/ StartPatched \/ ServerStep

Spec == Init /\ [][Next]_vars

-----------------------------------------------------------------------------
TypeOK == PatcherTypeOK /\ StepTypeOK
=============================================================================
