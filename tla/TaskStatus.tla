----------------------------- MODULE TaskStatus -----------------------------
(***************************************************************************)
(* The two status columns of a task row.  Column `status` keeps the four   *)
(* v1 values, column `status_v2` the seven v2 values, and every write that *)
(* goes through the v2 update endpoint derives one from the other with the *)
(* two mappings below.                                                     *)
(***************************************************************************)

StatusV1 == {"NOT_PICKED", "IN_PROGRESS", "COMPLETE", "FAILED"}

StatusV2 == {"QUEUED", "CLAIMED", "RUNNING", "SUCCEEDED", "FAILED",
             "NEEDS_REVIEW", "CANCELLED"}

\* TaskStatusV2.IsTerminal: NEEDS_REVIEW is not terminal.
TerminalV2 == {"SUCCEEDED", "FAILED", "CANCELLED"}

\* The values for which the requeue statements match: WHERE status_v2 IN (..).
ActiveV2 == {"CLAIMED", "RUNNING"}

\* The v1 values after which the finalization statements refuse to write.
FinishedV1 == {"COMPLETE", "FAILED"}

\* MapTaskStatusV1ToV2: FAILED has no case of its own and falls to the default.
MapStatusV1ToV2(s) ==
    CASE s = "IN_PROGRESS" -> "RUNNING"
      [] s = "COMPLETE"    -> "SUCCEEDED"
      [] OTHER             -> "QUEUED"

\* Slip: NEEDS_REVIEW is forgotten.
MapStatusV2ToV1NoReview(s) ==
    CASE s \in ActiveV2   -> "IN_PROGRESS"
      [] s \in TerminalV2 -> "COMPLETE"
      [] OTHER            -> "NOT_PICKED"

\* MapTaskStatusV2ToV1: v2 FAILED becomes v1 COMPLETE, not v1 FAILED.
MapStatusV2ToV1(s) ==
    CASE s \in ActiveV2                             -> "IN_PROGRESS"
      [] s \in TerminalV2 \cup {"NEEDS_REVIEW"}     -> "COMPLETE"
      [] OTHER                                      -> "NOT_PICKED"

\* The status strings the update endpoint accepts and the pair of columns it
\* stores for each: the three v1 names first, then the v2 names ("FAILED" is
\* read as the v2 name).
PatchablePairs ==
    {<<s, MapStatusV1ToV2(s)>> : s \in StatusV1 \ {"FAILED"}}
      \cup {<<MapStatusV2ToV1(s), s>> : s \in StatusV2}
=============================================================================
