----------------------------- MODULE MCStudyRun -----------------------------
(* Two programs, two versions of the runtime; prepares, supervisors,       *)
(* children and summaries that fail, are killed, and are started again.    *)
EXTENDS StudySummary

=============================================================================
