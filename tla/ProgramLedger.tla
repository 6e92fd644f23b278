---------------------------- MODULE ProgramLedger ----------------------------
(***************************************************************************)
(* The cleanup of a decided program of the advisor study, and who reads    *)
(* what it leaves.  Each pair of the matrix and each direction of a group  *)
(* may have outputs on disk.  What is no evidence is reclaimed, the ledger *)
(* says of every row what became of its outputs, and the checkpoint, the   *)
(* handoff and the index of artifacts compare the rows, the ledger and the *)
(* disk, again apart from the writer.  A crash within the cleanup, and an  *)
(* output that is stuck between its two places, are in ProgramEvidence.    *)
(***************************************************************************)
EXTENDS ProgramRows

VARIABLE ledger       \* rows, entries and files, once the cleanup is complete

ledgerVars == <<rowVars, ledger>>
NoLedger == [files |-> "all"]

-----------------------------------------------------------------------------
\* The rows with outputs, as the stages left them.

Keys == {<<"pair", p>> : p \in Pairs}
        \cup UNION {{<<"direction", g, a>> : a \in Groups[g]} : g \in DOMAIN Groups}
IsPair(k) == k[1] = "pair"

\* How the runs ended whose outputs the row names.
Ran(k) == IF IsPair(k) THEN {payload.pairs[k[2]].ab, payload.pairs[k[2]].ba}
                       ELSE {payload.groups[k[2]].directions[k[3]].second}

\* The row was typed by the recovery, and says so.
Typed(k) == IF IsPair(k) THEN phase \in {"profiles", "pairs"} ELSE payload.groups[k[2]].limited

\* A pair has both of its outputs or, after _discard_partial_pair_outputs, none.
\* A second round that failed may have left an output, which is kept.
Written(partial) ==
  [k \in Keys |->
     IF Typed(k)
       THEN [path |-> "none", materialized |-> FALSE, cleanup |-> "retained_runtime_budget_exceeded"]
       ELSE [path |-> IF Ran(k) = {"not_run"} /\ ~ IsPair(k) THEN "none" ELSE "stage",
             materialized |-> \/ Ran(k) = {"success"}
                              \/ partial /\ ~ IsPair(k) /\ Ran(k) # {"not_run"},
             cleanup |-> "not_eligible"]]

-----------------------------------------------------------------------------
\* The plan: what is kept, and why.

\* _false_authorization_protection: the pair of every witness, and both of its
\* directions in the group of the witness.
Protected ==
  UNION {{<<"pair", <<c[2], c[3]>>>>, <<"direction", c[1], c[2]>>, <<"direction", c[1], c[3]>>} :
           c \in DOMAIN payload.witnesses}

\* A second round that succeeded had a complete merge to run on.
Plan ==
  LET protected == Protected IN
    [k \in Keys |->
       IF k \in protected THEN "retained_false_authorization"
       ELSE IF Ran(k) # {"success"} THEN "retained_terminal_failure_witness"
       ELSE IF IsPair(k) /\ payload.pairs[k[2]].dynamic # "commute"
              THEN "retained_noncommuting_or_unresolved"
       ELSE "planned"]
Retentions == {"retained_false_authorization", "retained_terminal_failure_witness",
               "retained_noncommuting_or_unresolved", "retained_quarantine_move_failed",
               "retained_runtime_budget_exceeded"}

\* _apply_pair_outcome, _apply_directional_outcome: outputs that are planned
\* are reclaimed, or stuck where they are as they cannot be moved to quarantine.
Compacted(row, plan, stuck) ==
  IF plan # "planned" THEN [row EXCEPT !.cleanup = plan]
  ELSE IF stuck THEN [row EXCEPT !.cleanup = "retained_quarantine_move_failed"]
  ELSE [row EXCEPT !.cleanup = "reclaimed_nonwitness", !.materialized = FALSE]

\* _ledger_entry.
Entry(row) ==
  LET reclaimed == row.cleanup = "reclaimed_nonwitness" IN
    [status |-> IF reclaimed THEN "reclaimed" ELSE "retained",
     reason |-> IF reclaimed THEN "" ELSE row.cleanup,
     cleanup |-> row.cleanup, materialized |-> row.materialized,
     actual |-> IF reclaimed THEN "none" ELSE row.path]

\* _with_cleanup: a row of the recovery keeps its own status, a reclaimed row
\* loses its paths, and the entries follow the rows.
Settled(k, row) ==
  IF Typed(k)
    THEN [row EXCEPT !.materialized = FALSE, !.cleanup = "retained_runtime_budget_exceeded"]
  ELSE IF row.cleanup = "reclaimed_nonwitness" THEN [row EXCEPT !.path = "none"]
  ELSE row
Synchronized(entry, row) ==
  [entry EXCEPT !.cleanup = row.cleanup, !.materialized = row.materialized,
                !.reason = IF row.cleanup = "retained_runtime_budget_exceeded" THEN row.cleanup
                                                                               ELSE @]

CleanUp ==
  /\ payload # NoPayload /\ ledger = NoLedger
  /\ LET plan == Plan
         planned == {k \in Keys : plan[k] = "planned"}
     IN \E partial \in BOOLEAN, stuck \in {{}, planned} \cup {{k} : k \in planned} :
          LET written == Written(partial)
              compacted == [k \in Keys |-> Compacted(written[k], plan[k], k \in stuck)]
              settled == [k \in Keys |-> Settled(k, compacted[k])]
              made == {k \in Keys : written[k].materialized}
          IN ledger' = [rows |-> settled, written |-> made, files |-> made \ (planned \ stuck),
                        entries |-> [k \in Keys |->
                                       Synchronized(Entry(compacted[k]), settled[k])]]
  /\ UNCHANGED rowVars

Settle == ledger # NoLedger /\ UNCHANGED ledgerVars

LedgerInit == RowsInit /\ ledger = NoLedger
LedgerNext == (RowsNext /\ UNCHANGED ledger) \/ CleanUp \/ Settle
LedgerSpec == LedgerInit /\ [][LedgerNext]_ledgerVars

-----------------------------------------------------------------------------
\* The readers.

\* _validate_program_checkpoint_payload: the status of the recovery survives,
\* and every entry is about its row.
TypedRowsKept == \A k \in Keys : Typed(k) => ledger.rows[k].cleanup = "retained_runtime_budget_exceeded"
EntryFits(k) ==
  LET e == ledger.entries[k]
      row == ledger.rows[k]
  IN /\ e.cleanup = row.cleanup /\ e.materialized = row.materialized
     /\ \/ e.status = "reclaimed" /\ e.actual = "none" /\ ~ row.materialized
        \/ e.status = "retained" /\ e.actual = row.path /\ row.cleanup \in Retentions

\* _validate_cleanup_entry, which also asks that both orders of a pair whose
\* outputs are gone had been verified.
HandoffFits(k) ==
  EntryFits(k) /\ (IsPair(k) /\ ledger.entries[k].status = "reclaimed" => Ran(k) = {"success"})

\* _build_materialized_artifact_bindings: an output that is claimed is there,
\* and one that is not claimed is not.
Bound == {k \in Keys : ledger.rows[k].materialized}
BindingFits(k) ==
  IF k \in Bound THEN ledger.rows[k].path = "stage" /\ k \in ledger.files
                 ELSE ledger.rows[k].path = "none" \/ k \notin ledger.files

\* build_artifact_index_rows: the rows that the index shows.
Indexed ==
  {k \in Keys : LET row == ledger.rows[k] IN
     \/ row.cleanup \in Retentions \/ k \in Bound
     \/ ~ IsPair(k) /\ (row.path # "none" \/ k \in ledger.written)}

-----------------------------------------------------------------------------

\* The evidence outlives the cleanup: what is on disk is bound and in the index,
\* and so is every row whose outputs are gone or never were, except pairs that
\* were reclaimed.  A pair whose orders differ keeps its outputs; so does, in
\* the group of a false authorisation, each direction of it that has one.
EvidenceIsKept ==
  /\ ledger.files = Bound
  /\ Keys \ Indexed = {k \in Keys : IsPair(k) /\ ledger.entries[k].status = "reclaimed"}
  /\ \A p \in Pairs : payload.pairs[p].dynamic = "order_sensitive" => <<"pair", p>> \in ledger.files
  /\ \A g \in DOMAIN Groups : \A p \in PairsOfGroup(g), a \in Groups[g] :
       payload.groups[g].pairs[p].false /\ a \in {p[1], p[2]}
                                        /\ <<"direction", g, a>> \in ledger.written
         => <<"direction", g, a>> \in ledger.files

\* However a program is decided, after every published stage and whatever
\* misbehaved: its rows pass the three readers and their tables agree with what
\* happened; and when its outputs have been cleaned up, all of them or all but
\* some, the rows, the ledger and the disk agree in all three readers and no
\* evidence is lost.  The recovery writes rows that neither the validators nor
\* the cleanup were written for.
PayloadIsAccepted ==
  /\ payload # NoPayload /\ ledger = NoLedger => RowsAreAccepted
  /\ ledger # NoLedger =>
       /\ TypedRowsKept /\ EvidenceIsKept
       /\ \A k \in Keys : EntryFits(k) /\ HandoffFits(k) /\ BindingFits(k)
=============================================================================
