----------------------------- MODULE SpecStore -----------------------------
(***************************************************************************)
(* markdown.Store: the spec of one task as a Markdown file in the directory *)
(* of its status.  Saving reads the file, merges the changed sections into  *)
(* it and replaces it; when the status moved, it writes the file at its new *)
(* place and removes the old one.  No lock is taken: every step of one      *)
(* command can fall between two steps of another.                           *)
(*                                                                          *)
(* A spec is [status, contract, harden, rounds, updated, notes].  The notes *)
(* are the prose that the parser does not own.                              *)
(***************************************************************************)
EXTENDS Integers, Sequences, SequencesExt

CONSTANTS
  Procs,      \* processes of the scafld command
  Absent,     \* no file
  MaxFaults   \* bound on failing writes and removals

ASSUME FaultsAssumption == MaxFaults \in Nat

VARIABLES
  files,      \* directory -> spec or Absent
  saving,     \* process -> the Save it is in
  cancelled,  \* processes whose context is done
  faults      \* how many writes and removals failed

storeVars == <<files, saving, cancelled, faults>>

\* Find looks in this order.
Dirs == <<"drafts", "approved", "active", "archive">>
Dir == ToSet(Dirs)

Idle == [step |-> "idle", path |-> "drafts", doc |-> Absent, terminal |-> FALSE]
SaveSteps == {"idle", "read", "stat", "write", "remove", "done", "failed"}
Busy(p) == saving[p].step \in {"read", "stat", "write", "remove"}

StoreTypeOK ==
  /\ DOMAIN files = Dir
  /\ DOMAIN saving = Procs
  /\ \A p \in Procs : saving[p].step \in SaveSteps /\ (Busy(p) => saving[p].doc # Absent)
  /\ cancelled \subseteq Procs
  /\ faults \in 0..MaxFaults

StoreInit(start) ==
  /\ files = start
  /\ saving = [p \in Procs |-> Idle]
  /\ cancelled = {}
  /\ faults = 0

Find ==
  LET there == {i \in DOMAIN Dirs : files[Dirs[i]] # Absent}
  IN  IF there = {} THEN "none" ELSE Dirs[Min(there)]

\* LoadSource: the spec a command works with.
Loads(p, terminal) == Find # "none" /\ (terminal \/ p \notin cancelled)
Visible == files[Find]

\* targetPath
Target(doc) ==
  CASE doc.status = "draft" -> "drafts"
    [] doc.status = "approved" -> "approved"
    [] doc.status \in {"completed", "failed", "cancelled"} -> "archive"
    [] OTHER -> "active"

\* samePhaseShape
SamePhaseShape(a, b) == a.contract.shape = b.contract.shape

\* splitDocument, isManagedSectionKey: what the file has in front of the first
\* heading and under every heading but those of the model's own sections
Prose(doc) == doc.notes

\* Mutant: the model is rendered over the file.
UpdateSpecRendersAll(current, next) == next

\* updateSpecMarkdown: a section of the model replaces the file's where they
\* differ, the contract's included; prose stays as the file has it.
UpdateSpec(current, next) == [next EXCEPT !.notes = Prose(current)]

-----------------------------------------------------------------------------
(* Save, called by a command with the path it loaded from. *)

Save(p, path, doc, terminal) ==
  saving' = [saving EXCEPT ![p] = [step |-> "read", path |-> path, doc |-> doc, terminal |-> terminal]]

Steps(p, step) == saving' = [saving EXCEPT ![p].step = step]
Returns(p, result) == saving' = [saving EXCEPT ![p] = [Idle EXCEPT !.step = result]]

\* updateSpec up to the merge.
SaveRead(p) ==
  LET s == saving[p] current == files[saving[p].path] IN
  /\ s.step = "read"
  /\ IF \/ p \in cancelled /\ ~s.terminal
        \/ current = Absent
        \/ ~SamePhaseShape(current, s.doc)
       THEN Returns(p, "failed")
       ELSE saving' = [saving EXCEPT ![p].step = IF Target(s.doc) = s.path THEN "write" ELSE "stat",
                                     ![p].doc = UpdateSpec(current, s.doc)]
  /\ UNCHANGED <<files, cancelled, faults>>

\* writeMovedSpec refuses to overwrite a spec that is already there.
SaveStat(p) ==
  /\ saving[p].step = "stat"
  /\ IF files[Target(saving[p].doc)] # Absent THEN Returns(p, "failed") ELSE Steps(p, "write")
  /\ UNCHANGED <<files, cancelled, faults>>

\* Mutant: the old file goes before the new one is there.
SaveWriteRemovesFirst(p) ==
  LET s == saving[p] IN
  /\ s.step = "write"
  /\ IF Target(s.doc) = s.path
       THEN files' = [files EXCEPT ![s.path] = s.doc] /\ Returns(p, "done")
       ELSE files' = [files EXCEPT ![s.path] = Absent] /\ Steps(p, "remove")
  /\ UNCHANGED <<cancelled, faults>>

\* atomicfile.Write
SaveWrite(p) ==
  LET s == saving[p] IN
  /\ s.step = "write"
  /\ files' = [files EXCEPT ![Target(s.doc)] = s.doc]
  /\ IF Target(s.doc) = s.path THEN Returns(p, "done") ELSE Steps(p, "remove")
  /\ UNCHANGED <<cancelled, faults>>

\* It fails before the rename, or at the sync of the directory after it: then the
\* file is in place and its Save has failed all the same, and the old file of a
\* move stays.
SaveWriteFails(p) ==
  LET doc == saving[p].doc IN
  /\ saving[p].step = "write"
  /\ faults < MaxFaults
  /\ faults' = faults + 1
  /\ files' \in {files, [files EXCEPT ![Target(doc)] = doc]}
  /\ Returns(p, "failed")
  /\ UNCHANGED cancelled

\* os.Remove of the old file; when that fails, also because it is gone
\* already, the new file is taken back.
SaveRemove(p) ==
  LET s == saving[p] gone == files[s.path] = Absent IN
  /\ s.step = "remove"
  /\ \/ /\ ~gone
        /\ files' = [files EXCEPT ![s.path] = Absent]
        /\ Returns(p, "done") /\ UNCHANGED faults
     \/ /\ gone \/ faults < MaxFaults
        /\ faults' = IF gone THEN faults ELSE faults + 1
        /\ files' = [files EXCEPT ![Target(s.doc)] = Absent]
        /\ Returns(p, "failed")
  /\ UNCHANGED cancelled

SaveStep(p) == SaveRead(p) \/ SaveStat(p) \/ SaveWrite(p) \/ SaveWriteFails(p) \/ SaveRemove(p)

\* The command goes on after its Save.
Saved(p) == saving[p].step = "done"
SaveFailed(p) == saving[p].step = "failed"
=============================================================================
