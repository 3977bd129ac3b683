----------------------------- MODULE FileImport -----------------------------
(***************************************************************************)
(* The import module: the calls a user may make about one uploaded file,   *)
(* parsing it, saving the mappings of its fields, processing its rows,     *)
(* turning them into tests with the AI pipeline, and deleting it.  Each    *)
(* goes through the same row without looking at its status.                *)
(***************************************************************************)
EXTENDS Naturals, FiniteSets

CONSTANTS
  ImportCalls,     \* calls about the import
  MaxRows,         \* bound: rows of the file, and test cases of the pipeline
  MaxFields,       \* bound: fields to map
  MaxImportFaults  \* bound: calls that fail

ASSUME ImportAssumption ==
  MaxRows \in Nat /\ MaxFields \in Nat /\ MaxImportFaults \in Nat

VARIABLES
  impRow,       \* the FileImport: its status and counts
  impCalls,     \* each call and where it is
  impMappings,  \* FieldMapping rows: the call that created them, and the field
  impErrors,    \* ImportError rows: the call, and the row they are about
  impTests,     \* tests created, and whether they have a version
  impFaults

impVars == <<impRow, impCalls, impMappings, impErrors, impTests, impFaults>>

-----------------------------------------------------------------------------
Kinds == {"parse", "save", "process", "ai", "delete"}

ImportCall ==
  [kind : Kinds \cup {"none"},
   pc : {"new", "found", "rows", "version", "mappings", "catch", "done", "threw"},
   at : 0..(IF MaxRows > MaxFields THEN MaxRows ELSE MaxFields), ok : 0..MaxRows, bad : 0..MaxRows]

ImportInit ==
  /\ impRow = [status |-> "PENDING", success |-> 0, errors |-> 0]
  /\ impCalls = [c \in ImportCalls |->
       [kind |-> "none", pc |-> "new", at |-> 0, ok |-> 0, bad |-> 0]]
  /\ impMappings = {} /\ impErrors = {} /\ impTests = {}
  /\ impFaults = 0

Kept == impRow.status # "deleted"

At(c, kind, pc) == impCalls[c].kind = kind /\ impCalls[c].pc = pc
Processing(c, pc) == impCalls[c].kind \in {"process", "ai"} /\ impCalls[c].pc = pc
ImportGoto(c, pc) == impCalls' = [impCalls EXCEPT ![c].pc = pc]

\* The row the call has come to is done with; its number begins with 1.
Passed(c) == [impCalls[c] EXCEPT !.pc = "rows", !.at = impCalls[c].at + 1,
                                 !.ok = impCalls[c].ok + 1]
Refused(c) == [impCalls[c] EXCEPT !.pc = "rows", !.at = impCalls[c].at + 1,
                                  !.bad = impCalls[c].bad + 1]
\* Mutant: an index in its stead.
RowIndex(c) == impCalls[c].at

Row(c) == impCalls[c].at + 1

-----------------------------------------------------------------------------
\* findUnique, but for saveMappings, which begins by deleting the mappings there are.
Find(c, kind) ==
  /\ impCalls[c].pc = "new"
  /\ impCalls' = [impCalls EXCEPT ![c] =
       [@ EXCEPT !.kind = kind,
                 !.pc = IF kind = "save" THEN "mappings" ELSE IF Kept THEN "found" ELSE "threw"]]
  /\ impMappings' = IF kind = "save" THEN {} ELSE impMappings
  /\ UNCHANGED <<impRow, impErrors, impTests, impFaults>>

\* PROCESSING, outside the try.
Begin(c) ==
  /\ impCalls[c].pc = "found" /\ impCalls[c].kind # "delete"
  /\ IF Kept THEN ImportGoto(c, "rows") /\ impRow' = [impRow EXCEPT !.status = "PROCESSING"]
     ELSE ImportGoto(c, "threw") /\ UNCHANGED impRow
  /\ UNCHANGED <<impMappings, impErrors, impTests, impFaults>>

\* parseFile: the file has been read, and the row is PENDING again.
Parsed(c) ==
  /\ At(c, "parse", "rows") /\ Kept
  /\ ImportGoto(c, "mappings")
  /\ impRow' = [impRow EXCEPT !.status = "PENDING"]
  /\ UNCHANGED <<impMappings, impErrors, impTests, impFaults>>

\* parseFile and saveMappings: a mapping for each field, one by one.
CreateMapping(c) ==
  /\ impCalls[c].pc = "mappings" /\ impCalls[c].at < MaxFields /\ Kept
  /\ impCalls' = [impCalls EXCEPT ![c].at = impCalls[c].at + 1]
  /\ impMappings' = impMappings \cup {<<c, Row(c)>>}
  /\ UNCHANGED <<impRow, impErrors, impTests, impFaults>>

\* Mutant: what others have mapped is removed at the end.
EndMappingsAlone(c) ==
  /\ impCalls[c].pc = "mappings" /\ impCalls[c].at = MaxFields
  /\ ImportGoto(c, "done")
  /\ impMappings' = {m \in impMappings : m[1] = c}
  /\ UNCHANGED <<impRow, impErrors, impTests, impFaults>>

EndMappings(c) ==
  /\ impCalls[c].pc = "mappings" /\ impCalls[c].at = MaxFields
  /\ ImportGoto(c, "done")
  /\ UNCHANGED <<impRow, impMappings, impErrors, impTests, impFaults>>

\* processImport: a valid row is counted ...
ValidRow(c) ==
  /\ At(c, "process", "rows") /\ impCalls[c].at < MaxRows
  /\ impCalls' = [impCalls EXCEPT ![c] = Passed(c)]
  /\ UNCHANGED <<impRow, impMappings, impErrors, impTests, impFaults>>

\* ... an invalid one has an ImportError, and so has an invalid case of the pipeline.
InvalidRow(c) ==
  /\ Processing(c, "rows") /\ impCalls[c].at < MaxRows /\ Kept
  /\ impCalls' = [impCalls EXCEPT ![c] = Refused(c)]
  /\ impErrors' = impErrors \cup {<<c, Row(c)>>}
  /\ UNCHANGED <<impRow, impMappings, impTests, impFaults>>

\* processImportWithAI: the test of a valid case; nothing ties it to the import.
CreateTest(c) ==
  /\ At(c, "ai", "rows") /\ impCalls[c].at < MaxRows
  /\ ImportGoto(c, "version")
  /\ impTests' = impTests \cup {[by |-> c, row |-> Row(c), version |-> FALSE]}
  /\ UNCHANGED <<impRow, impMappings, impErrors, impFaults>>

\* Its first version.
CreateVersion(c) ==
  /\ At(c, "ai", "version")
  /\ impCalls' = [impCalls EXCEPT ![c] = Passed(c)]
  /\ impTests' = {IF t.by = c /\ t.row = Row(c) THEN [t EXCEPT !.version = TRUE] ELSE t :
                    t \in impTests}
  /\ UNCHANGED <<impRow, impMappings, impErrors, impFaults>>

\* The test or its version cannot be created: an ImportError, beside the test if there is
\* one already; without an import to belong to it fails as well.
CreateFails(c) ==
  /\ impCalls[c].kind = "ai" /\ impCalls[c].pc \in {"rows", "version"}
  /\ impCalls[c].at < MaxRows
  /\ impFaults < MaxImportFaults /\ impFaults' = impFaults + 1
  /\ IF Kept THEN /\ impCalls' = [impCalls EXCEPT ![c] = Refused(c)]
                  /\ impErrors' = impErrors \cup {<<c, Row(c)>>}
     ELSE ImportGoto(c, "catch") /\ UNCHANGED impErrors
  /\ UNCHANGED <<impRow, impMappings, impTests>>

\* finalStatus; a file without rows is COMPLETED.
Final(ok, bad) == IF bad = 0 THEN "COMPLETED" ELSE IF ok = 0 THEN "FAILED" ELSE "PARTIAL"

\* Every row has been seen: the status and the counts of this call.
FinishImport(c) ==
  /\ Processing(c, "rows") /\ Kept
  /\ impCalls[c].at > 0 \/ impCalls[c].kind = "process"
  /\ ImportGoto(c, "done")
  /\ impRow' = [status |-> Final(impCalls[c].ok, impCalls[c].bad),
                success |-> impCalls[c].ok, errors |-> impCalls[c].bad]
  /\ UNCHANGED <<impMappings, impErrors, impTests, impFaults>>

\* The pipeline has no success or no test cases: FAILED, and the request is answered.
EmptyPipeline(c) ==
  /\ At(c, "ai", "rows") /\ impCalls[c].at = 0 /\ Kept
  /\ ImportGoto(c, "done")
  /\ impRow' = [impRow EXCEPT !.status = "FAILED"]
  /\ UNCHANGED <<impMappings, impErrors, impTests, impFaults>>

\* Something fails: the file, the pipeline, the database, or the row that is gone.
ImportThrows(c) ==
  /\ impCalls[c].pc \in {"found", "rows", "mappings"}
  /\ \/ ~Kept /\ impCalls[c].pc # "found" /\ UNCHANGED impFaults
     \/ impFaults < MaxImportFaults /\ impFaults' = impFaults + 1
  /\ ImportGoto(c, IF impCalls[c].pc = "found" \/ impCalls[c].kind = "save"
                   THEN "threw" ELSE "catch")
  /\ UNCHANGED <<impRow, impMappings, impErrors, impTests>>

\* The catch: FAILED, unless that fails too.
CatchImport(c) ==
  /\ impCalls[c].pc = "catch"
  /\ ImportGoto(c, "threw")
  /\ \/ Kept /\ impRow' = [impRow EXCEPT !.status = "FAILED"] /\ UNCHANGED impFaults
     \/ ~Kept /\ UNCHANGED <<impRow, impFaults>>
     \/ impFaults < MaxImportFaults /\ impFaults' = impFaults + 1 /\ UNCHANGED impRow
  /\ UNCHANGED <<impMappings, impErrors, impTests>>

\* deleteImport: the file, then the row, and with it its mappings and errors.
Delete(c) ==
  /\ At(c, "delete", "found")
  /\ ImportGoto(c, IF Kept THEN "done" ELSE "threw")
  /\ impRow' = [status |-> "deleted", success |-> 0, errors |-> 0]
  /\ impMappings' = {} /\ impErrors' = {}
  /\ UNCHANGED <<impTests, impFaults>>

-----------------------------------------------------------------------------
ImportStep(c) ==
  \/ Begin(c) \/ Parsed(c) \/ CreateMapping(c) \/ EndMappings(c) \/ ValidRow(c)
  \/ InvalidRow(c) \/ CreateTest(c) \/ CreateVersion(c) \/ FinishImport(c)
  \/ EmptyPipeline(c) \/ ImportThrows(c) \/ CatchImport(c) \/ Delete(c)

ImportNext ==
  \E c \in ImportCalls :
    \/ \E kind \in Kinds : Find(c, kind)
    \/ ImportStep(c) \/ CreateFails(c)

ImportSpec == ImportInit /\ [][ImportNext]_impVars

\* Requests go on: the parser, the database and the pipeline, which has a timeout, answer.
ImportFair == \A c \in ImportCalls : WF_impVars(ImportStep(c))

-----------------------------------------------------------------------------
(* Properties.                                                             *)

ImportTypeOK ==
  /\ impRow \in [status : {"PENDING", "PROCESSING", "COMPLETED", "PARTIAL", "FAILED", "deleted"},
                 success : 0..MaxRows, errors : 0..MaxRows]
  /\ impCalls \in [ImportCalls -> ImportCall]
  /\ impMappings \subseteq ImportCalls \X (1..MaxFields)
  /\ impErrors \subseteq ImportCalls \X (1..MaxRows)
  /\ impTests \subseteq [by : ImportCalls, row : 1..MaxRows, version : BOOLEAN]
  /\ impFaults \in 0..MaxImportFaults

NoCall(kinds) ==
  \A c \in ImportCalls :
    impCalls[c].kind \in kinds => impCalls[c].pc \in {"done", "threw"}

\* When no call is left the import is not PROCESSING, however calls crossed, unless one
\* failed.
ImportSettled ==
  NoCall(Kinds) /\ impFaults = 0 => impRow.status # "PROCESSING"

\* What the row says of its rows agrees with the rows' errors: as many as it counts, or
\* more when the import was processed more than once, and COMPLETED with none of its own.
ErrorsAddUp ==
  LET Processed == {c \in ImportCalls :
                      impCalls[c].kind \in {"process", "ai"} /\ impCalls[c].pc # "new"} IN
  /\ impRow.errors <= Cardinality(impErrors)
  /\ impRow.status = "COMPLETED" => impRow.errors = 0
  /\ \A c \in Processed : Processed = {c} /\ impCalls[c].pc = "done" /\ Kept =>
       impRow.errors = Cardinality(impErrors)

\* After parsing or saving mappings every field is mapped, whichever saves and parses
\* crossed: each save deletes what there is before it creates all of its own.
EveryFieldMapped ==
  /\ NoCall({"parse", "save"}) /\ impFaults = 0 /\ Kept
  /\ \E c \in ImportCalls : impCalls[c].kind \in {"parse", "save"}
  => \A f \in 1..MaxFields : \E c \in ImportCalls : <<c, f>> \in impMappings

\* A case of the pipeline that is counted as a success has its test with a version; a test
\* without one is a case that failed, or one whose call is still at it.
TestsHaveVersions ==
  \A t \in impTests : t.version \/ impFaults > 0 \/ At(t.by, "ai", "version")

\* The import's row, its errors and the tests it created agree.
ImportCounted == ImportSettled /\ ErrorsAddUp /\ TestsHaveVersions

\* An import that is being processed comes to an end, unless a call fails.
ImportEnds ==
  impRow.status = "PROCESSING" ~> impRow.status # "PROCESSING" \/ impFaults > 0
=============================================================================
