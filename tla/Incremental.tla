------------------------------ MODULE Incremental ------------------------------
(***************************************************************************)
(* Incremental selection and its last-run snapshot, for one project:       *)
(* orchestrator/index.ts (resolveSelection, advanceSnapshotIfDeltaRun,     *)
(* reconcileTestInventory), selection/index.ts (SelectionEngine.plan,      *)
(* getChangedFiles), snapshot/index.ts (selectionDelta, saveSnapshot) and  *)
(* the way worker/index.ts (runVitest) executes a selection.               *)
(*                                                                         *)
(* A request resolves its selection at once, against the files on disk,    *)
(* and the run executes later, after the runs queued before it.  A file's  *)
(* hash is its content.  Vitest is external: its static import graph is    *)
(* the constant Static, and what a test's outcome depends on beyond that   *)
(* graph is the constant Hidden.                                           *)
(***************************************************************************)
EXTENDS Integers, Sequences, FiniteSets

CONSTANTS
    Source,        \* files isTestFile does not recognize
    Test,          \* files isTestFile recognizes; each holds one test
    Outside,       \* sources of the repository outside the project directory
    Content, Absent,
    NoSnapshot,
    Static,        \* Static[t]: files reached from t by the static import graph
    Hidden,        \* Hidden[t]: other files the outcome of t depends on
    Passes(_, _),  \* Passes(t, c): test t passes when the files hold c
    DynamicSyntax, \* hasDynamicImportSyntax(project); TRUE also when git grep fails
    Sinces,        \* baselines that callers ask for
    TrustHead,     \* is every test known to pass at every commit?
    MidRunEdits,   \* may files change between a request and the end of its run?
    MaxEdits,      \* bound: edits in a behaviour
    MaxJobs        \* bound: requests waiting for their run

File   == Source \cup Test
Inside == File \ Outside
Deps(t) == {t} \cup Static[t] \cup Hidden[t]
Tree   == [File -> Content \cup {Absent}]

ASSUME FilesAssumption   == Source \cap Test = {} /\ Outside \subseteq Source /\ IsFiniteSet(File)
ASSUME ContentAssumption == Content # {} /\ Absent \notin Content
ASSUME GraphAssumption   == /\ Static \in [Test -> SUBSET File]
                            /\ Hidden \in [Test -> SUBSET File]
ASSUME OutcomeAssumption == \A t \in Test, c, d \in Tree :
    (\A f \in Deps(t) : c[f] = d[f]) => Passes(t, c) = Passes(t, d)
ASSUME SettingAssumption ==
    /\ Sinces \subseteq {"last-run", "head"}
    /\ {DynamicSyntax, TrustHead, MidRunEdits} \subseteq BOOLEAN
    /\ MaxEdits \in Nat /\ MaxJobs \in Nat

Hashed    == [Inside -> Content \cup {Absent}]
Snapshots == Hashed \cup {NoSnapshot}

ASSUME SnapshotAssumption == NoSnapshot \notin Hashed

\* ResolvedSelection.  files is relatedFiles of a delta-driven selection, or
\* the explicit files of one that is not.
Job == [delta : BOOLEAN, full : BOOLEAN, files : SUBSET File, empty : BOOLEAN,
        pending : Snapshots, degraded : BOOLEAN]

VARIABLES
    disk,       \* the working tree
    head,       \* the tree of git HEAD
    snapshot,   \* .test-mcp/last-run-snapshot.json
    inventory,  \* test files in the test inventory
    queue,      \* selections resolved and not executed yet
    report,     \* what the last run reported of the files on disk
    edits

vars == <<disk, head, snapshot, inventory, queue, report, edits>>

Reports == {"none", "failed", "degraded", "passed"}

Present(c)  == {t \in Test : c[t] # Absent}
AllPass(c)  == \A t \in Present(c) : Passes(t, c)
Diff(c, d, S) == {f \in S : c[f] # d[f]}

Init ==
    /\ disk \in Tree /\ head = disk
    /\ TrustHead => AllPass(head)
    /\ snapshot = NoSnapshot
    /\ inventory = {}
    /\ queue = << >>
    /\ report = "none"
    /\ edits = 0

-----------------------------------------------------------------------------
(* Selection                                                               *)

\* computeHashes over listCandidateFiles, or null outside git.
Hashes(git) == IF git THEN [f \in Inside |-> disk[f]] ELSE NoSnapshot

\* A changed set: null is written as known = FALSE.
Unknown == [known |-> FALSE, files |-> {}]
Known(S) == [known |-> TRUE, files |-> S]

\* getChangedFiles: unknown when git fails or a file outside the project differs.
ChangedSinceHead(git) ==
    IF git /\ Diff(disk, head, Outside) = {} THEN Known(Diff(disk, head, Inside)) ELSE Unknown

\* selectionDelta, and the fallback to git HEAD when it has no changed set.
ChangedSince(since, git, diffGit) ==
    IF since = "last-run" /\ git /\ snapshot # NoSnapshot
    THEN Known(Diff(disk, snapshot, Inside))
    ELSE ChangedSinceHead(diffGit)

\* More than 70% of the known test files.
Escalates(S) == inventory # {} /\ 10 * Cardinality(S) > 7 * Cardinality(inventory)

FullRun == [delta |-> FALSE, full |-> TRUE, files |-> {}, empty |-> FALSE,
            pending |-> NoSnapshot, degraded |-> FALSE]

DeltaFull(pending) == [FullRun EXCEPT !.delta = TRUE, !.pending = pending]

\* Mutants of Resolve: deleted paths do not lead to a full run; dynamic imports
\* do not lower the confidence.
ResolveIgnoresDeletions(changed, pending) ==
    LET S       == changed.files
        sources == S \ Test
    IN  IF ~changed.known \/ (sources # {} /\ Escalates(S))
        THEN DeltaFull(pending)
        ELSE [delta |-> TRUE, full |-> FALSE, files |-> S, empty |-> S = {},
              pending |-> pending, degraded |-> sources # {} /\ DynamicSyntax]
ResolveConfident(changed, pending) ==
    LET S       == changed.files
        sources == S \ Test
        deleted == {f \in S : disk[f] = Absent}
    IN  IF ~changed.known \/ deleted # {} \/ (sources # {} /\ Escalates(S))
        THEN DeltaFull(pending)
        ELSE [delta |-> TRUE, full |-> FALSE, files |-> S, empty |-> S = {},
              pending |-> pending, degraded |-> FALSE]

\* resolveSelection for mode "incremental" without explicit files, from the
\* changed set and the hashes taken when the request arrives.
Resolve(changed, pending) ==
    LET S       == changed.files
        sources == S \ Test
        deleted == {f \in S : disk[f] = Absent}
    IN  IF ~changed.known \/ deleted # {} \/ (sources # {} /\ Escalates(S))
        THEN DeltaFull(pending)
        ELSE [delta |-> TRUE, full |-> FALSE, files |-> S, empty |-> S = {},
              pending |-> pending, degraded |-> sources # {} /\ DynamicSyntax]

Submit(job) ==
    /\ Len(queue) < MaxJobs
    /\ queue' = Append(queue, job)
    /\ UNCHANGED <<disk, head, snapshot, inventory, report, edits>>

\* The candidate listing and the diff against HEAD are separate git commands;
\* either may fail.
RequestDelta(since) ==
    \E git, diffGit \in BOOLEAN :
        Submit(Resolve(ChangedSince(since, git, diffGit), Hashes(git)))

RequestFull == Submit(FullRun)

RequestFiles(S) == Submit([FullRun EXCEPT !.full = FALSE, !.files = S])

-----------------------------------------------------------------------------
(* Execution                                                               *)

\* The tests Vitest resolves a selection to, in the files on disk: `related`
\* follows the static graph from the files that exist; explicit files name
\* themselves.
Matching(job) ==
    LET existing == {f \in job.files : disk[f] # Absent}
        Reach(t) == {t} \cup (IF job.delta THEN Static[t] ELSE {})
    IN  {t \in Present(disk) : job.full \/ existing \cap Reach(t) # {}}

\* runVitest runs the full suite instead of a bounded selection that matches no
\* test, or whose `related` pass throws.
Fallback(job, threw) == ~job.full /\ ~job.empty /\ (Matching(job) = {} \/ (job.delta /\ threw))

\* The tests a run executes.
Executed(job, threw) ==
    CASE job.empty            -> {}
      [] Fallback(job, threw) -> Present(disk)
      [] OTHER                -> Matching(job)

\* Mutant of Advance: a degraded run advances the baseline.
AdvanceDegraded(job, success, degraded, saved) ==
    IF job.delta /\ success /\ job.pending # NoSnapshot /\ saved
    THEN job.pending ELSE snapshot

\* advanceSnapshotIfDeltaRun.  saved is FALSE when the write fails.
Advance(job, success, degraded, saved) ==
    IF job.delta /\ success /\ job.pending # NoSnapshot /\ ~degraded /\ saved
    THEN job.pending ELSE snapshot

\* A bounded run of explicit files reports on those alone: completeness is the
\* choice of its caller.
Verdict(success, degraded, chosen) ==
    CASE ~success -> "failed"
      [] degraded -> "degraded"
      [] chosen   -> "none"
      [] OTHER    -> "passed"

\* Mutant of Reconcile: the files a test imports are counted as test files.
ReconcileImports(tests, truncated, broken) ==
    IF truncated THEN inventory
    ELSE inventory \cup (tests \ broken) \cup UNION {Static[t] : t \in tests}

\* reconcileTestInventory; a truncated result is not used, nor are files that
\* failed to load.
Reconcile(tests, truncated, broken) ==
    IF truncated THEN inventory ELSE inventory \cup (tests \ broken)

\* A selection settles with a result.
Complete(job) ==
    \E threw, saved, truncated \in BOOLEAN :
        LET fallback == Fallback(job, threw)
            tests    == Executed(job, threw)
            success  == \A t \in tests : Passes(t, disk)
            degraded == job.degraded /\ ~fallback
        IN  /\ snapshot' = Advance(job, success, degraded, saved)
            /\ report' = Verdict(success, degraded, ~job.delta /\ ~job.full /\ ~fallback)
            /\ \E broken \in SUBSET {t \in tests : ~Passes(t, disk)} :
                  inventory' = Reconcile(tests, truncated, broken)

Execute ==
    /\ queue # << >>
    /\ Complete(Head(queue))
    /\ queue' = Tail(queue)
    /\ UNCHANGED <<disk, head, edits>>

\* The run fails: worker crash, stall, timeout.  No result, nothing advances.
Fail ==
    /\ queue # << >>
    /\ queue' = Tail(queue)
    /\ report' = "failed"
    /\ UNCHANGED <<disk, head, snapshot, inventory, edits>>

\* The daemon stops and starts again: queued runs are gone, files stay; the
\* inventory is read back, or empty when it cannot be read.
Restart ==
    /\ queue' = << >>
    /\ inventory' \in {inventory, {}}
    /\ UNCHANGED <<disk, head, snapshot, report, edits>>

-----------------------------------------------------------------------------
(* The user                                                                *)

Edit(f, c) ==
    /\ edits < MaxEdits
    /\ MidRunEdits \/ queue = << >>
    /\ disk[f] # c
    /\ disk' = [disk EXCEPT ![f] = c]
    /\ report' = "none"
    /\ edits' = edits + 1
    /\ UNCHANGED <<head, snapshot, inventory, queue>>

Commit ==
    /\ head # disk
    /\ TrustHead => AllPass(disk)
    /\ head' = disk
    /\ UNCHANGED <<disk, snapshot, inventory, queue, report, edits>>

\* The snapshot file is deleted, unreadable or of another schema version.
LoseSnapshot ==
    /\ snapshot # NoSnapshot
    /\ snapshot' = NoSnapshot
    /\ UNCHANGED <<disk, head, inventory, queue, report, edits>>

Next ==
    \/ \E since \in Sinces : RequestDelta(since)
    \/ RequestFull
    \/ \E f \in Test : RequestFiles({f})
    \/ Execute \/ Fail \/ Restart
    \/ \E f \in File, c \in Content \cup {Absent} : Edit(f, c)
    \/ Commit \/ LoseSnapshot

Spec == Init /\ [][Next]_vars

-----------------------------------------------------------------------------
(* Properties                                                              *)

TypeOK ==
    /\ disk \in Tree /\ head \in Tree
    /\ snapshot \in Snapshots
    /\ inventory \subseteq Test
    /\ queue \in Seq(Job)
    /\ report \in Reports
    /\ edits \in 0 .. MaxEdits

\* Invariant 5 of docs/architecture.md, never under-select: once the files
\* match the baseline, so that the next incremental run would find no change
\* and run nothing, every test of the project passes.  No regression is hidden
\* behind the snapshot, whatever runs, failures, edits and commits came before.
NoHiddenRegression ==
    (snapshot # NoSnapshot /\ Diff(disk, snapshot, Inside) = {}) => AllPass(disk)

\* A run that reports success with high confidence would have passed in full:
\* the tests it left out pass as well.
HighConfidenceSound == report = "passed" => AllPass(disk)
================================================================================
