--------------------------- MODULE IncrementalProofs ---------------------------
(* What incremental selection guarantees for every project, dependency graph   *)
(* and outcome of its tests.                                                   *)
EXTENDS Incremental, TLAPS

USE FilesAssumption, ContentAssumption, GraphAssumption, SettingAssumption, SnapshotAssumption

\* The setting in which the baseline is sound.  Commits are tested, files do
\* not change between a request and the end of its run, no test depends on a
\* file outside the project, and what the static graph hides is behind dynamic
\* import syntax and never a file that looks like a test.  The run midrun shows
\* what happens without the second of these; files outside the project may
\* exist, change and be committed all the same.
SoundSetting ==
    /\ TrustHead /\ ~MidRunEdits
    /\ \A t \in Test : /\ Deps(t) \cap Outside = {}
                       /\ ~DynamicSyntax => Hidden[t] = {}
                       /\ Hidden[t] \cap Test = {}

-----------------------------------------------------------------------------
(* Type correctness                                                        *)

LEMMA HashesType == ASSUME TypeOK, NEW git \in BOOLEAN PROVE Hashes(git) \in Snapshots
<1>1. \A f \in Inside : disk[f] \in Content \cup {Absent}
  BY DEF TypeOK, Tree, Inside
<1>2. [f \in Inside |-> disk[f]] \in Hashed
  BY <1>1 DEF Hashed
<1> QED BY <1>2 DEF Hashes, Snapshots

LEMMA ChangedType ==
    ASSUME TypeOK, NEW since, NEW git \in BOOLEAN, NEW diffGit \in BOOLEAN
    PROVE  /\ ChangedSince(since, git, diffGit).known \in BOOLEAN
           /\ ChangedSince(since, git, diffGit).files \subseteq Inside
BY DEF ChangedSince, ChangedSinceHead, Known, Unknown, Diff

LEMMA JobType ==
    ASSUME NEW changed, changed.known \in BOOLEAN, changed.files \subseteq Inside,
           NEW pending \in Snapshots
    PROVE  Resolve(changed, pending) \in Job
<1>1. changed.files \in SUBSET File
  BY DEF Inside
<1>3. DeltaFull(pending) \in Job
  BY DEF DeltaFull, FullRun, Job, Snapshots
<1>4. \A d, e \in BOOLEAN :
        [delta |-> TRUE, full |-> FALSE, files |-> changed.files, empty |-> e,
         pending |-> pending, degraded |-> d] \in Job
  BY <1>1 DEF Job
<1> QED BY <1>3, <1>4 DEF Resolve

LEMMA FullRunType ==
    /\ FullRun \in Job
    /\ \A S \in SUBSET File : [FullRun EXCEPT !.full = FALSE, !.files = S] \in Job
BY DEF FullRun, Job, Snapshots

LEMMA ExecutedType == ASSUME NEW job, NEW threw PROVE Executed(job, threw) \subseteq Test
BY DEF Executed, Matching, Present

LEMMA CompleteType ==
    ASSUME TypeOK, NEW job \in Job, Complete(job)
    PROVE  snapshot' \in Snapshots /\ inventory' \subseteq Test /\ report' \in Reports
<1>1. job.pending \in Snapshots
  BY DEF Job
<1>2. PICK threw, saved, truncated \in BOOLEAN :
        LET fallback == Fallback(job, threw)
            tests    == Executed(job, threw)
            success  == \A t \in tests : Passes(t, disk)
            degraded == job.degraded /\ ~fallback
        IN  /\ snapshot' = Advance(job, success, degraded, saved)
            /\ report' = Verdict(success, degraded, ~job.delta /\ ~job.full /\ ~fallback)
            /\ \E broken \in SUBSET {t \in tests : ~Passes(t, disk)} :
                  inventory' = Reconcile(tests, truncated, broken)
  BY DEF Complete
<1>3. snapshot' \in {job.pending, snapshot}
  BY <1>2 DEF Advance
<1>4. inventory' \subseteq Test
  BY <1>2, ExecutedType DEF Reconcile, TypeOK
<1>5. report' \in Reports
  BY <1>2 DEF Verdict, Reports
<1> QED BY <1>1, <1>3, <1>4, <1>5 DEF TypeOK

LEMMA QueueTail == ASSUME TypeOK, queue # << >> PROVE Tail(queue) \in Seq(Job)
BY DEF TypeOK

LEMMA TypeStep == TypeOK /\ [Next]_vars => TypeOK'
<1> SUFFICES ASSUME TypeOK, [Next]_vars PROVE TypeOK'
  OBVIOUS
<1>1. ASSUME NEW job \in Job, Submit(job) PROVE TypeOK'
  BY <1>1 DEF TypeOK, Submit
<1>2. CASE \E since \in Sinces : RequestDelta(since)
  BY <1>1, <1>2, HashesType, ChangedType, JobType DEF RequestDelta
<1>3. CASE RequestFull
  BY <1>1, <1>3, FullRunType DEF RequestFull
<1>4. ASSUME NEW f \in Test, RequestFiles({f}) PROVE TypeOK'
  <2>1. {f} \in SUBSET File
    BY DEF File
  <2> QED BY <1>1, <1>4, <2>1, FullRunType DEF RequestFiles
<1>5. CASE Execute
  <2>1. Head(queue) \in Job /\ Complete(Head(queue))
    BY <1>5 DEF Execute, TypeOK
  <2>2. snapshot' \in Snapshots /\ inventory' \subseteq Test /\ report' \in Reports
    BY <2>1, CompleteType
  <2> QED BY <1>5, <2>2, QueueTail DEF Execute, TypeOK
<1>6. CASE Fail
  BY <1>6, QueueTail DEF Fail, TypeOK, Reports
<1>7. CASE Restart
  BY <1>7 DEF Restart, TypeOK
<1>8. ASSUME NEW f \in File, NEW c \in Content \cup {Absent}, Edit(f, c) PROVE TypeOK'
  <2>1. disk' \in Tree
    BY <1>8 DEF Edit, TypeOK, Tree
  <2>2. edits' \in 0 .. MaxEdits
    BY <1>8 DEF Edit, TypeOK
  <2> QED BY <1>8, <2>1, <2>2 DEF Edit, TypeOK, Reports
<1>9. CASE Commit
  BY <1>9 DEF Commit, TypeOK
<1>10. CASE LoseSnapshot
  BY <1>10 DEF LoseSnapshot, TypeOK, Snapshots
<1>11. CASE UNCHANGED vars
  BY <1>11 DEF vars, TypeOK
<1> QED
  BY <1>2, <1>3, <1>4, <1>5, <1>6, <1>7, <1>8, <1>9, <1>10, <1>11 DEF Next

LEMMA TypeInit == Init => TypeOK
BY DEF Init, TypeOK, Snapshots, Reports

\* The variables of the incremental path stay in their types.
THEOREM TypeCorrect == Spec => []TypeOK
<1> QED BY TypeInit, TypeStep, PTL DEF Spec

-----------------------------------------------------------------------------
(* The baseline is sound                                                   *)

\* Trees that agree inside the project pass the same tests.
LEMMA InsideDecides ==
    ASSUME SoundSetting, NEW c \in Tree, NEW d \in Tree, AllPass(c),
           \A f \in Inside : c[f] = d[f]
    PROVE  AllPass(d)
<1> SUFFICES ASSUME NEW t \in Present(d) PROVE Passes(t, d)
  BY DEF AllPass
<1>1. t \in Test /\ d[t] # Absent /\ t \in Deps(t) /\ Deps(t) \subseteq File
  BY DEF Present, File, Deps
<1>2. \A f \in Deps(t) : c[f] = d[f]
  BY <1>1 DEF Inside, SoundSetting
<1>3. Passes(t, c)
  BY <1>1, <1>2 DEF Present, AllPass
<1> QED BY <1>1, <1>2, <1>3, OutcomeAssumption

\* A bounded selection is complete: when every test passes at the base, and
\* the tests the static graph relates to the difference pass now, all pass now.
LEMMA BoundedIsComplete ==
    ASSUME SoundSetting,
           NEW base \in Tree, AllPass(base), NEW now \in Tree,
           NEW S, S = Diff(now, base, Inside),
           S \ Test # {} => ~DynamicSyntax,
           \A f \in S : now[f] # Absent,
           \A t \in Present(now) : S \cap ({t} \cup Static[t]) # {} => Passes(t, now)
    PROVE  AllPass(now)
<1> SUFFICES ASSUME NEW t \in Present(now), S \cap ({t} \cup Static[t]) = {}
             PROVE  Passes(t, now)
  BY DEF AllPass
<1>1. t \in Test /\ now[t] # Absent /\ t \in File
  BY DEF Present, File
<1>2. Hidden[t] \cap S = {}
  <2>1. CASE S \ Test = {}
    BY <1>1, <2>1 DEF SoundSetting
  <2>2. CASE S \ Test # {}
    BY <1>1, <2>2 DEF SoundSetting
  <2> QED BY <2>1, <2>2
<1>3. Deps(t) \subseteq Inside /\ Deps(t) \cap S = {}
  <2>1. Deps(t) \subseteq File /\ Deps(t) \cap Outside = {}
    BY <1>1 DEF Deps, File, SoundSetting
  <2>2. Deps(t) \cap S = {}
    BY <1>2 DEF Deps
  <2> QED BY <2>1, <2>2 DEF Inside
<1>4. \A f \in Deps(t) : now[f] = base[f]
  BY <1>3 DEF Diff
<1>5. t \in Present(base)
  BY <1>1, <1>4 DEF Present, Deps
<1>6. Passes(t, base)
  BY <1>5 DEF AllPass
<1>7. Passes(t, now) = Passes(t, base)
  BY <1>1, <1>4, OutcomeAssumption
<1> QED BY <1>6, <1>7

\* The hashes h are those of a tree in which every test passes.
Passing(h) == \E c \in Tree : AllPass(c) /\ \A f \in Inside : c[f] = h[f]

\* A queued selection was resolved against the files still on disk, and one
\* that claims high confidence covers their difference from a passing base.
JobSound(job) ==
    /\ ~job.delta => ~job.empty /\ ~job.degraded
    /\ job.pending \in {NoSnapshot, [f \in Inside |-> disk[f]]}
    /\ (job.delta /\ ~job.full) =>
          /\ job.empty <=> job.files = {}
          /\ ~job.degraded => \E base \in Tree :
                /\ AllPass(base)
                /\ job.files = Diff(disk, base, Inside)
                /\ job.files \ Test # {} => ~DynamicSyntax
                /\ \A f \in job.files : disk[f] # Absent
    /\ job.full => ~job.empty /\ ~job.degraded

IInv ==
    /\ TypeOK
    /\ AllPass(head)
    /\ snapshot # NoSnapshot => Passing(snapshot)
    /\ report = "passed" => AllPass(disk)
    /\ \A k \in DOMAIN queue : JobSound(queue[k])

LEMMA SubmitKeeps ==
    ASSUME IInv, TypeOK', NEW job \in Job, JobSound(job), Submit(job)
    PROVE  IInv'
<1>1. UNCHANGED <<disk, head, snapshot, report>> /\ queue' = Append(queue, job)
  BY DEF Submit
<1>2. queue \in Seq(Job)
  BY DEF IInv, TypeOK
<1>3. ASSUME NEW k \in DOMAIN queue' PROVE JobSound(queue[k])'
  <2>1. queue'[k] = job \/ (k \in DOMAIN queue /\ queue'[k] = queue[k])
    BY <1>1, <1>2
  <2>2. JobSound(queue'[k])
    BY <2>1 DEF IInv
  <2> QED BY <1>1, <2>2 DEF JobSound
<1>4. \A k \in DOMAIN queue' : JobSound(queue[k])'
  BY <1>3
<1> QED BY <1>1, <1>4 DEF IInv, Passing, AllPass, Present

\* A known changed set is the difference from a tree in which every test passes.
LEMMA ChangedFromBase ==
    ASSUME SoundSetting, IInv, NEW since, NEW git \in BOOLEAN, NEW diffGit \in BOOLEAN,
           ChangedSince(since, git, diffGit).known
    PROVE  \E base \in Tree :
             AllPass(base) /\ ChangedSince(since, git, diffGit).files = Diff(disk, base, Inside)
<1>1. CASE since = "last-run" /\ git /\ snapshot # NoSnapshot
  <2>1. PICK base \in Tree : AllPass(base) /\ \A f \in Inside : base[f] = snapshot[f]
    BY <1>1 DEF IInv, Passing
  <2>2. ChangedSince(since, git, diffGit).files = Diff(disk, snapshot, Inside)
    BY <1>1 DEF ChangedSince, Known
  <2>3. Diff(disk, snapshot, Inside) = Diff(disk, base, Inside)
    BY <2>1 DEF Diff
  <2> QED BY <2>1, <2>2, <2>3
<1>2. CASE ~(since = "last-run" /\ git /\ snapshot # NoSnapshot)
  <2>1. head \in Tree /\ AllPass(head)
    BY DEF IInv, TypeOK
  <2>2. ChangedSince(since, git, diffGit) = ChangedSinceHead(diffGit)
    BY <1>2 DEF ChangedSince
  <2>3. ChangedSinceHead(diffGit) = Known(Diff(disk, head, Inside))
    BY <2>2 DEF ChangedSinceHead, Unknown
  <2> QED BY <2>1, <2>2, <2>3 DEF Known
<1> QED BY <1>1, <1>2

LEMMA ResolvedIsSound ==
    ASSUME SoundSetting, IInv, NEW since, NEW git \in BOOLEAN, NEW diffGit \in BOOLEAN
    PROVE  JobSound(Resolve(ChangedSince(since, git, diffGit), Hashes(git)))
<1> DEFINE changed == ChangedSince(since, git, diffGit)
           pending == Hashes(git)
           S == changed.files
           job == Resolve(changed, pending)
<1>1. pending \in {NoSnapshot, [f \in Inside |-> disk[f]]}
  BY DEF Hashes
<1>2. CASE job = DeltaFull(pending)
  <2>1. DeltaFull(pending).pending = pending /\ DeltaFull(pending).delta
        /\ DeltaFull(pending).full /\ DeltaFull(pending).empty = FALSE
        /\ DeltaFull(pending).degraded = FALSE
    BY DEF DeltaFull, FullRun
  <2> QED BY <1>1, <1>2, <2>1 DEF JobSound
<1>3. CASE job # DeltaFull(pending)
  <2>1. changed.known /\ (\A f \in S : disk[f] # Absent)
        /\ job = [delta |-> TRUE, full |-> FALSE, files |-> S, empty |-> S = {},
                  pending |-> pending, degraded |-> S \ Test # {} /\ DynamicSyntax]
    BY <1>3 DEF Resolve
  <2>2. \E base \in Tree : AllPass(base) /\ S = Diff(disk, base, Inside)
    BY <2>1, ChangedFromBase
  <2> HIDE DEF changed, pending, S, job
  <2>3. job.delta /\ job.full = FALSE /\ job.files = S /\ (job.empty <=> S = {})
        /\ job.pending = pending /\ (job.degraded <=> S \ Test # {} /\ DynamicSyntax)
    BY <2>1
  <2>4. S \ Test # {} => (job.degraded <=> DynamicSyntax)
    BY <2>3
  <2>5. ~job.degraded => \E base \in Tree :
            /\ AllPass(base) /\ job.files = Diff(disk, base, Inside)
            /\ job.files \ Test # {} => ~DynamicSyntax
            /\ \A f \in job.files : disk[f] # Absent
    <3>1. PICK base \in Tree : AllPass(base) /\ S = Diff(disk, base, Inside)
      BY <2>2
    <3> QED BY <2>1, <2>3, <2>4, <3>1
  <2>6. job.pending \in {NoSnapshot, [f \in Inside |-> disk[f]]}
    BY <1>1, <2>3
  <2>7. JobSound(job)
    BY <2>3, <2>5, <2>6 DEF JobSound
  <2> QED BY <2>7 DEF job, changed, pending
<1> QED BY <1>2, <1>3

LEMMA PlainIsSound ==
    ASSUME IInv
    PROVE  JobSound(FullRun) /\ \A S : JobSound([FullRun EXCEPT !.full = FALSE, !.files = S])
BY DEF FullRun, JobSound

\* A run that succeeds without being degraded leaves no failing test behind.
LEMMA SuccessIsComplete ==
    ASSUME SoundSetting, IInv, NEW job \in Job, JobSound(job), NEW threw \in BOOLEAN,
           \A t \in Executed(job, threw) : Passes(t, disk),
           ~(job.degraded /\ ~Fallback(job, threw)),
           job.delta \/ job.full \/ Fallback(job, threw)
    PROVE  AllPass(disk)
<1>1. disk \in Tree
  BY DEF IInv, TypeOK
<1>2. CASE Fallback(job, threw)
  BY <1>2 DEF Executed, Fallback, AllPass
<1>3. CASE job.full
  <2>1. Executed(job, threw) = Present(disk)
    BY <1>3 DEF Executed, Fallback, Matching, JobSound
  <2> QED BY <2>1 DEF AllPass
<1>4. CASE ~job.full /\ ~Fallback(job, threw)
  <2>1. job.delta /\ ~job.degraded
    BY <1>4
  <2>2. PICK base \in Tree : /\ AllPass(base)
                             /\ job.files = Diff(disk, base, Inside)
                             /\ job.files \ Test # {} => ~DynamicSyntax
                             /\ \A f \in job.files : disk[f] # Absent
    BY <1>4, <2>1 DEF JobSound
  <2>3. ASSUME NEW t \in Present(disk), job.files \cap ({t} \cup Static[t]) # {}
        PROVE  Passes(t, disk)
    <3>1. ~job.empty
      BY <1>4, <2>1, <2>3 DEF JobSound
    <3>2. t \in Matching(job)
      BY <2>1, <2>2, <2>3 DEF Matching
    <3> QED BY <1>4, <3>1, <3>2 DEF Executed
  <2> QED BY <1>1, <2>2, <2>3, BoundedIsComplete
<1> QED BY <1>2, <1>3, <1>4

LEMMA ExecuteKeeps ==
    ASSUME SoundSetting, IInv, TypeOK', Execute
    PROVE  IInv'
<1> DEFINE job == Head(queue)
<1>1. queue # << >> /\ Complete(job) /\ queue' = Tail(queue) /\ UNCHANGED <<disk, head>>
  BY DEF Execute
<1>2. job \in Job /\ JobSound(job)
  BY <1>1 DEF IInv, TypeOK
<1> HIDE DEF job
<1>3. PICK threw, saved, truncated \in BOOLEAN :
        LET fallback == Fallback(job, threw)
            tests    == Executed(job, threw)
            success  == \A t \in tests : Passes(t, disk)
            degraded == job.degraded /\ ~fallback
        IN  /\ snapshot' = Advance(job, success, degraded, saved)
            /\ report' = Verdict(success, degraded, ~job.delta /\ ~job.full /\ ~fallback)
            /\ \E broken \in SUBSET {t \in tests : ~Passes(t, disk)} :
                  inventory' = Reconcile(tests, truncated, broken)
  BY <1>1 DEF Complete
<1>4. snapshot' # NoSnapshot => Passing(snapshot')
  <2>1. CASE snapshot' = snapshot
    BY <2>1 DEF IInv
  <2>2. CASE snapshot' # snapshot
    <3>1. /\ job.delta /\ job.pending # NoSnapshot /\ snapshot' = job.pending
          /\ \A t \in Executed(job, threw) : Passes(t, disk)
          /\ ~(job.degraded /\ ~Fallback(job, threw))
      BY <1>3, <2>2 DEF Advance
    <3>2. AllPass(disk)
      BY <1>2, <3>1, SuccessIsComplete
    <3>3. snapshot' = [f \in Inside |-> disk[f]] /\ disk \in Tree
      BY <1>2, <3>1 DEF JobSound, IInv, TypeOK
    <3> QED BY <3>2, <3>3 DEF Passing
  <2> QED BY <2>1, <2>2
<1>5. report' = "passed" => AllPass(disk)
  <2> SUFFICES ASSUME report' = "passed" PROVE AllPass(disk)
    OBVIOUS
  <2>1. /\ \A t \in Executed(job, threw) : Passes(t, disk)
        /\ ~(job.degraded /\ ~Fallback(job, threw))
        /\ job.delta \/ job.full \/ Fallback(job, threw)
    BY <1>3 DEF Verdict
  <2> QED BY <1>2, <2>1, SuccessIsComplete
<1>6. \A k \in DOMAIN queue' : JobSound(queue[k])'
  <2>1. ASSUME NEW k \in DOMAIN queue' PROVE JobSound(queue'[k])
    <3>1. k + 1 \in DOMAIN queue /\ queue'[k] = queue[k + 1]
      BY <1>1, <2>1 DEF IInv, TypeOK
    <3> QED BY <3>1 DEF IInv
  <2> QED BY <1>1, <2>1 DEF JobSound
<1> QED BY <1>1, <1>4, <1>5, <1>6 DEF IInv, Passing, AllPass, Present

LEMMA FailKeeps ==
    ASSUME IInv, TypeOK', Fail \/ Restart
    PROVE  IInv'
<1>1. UNCHANGED <<disk, head, snapshot>> /\ report' \in {"failed", report}
  BY DEF Fail, Restart
<1>2. \A k \in DOMAIN queue' : JobSound(queue[k])'
  <2>1. ASSUME NEW k \in DOMAIN queue' PROVE JobSound(queue'[k])
    <3>1. CASE Fail
      <4>1. k + 1 \in DOMAIN queue /\ queue'[k] = queue[k + 1]
        BY <2>1, <3>1 DEF IInv, TypeOK, Fail
      <4> QED BY <4>1 DEF IInv
    <3>2. CASE Restart
      BY <2>1, <3>2 DEF Restart
    <3> QED BY <3>1, <3>2
  <2> QED BY <1>1, <2>1 DEF JobSound
<1> QED BY <1>1, <1>2 DEF IInv, Passing, AllPass, Present

LEMMA StepKeeps == SoundSetting /\ IInv /\ [Next]_vars => IInv'
<1> SUFFICES ASSUME SoundSetting, IInv, [Next]_vars PROVE IInv'
  OBVIOUS
<1>0. TypeOK /\ TypeOK'
  BY TypeStep DEF IInv
<1>1. CASE \E since \in Sinces : RequestDelta(since)
  <2>1. PICK since \in Sinces, git \in BOOLEAN, diffGit \in BOOLEAN :
          Submit(Resolve(ChangedSince(since, git, diffGit), Hashes(git)))
    BY <1>1 DEF RequestDelta
  <2> QED BY <1>0, <2>1, HashesType, ChangedType, JobType, ResolvedIsSound, SubmitKeeps
<1>2. CASE RequestFull
  BY <1>0, <1>2, FullRunType, PlainIsSound, SubmitKeeps DEF RequestFull
<1>3. ASSUME NEW f \in Test, RequestFiles({f}) PROVE IInv'
  <2>1. {f} \in SUBSET File
    BY DEF File
  <2> QED BY <1>0, <1>3, <2>1, FullRunType, PlainIsSound, SubmitKeeps DEF RequestFiles
<1>4. CASE Execute
  BY <1>0, <1>4, ExecuteKeeps
<1>5. CASE Fail \/ Restart
  BY <1>0, <1>5, FailKeeps
<1>6. ASSUME NEW f \in File, NEW c \in Content \cup {Absent}, Edit(f, c) PROVE IInv'
  <2>1. UNCHANGED <<head, snapshot>> /\ queue' = << >> /\ report' = "none"
    BY <1>6 DEF Edit, SoundSetting
  <2> QED BY <1>0, <2>1 DEF IInv, Passing, AllPass, Present
<1>7. CASE Commit
  <2>1. UNCHANGED <<disk, snapshot, queue, report>> /\ AllPass(head')
    BY <1>7 DEF Commit, SoundSetting
  <2> QED BY <1>0, <2>1 DEF IInv, Passing, AllPass, Present, JobSound
<1>8. CASE LoseSnapshot
  BY <1>0, <1>8 DEF LoseSnapshot, IInv, Passing, AllPass, Present, JobSound
<1>9. CASE UNCHANGED vars
  BY <1>0, <1>9 DEF vars, IInv, Passing, AllPass, Present, JobSound
<1> QED
  BY <1>1, <1>2, <1>3, <1>4, <1>5, <1>6, <1>7, <1>8, <1>9 DEF Next

LEMMA InitSound == SoundSetting /\ Init => IInv
BY TypeInit DEF IInv, Init, SoundSetting

LEMMA BaselineSound == SoundSetting /\ IInv => NoHiddenRegression /\ HighConfidenceSound
<1> SUFFICES ASSUME SoundSetting, IInv, snapshot # NoSnapshot, Diff(disk, snapshot, Inside) = {}
             PROVE  AllPass(disk)
  BY DEF NoHiddenRegression, HighConfidenceSound, IInv
<1>1. PICK c \in Tree : AllPass(c) /\ \A f \in Inside : c[f] = snapshot[f]
  BY DEF IInv, Passing
<1>2. \A f \in Inside : c[f] = disk[f]
  BY <1>1 DEF Diff
<1> QED BY <1>1, <1>2, InsideDecides DEF IInv, TypeOK

\* No regression is hidden behind the last-run snapshot: in the sound setting,
\* files equal to the baseline pass every test of the project.
THEOREM NeverUnderSelects == SoundSetting => (Spec => []NoHiddenRegression)
<1> SUFFICES ASSUME SoundSetting PROVE Spec => []NoHiddenRegression
  OBVIOUS
<1>1. Init => IInv
  BY InitSound
<1>2. IInv /\ [Next]_vars => IInv'
  BY StepKeeps
<1>3. IInv => NoHiddenRegression
  BY BaselineSound
<1> QED BY <1>1, <1>2, <1>3, PTL DEF Spec

\* A run reported as successful with high confidence would have passed in
\* full, whatever the selection left out.
THEOREM HighConfidenceMeansComplete == SoundSetting => (Spec => []HighConfidenceSound)
<1> SUFFICES ASSUME SoundSetting PROVE Spec => []HighConfidenceSound
  OBVIOUS
<1>1. Init => IInv
  BY InitSound
<1>2. IInv /\ [Next]_vars => IInv'
  BY StepKeeps
<1>3. IInv => HighConfidenceSound
  BY BaselineSound
<1> QED BY <1>1, <1>2, <1>3, PTL DEF Spec
================================================================================
