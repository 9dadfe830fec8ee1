----------------------------- MODULE ClientProofs -----------------------------
(***************************************************************************)
(* Proofs about what a client downloads, chooses and puts in force: the    *)
(* packages it puts in place of others (Packages), the core it chooses for *)
(* its host (CoreChoice), and the tables and policy routes that capture    *)
(* traffic on a gateway (Interception) and on a router (GatewayCapture);   *)
(* for any number of callers, hosts, documents and setups, and any faults. *)
(***************************************************************************)
EXTENDS Traffic, Packages, CoreChoice, Interception, GatewayCapture, FiniteSetTheorems, TLAPS

(***************************************************************************)
(* Packages.  Its web interface: as long as an activation has the           *)
(* directories to itself, they hold at each step what the step expects;    *)
(* without faults, who moved the interface aside will put another there,   *)
(* and with at most two callers nobody restores what is being deleted.     *)
(***************************************************************************)
ActiveJob(j) == ~IdleCaller(j)
ActivationSteps ==
    {"clear", "cleared", "look", "move", "place", "restore", "drop", "dropped", "end"}
UiSteps == ActivationSteps \cup {"idle", "delete", "deleted"}
Directories == [package : Nat, whole : BOOLEAN]
UiJobs == [step : UiSteps, package : Nat, alone : BOOLEAN]
Whole(n) == [package |-> n, whole |-> TRUE]
FitsStep(job) ==
    /\ job.step = "idle" => job = IdleJob
    /\ job.step \in ActivationSteps <=> job.package # 0
    /\ job.step \in {"delete", "deleted"} => removed
UiTyped ==
    /\ proposal \in Nat /\ prepared \in Nat /\ current \in Directories /\ backup \in Directories
    /\ jobs \in [Job -> UiJobs] /\ expected \in Nat /\ packageFaults \in Nat
    /\ spoiled \in BOOLEAN /\ crowded \in BOOLEAN /\ removed \in BOOLEAN
    /\ \A j \in Job : FitsStep(jobs[j])
    /\ expected = 0 /\ ~removed => current = NoDirectory /\ backup = NoDirectory

UiOnce ==
    /\ proposal <= prepared /\ \A j \in Job : jobs[j].package <= prepared
    /\ ActivatedOnce

\* An activation that began with the directories to itself and still has them.
ByItself ==
    /\ \A j, k \in Job : jobs[j].alone /\ j # k => IdleCaller(k)
    /\ ~spoiled => \A j \in Job : ActiveJob(j) => jobs[j].alone
    /\ \A j \in Job : jobs[j].alone /\ jobs[j].step \in {"drop", "dropped", "end"} =>
         /\ expected = jobs[j].package /\ current = Whole(expected)
         /\ jobs[j].step = "end" => backup = NoDirectory

\* What the directories hold at each step of such an activation.  A backup that it finds was
\* left by a fault, and that it still has it when it looks at the directories is another.
Exact ==
    /\ expected # 0 => current = Whole(expected)
    /\ expected = 0 => current = NoDirectory \/ (removed /\ packageFaults > 2)
LeftBy(n) == backup = NoDirectory \/ packageFaults >= n
Replaced(n) ==
    /\ current = NoDirectory
    /\ expected # 0 => backup = Whole(expected)
    /\ expected = 0 => LeftBy(n)
FitFor(step) ==
    /\ step \notin {"place", "restore", "deleted"} => Exact
    /\ step \in {"idle", "clear", "delete", "deleted"} => LeftBy(1)
    /\ step \in {"look", "move"} => LeftBy(2)
    /\ step = "place" => Replaced(2)
    /\ step = "restore" => Replaced(3)
    /\ step = "delete" => expected # 0
    /\ step = "deleted" => ~current.whole
Exactly ==
    ~spoiled => /\ Quiet => FitFor("idle")
                /\ \A j \in Job : ActiveJob(j) => FitFor(jobs[j].step)

\* Without faults: who moved the interface aside will put another in its place, and what is
\* partly deleted is so by one who goes on to delete it.
Few == \A i, j, k \in Job : ActiveJob(i) /\ ActiveJob(j) /\ ActiveJob(k) => i = j \/ j = k \/ i = k
KeptThere ==
    packageFaults = 0 /\ ~removed =>
        /\ expected # 0 /\ current = NoDirectory => \E j \in Job : jobs[j].step = "place"
        /\ ~crowded =>
             /\ Few /\ current.whole
             /\ ~backup.whole => \E j \in Job : jobs[j].step \in {"cleared", "dropped"}
UiInv == UiTyped /\ UiOnce /\ ByItself /\ Exactly /\ KeptThere

LEMMA NoDirectoryIs ==
    /\ NoDirectory \in Directories /\ NoDirectory.whole = TRUE /\ Torn(NoDirectory) = NoDirectory
    /\ \A d \in Directories : /\ Torn(d) \in Directories
                              /\ d # NoDirectory => ~Torn(d).whole
                              /\ Torn(d) = NoDirectory <=> d = NoDirectory
    /\ \A n \in Nat : /\ Whole(n) \in Directories /\ Whole(n).whole = TRUE
                      /\ n # 0 => Whole(n) # NoDirectory
BY DEF NoDirectory, Directories, Torn, Whole

LEMMA IdleIs == /\ IdleJob \in UiJobs /\ IdleJob.step = "idle" /\ IdleJob.package = 0
                /\ IdleJob.alone = FALSE
BY DEF IdleJob, UiJobs, UiSteps

LEMMA ActiveIs == ASSUME UiTyped, NEW j \in Job PROVE ActiveJob(j) <=> jobs[j].step # "idle"
BY IdleIs DEF UiTyped, FitsStep, ActiveJob, IdleCaller

\* A caller goes from one step to another.
Moves(j, s) ==
    /\ jobs' \in [Job -> UiJobs]
    /\ jobs'[j].step = s
    /\ s = "idle" => jobs'[j] = IdleJob
    /\ s # "idle" => jobs'[j].package = jobs[j].package /\ jobs'[j].alone = jobs[j].alone
    /\ \A k \in Job : k # j => jobs'[k] = jobs[k]

LEMMA GoesIs ==
    ASSUME UiTyped, NEW j \in Job, NEW s \in UiSteps \ {"idle"}, JobGoes(j, s)
    PROVE  Moves(j, s)
BY DEF UiTyped, JobGoes, Moves, UiJobs

LEMMA EndsIs ==
    ASSUME UiTyped, NEW j \in Job, JobEnds(j)
    PROVE  Moves(j, "idle")
BY IdleIs DEF UiTyped, JobEnds, Moves

\* Where a caller may go from its step.
GoesFrom(f, s) ==
    \/ s = "idle"
    \/ f \in ActivationSteps /\ s \in ActivationSteps
    \/ f = "delete" /\ s = "deleted"

LEMMA MovesTyped ==
    ASSUME UiTyped, UiOnce, NEW j \in Job, NEW s, Moves(j, s), GoesFrom(jobs[j].step, s),
           UNCHANGED <<proposal, prepared, removed>>, crowded' \in BOOLEAN, spoiled' \in BOOLEAN,
           packageFaults' \in Nat, current' \in Directories, backup' \in Directories,
           expected' \in Nat,
           expected' = 0 /\ ~removed => current' = NoDirectory /\ backup' = NoDirectory
    PROVE  UiTyped' /\ UiOnce'
<1>1. FitsStep(jobs[j]) BY DEF UiTyped
<1>2. FitsStep(jobs[j])'
  <2>1. CASE s = "idle" BY <2>1, IdleIs DEF Moves, FitsStep, ActivationSteps
  <2>2. CASE s # "idle" /\ jobs[j].step \in ActivationSteps /\ s \in ActivationSteps
    BY <1>1, <2>2 DEF Moves, FitsStep, ActivationSteps
  <2>3. CASE jobs[j].step = "delete" /\ s = "deleted"
    BY <1>1, <2>3 DEF Moves, FitsStep, ActivationSteps
  <2> QED BY <2>1, <2>2, <2>3 DEF GoesFrom, ActivationSteps
<1>3. \A k \in Job : FitsStep(jobs[k])'
  <2> SUFFICES ASSUME NEW k \in Job PROVE FitsStep(jobs[k])' OBVIOUS
  <2>1. FitsStep(jobs[k]) BY DEF UiTyped
  <2>2. CASE k # j BY <2>1, <2>2 DEF Moves, FitsStep
  <2> QED BY <1>2, <2>2
<1>4. UiTyped' BY <1>3 DEF UiTyped, Moves
<1>5. \A k \in Job : jobs'[k].package \in {0, jobs[k].package}
  BY IdleIs DEF Moves
<1>6. UiOnce'
  BY <1>5 DEF UiOnce, UiTyped, UiJobs, ActivatedOnce
<1> QED BY <1>4, <1>6

LEMMA MovesByItself ==
    ASSUME UiTyped, UiTyped', ByItself, NEW j \in Job, NEW s, Moves(j, s), ActiveJob(j),
           spoiled => spoiled' \/ jobs[j].alone,
           jobs[j].alone /\ s \in {"drop", "dropped", "end"} =>
             /\ expected' = jobs[j].package /\ current' = Whole(expected')
             /\ s = "end" => backup' = NoDirectory
    PROVE  ByItself'
<1>1. \A k \in Job : /\ ActiveJob(k) <=> jobs[k].step # "idle"
                     /\ ActiveJob(k)' <=> jobs'[k].step # "idle"
  BY ActiveIs, IdleIs DEF UiTyped, FitsStep, ActiveJob, IdleCaller
<1>2. \A k \in Job : /\ ActiveJob(k)' => ActiveJob(k)
                     /\ jobs'[k].alone => jobs[k].alone
                     /\ ActiveJob(k)' => jobs'[k].alone = jobs[k].alone
  BY <1>1, IdleIs DEF Moves
<1>3. (\A i, k \in Job : jobs[i].alone /\ i # k => IdleCaller(k))'
  BY <1>2 DEF ByItself, ActiveJob
<1>4. (~spoiled => \A k \in Job : ActiveJob(k) => jobs[k].alone)'
  BY <1>2 DEF ByItself, ActiveJob
<1>5. ASSUME NEW i \in Job, jobs'[i].alone, jobs'[i].step \in {"drop", "dropped", "end"}
      PROVE  /\ expected' = jobs'[i].package /\ current' = Whole(expected')
             /\ jobs'[i].step = "end" => backup' = NoDirectory
  <2>1. jobs[i].alone BY <1>2, <1>5
  <2>2. ActiveJob(i)' BY <1>1, <1>5
  <2>3. i = j BY <1>2, <2>1, <2>2 DEF ByItself, ActiveJob
  <2>4. s # "idle" /\ jobs'[j].step = s /\ jobs'[j].package = jobs[j].package
    BY <1>5, <2>3 DEF Moves
  <2> QED BY <1>5, <2>1, <2>3, <2>4
<1> QED BY <1>3, <1>4, <1>5 DEF ByItself

LEMMA MovesExactly ==
    ASSUME UiTyped, UiTyped', NEW j \in Job, NEW s, Moves(j, s),
           \A k \in Job : k # j => IdleCaller(k), FitFor(s)'
    PROVE  Exactly'
<1>1. \A k \in Job : ActiveJob(k)' <=> jobs'[k].step # "idle"
  BY IdleIs DEF UiTyped, FitsStep, ActiveJob, IdleCaller
<1>2. \A k \in Job : ActiveJob(k)' => k = j BY <1>1, IdleIs DEF Moves, IdleCaller
<1>3. jobs'[j].step = s BY DEF Moves
<1>4. Quiet' => s = "idle" BY <1>1, <1>3 DEF Quiet, ActiveJob
<1> QED BY <1>2, <1>3, <1>4 DEF Exactly

\* The steps that a caller takes, and what becomes of the directories.
LEMMA FitAlone ==
    ASSUME UiTyped, ByItself, Exactly, NEW j \in Job, ActiveJob(j), ~spoiled
    PROVE  FitFor(jobs[j].step) /\ jobs[j].alone /\ \A k \in Job : k # j => IdleCaller(k)
BY DEF ByItself, Exactly, ActiveJob

LEMMA KeptFrom ==
    ASSUME UiTyped, UiTyped', KeptThere, NEW j \in Job, NEW s, Moves(j, s), ActiveJob(j),
           packageFaults' = packageFaults, removed' = removed, crowded' = crowded,
           packageFaults = 0 /\ ~removed /\ expected' # 0 /\ current' = NoDirectory =>
             s = "place" \/ (jobs[j].step # "place" /\ expected # 0 /\ current = NoDirectory),
           packageFaults = 0 /\ ~removed /\ ~crowded /\ Few /\ current.whole =>
             /\ current'.whole
             /\ ~backup'.whole =>
                  s \in {"cleared", "dropped"}
                  \/ (jobs[j].step \notin {"cleared", "dropped"} /\ ~backup.whole)
    PROVE  KeptThere'
<1>1. \A k \in Job : ActiveJob(k)' <=> jobs'[k].step # "idle"
  BY IdleIs DEF UiTyped, FitsStep, ActiveJob, IdleCaller
<1>2. \A k \in Job : ActiveJob(k)' => ActiveJob(k) BY <1>1, ActiveIs DEF Moves
<1>3. Few => Few' BY <1>2 DEF Few
<1>4. ASSUME NEW S, \E k \in Job : jobs[k].step \in S, jobs[j].step \notin S
      PROVE  \E k \in Job : jobs'[k].step \in S
  BY <1>4 DEF Moves
<1>5. ASSUME packageFaults = 0, ~removed, expected' # 0, current' = NoDirectory
      PROVE  \E k \in Job : jobs'[k].step = "place"
  <2>1. CASE s = "place" BY <2>1 DEF Moves
  <2>2. CASE jobs[j].step # "place" /\ expected # 0 /\ current = NoDirectory
    <3>1. \E k \in Job : jobs[k].step = "place" BY <1>5, <2>2 DEF KeptThere
    <3>2. PICK S : S = {"place"} OBVIOUS
    <3> QED BY <1>4, <2>2, <3>1, <3>2
  <2> QED BY <1>5, <2>1, <2>2
<1>6. ASSUME packageFaults = 0, ~removed, ~crowded
      PROVE  /\ Few' /\ current'.whole
             /\ ~backup'.whole => \E k \in Job : jobs'[k].step \in {"cleared", "dropped"}
  <2>1. Few /\ current.whole BY <1>6 DEF KeptThere
  <2>2. Few' /\ current'.whole BY <1>3, <1>6, <2>1
  <2>3. ASSUME ~backup'.whole PROVE \E k \in Job : jobs'[k].step \in {"cleared", "dropped"}
    <3>1. CASE s \in {"cleared", "dropped"} BY <3>1 DEF Moves
    <3>2. CASE jobs[j].step \notin {"cleared", "dropped"} /\ ~backup.whole
      <4>1. \E k \in Job : jobs[k].step \in {"cleared", "dropped"} BY <1>6, <3>2 DEF KeptThere
      <4> QED BY <1>4, <3>2, <4>1
    <3> QED BY <1>6, <2>1, <2>3, <3>1, <3>2
  <2> QED BY <2>2, <2>3
<1> QED BY <1>5, <1>6 DEF KeptThere

\* All the caller's steps that change the directories or not, but are no failure.
LEMMA CarryUi ==
    ASSUME UiInv, NEW j \in Job, NEW s, Moves(j, s), ActiveJob(j), GoesFrom(jobs[j].step, s),
           Uncrowded, current' \in Directories, backup' \in Directories, expected' \in Nat,
           expected' = 0 /\ ~removed => current' = NoDirectory /\ backup' = NoDirectory,
           jobs[j].alone /\ s \in {"drop", "dropped", "end"} =>
             /\ expected' = jobs[j].package /\ current' = Whole(expected')
             /\ s = "end" => backup' = NoDirectory,
           ~spoiled /\ jobs[j].alone /\ FitFor(jobs[j].step) => FitFor(s)',
           packageFaults = 0 /\ ~removed /\ expected' # 0 /\ current' = NoDirectory =>
             s = "place" \/ (jobs[j].step # "place" /\ expected # 0 /\ current = NoDirectory),
           packageFaults = 0 /\ ~removed /\ ~crowded /\ Few /\ current.whole =>
             /\ current'.whole
             /\ ~backup'.whole =>
                  s \in {"cleared", "dropped"}
                  \/ (jobs[j].step \notin {"cleared", "dropped"} /\ ~backup.whole)
    PROVE  UiInv'
<1> USE DEF UiInv, Uncrowded
<1>1. UiTyped' /\ UiOnce'
  <2>1. /\ crowded' \in BOOLEAN /\ spoiled' \in BOOLEAN /\ packageFaults' \in Nat BY DEF UiTyped
  <2> QED BY <2>1, MovesTyped
<1>2. ByItself' BY <1>1, MovesByItself
<1>3. Exactly'
  <2>1. CASE spoiled BY <2>1 DEF Exactly
  <2>2. CASE ~spoiled BY <1>1, <2>2, FitAlone, MovesExactly
  <2> QED BY <2>1, <2>2
<1>4. KeptThere' BY <1>1, KeptFrom
<1> QED BY <1>1, <1>2, <1>3, <1>4


LEMMA StepIs ==
    ASSUME UiInv, NEW j \in Job, NEW f \in UiSteps, JobAt(j, f), f # "idle"
    PROVE  /\ ActiveJob(j) /\ jobs[j].step = f /\ current \in Directories /\ backup \in Directories
           /\ expected \in Nat /\ jobs[j].package \in Nat
           /\ jobs[j].package # 0 <=> f \in ActivationSteps
           /\ expected = 0 /\ ~removed => current = NoDirectory /\ backup = NoDirectory
           /\ f \in {"delete", "deleted"} => removed
           /\ jobs[j].alone /\ f \in {"drop", "dropped", "end"} =>
                expected = jobs[j].package /\ current = Whole(expected)
BY ActiveIs DEF UiInv, UiTyped, UiJobs, FitsStep, JobAt, ByItself

LEMMA DeletesKeep == ASSUME UiInv, NEW j \in Job, DeletePrevious(j) PROVE UiInv'
<1>0. UiTyped BY DEF UiInv
<1> USE DEF FitFor, LeftBy, Exact, GoesFrom, UiSteps, ActivationSteps
<1>1. CASE JobAt(j, "clear") /\ backup = NoDirectory
  <2>1. UNCHANGED <<current, backup, expected>> /\ Uncrowded /\ JobGoes(j, "look")
    BY <1>1, NoDirectoryIs DEF DeletePrevious, JobAt
  <2>2. Moves(j, "look") BY <1>0, <2>1, GoesIs
  <2>3. FitFor(jobs[j].step) => FitFor("look")' BY <1>1, <2>1 DEF Uncrowded, JobAt
  <2> HIDE DEF FitFor
  <2> QED BY <1>1, <2>1, <2>2, <2>3, StepIs, CarryUi
<1>2. CASE JobAt(j, "clear") /\ backup # NoDirectory
  <2>1. /\ UNCHANGED <<current, expected>> /\ Uncrowded /\ JobGoes(j, "cleared")
        /\ backup' = Torn(backup)
    BY <1>2 DEF DeletePrevious, JobAt
  <2>2. Moves(j, "cleared") BY <1>0, <2>1, GoesIs
  <2>3. FitFor(jobs[j].step) => FitFor("cleared")' BY <1>2, <2>1 DEF Uncrowded, JobAt
  <2>4. backup' \in Directories BY <2>1, NoDirectoryIs DEF UiInv, UiTyped
  <2>5. expected' = 0 /\ ~removed => current' = NoDirectory /\ backup' = NoDirectory
    BY <1>2, <2>1, StepIs
  <2> HIDE DEF FitFor
  <2> QED BY <1>2, <2>1, <2>2, <2>3, <2>4, <2>5, StepIs, CarryUi
<1>3. CASE JobAt(j, "cleared")
  <2>1. /\ UNCHANGED <<current, expected>> /\ Uncrowded /\ JobGoes(j, "look")
        /\ backup' = NoDirectory
    BY <1>3 DEF DeletePrevious, JobAt
  <2>2. Moves(j, "look") BY <1>0, <2>1, GoesIs
  <2>3. FitFor(jobs[j].step) => FitFor("look")' BY <1>3, <2>1 DEF Uncrowded, JobAt
  <2> HIDE DEF FitFor
  <2> QED BY <1>3, <2>1, <2>2, <2>3, StepIs, CarryUi, NoDirectoryIs
<1>4. CASE JobAt(j, "drop") /\ backup = NoDirectory
  <2>1. UNCHANGED <<current, backup, expected>> /\ Uncrowded /\ JobGoes(j, "end")
    BY <1>4, NoDirectoryIs DEF DeletePrevious, JobAt
  <2>2. Moves(j, "end") BY <1>0, <2>1, GoesIs
  <2>3. FitFor(jobs[j].step) => FitFor("end")' BY <1>4, <2>1 DEF Uncrowded, JobAt
  <2> HIDE DEF FitFor
  <2> QED BY <1>4, <2>1, <2>2, <2>3, StepIs, CarryUi
<1>5. CASE JobAt(j, "drop") /\ backup # NoDirectory
  <2>1. /\ UNCHANGED <<current, expected>> /\ Uncrowded /\ JobGoes(j, "dropped")
        /\ backup' = Torn(backup)
    BY <1>5 DEF DeletePrevious, JobAt
  <2>2. Moves(j, "dropped") BY <1>0, <2>1, GoesIs
  <2>3. FitFor(jobs[j].step) => FitFor("dropped")' BY <1>5, <2>1 DEF Uncrowded, JobAt
  <2>4. backup' \in Directories BY <2>1, NoDirectoryIs DEF UiInv, UiTyped
  <2>5. expected' = 0 /\ ~removed => current' = NoDirectory /\ backup' = NoDirectory
    BY <1>5, <2>1, StepIs
  <2> HIDE DEF FitFor
  <2> QED BY <1>5, <2>1, <2>2, <2>3, <2>4, <2>5, StepIs, CarryUi
<1>6. CASE JobAt(j, "dropped")
  <2>1. /\ UNCHANGED <<current, expected>> /\ Uncrowded /\ JobGoes(j, "end")
        /\ backup' = NoDirectory
    BY <1>6 DEF DeletePrevious, JobAt
  <2>2. Moves(j, "end") BY <1>0, <2>1, GoesIs
  <2>3. FitFor(jobs[j].step) => FitFor("end")' BY <1>6, <2>1 DEF Uncrowded, JobAt
  <2> HIDE DEF FitFor
  <2> QED BY <1>6, <2>1, <2>2, <2>3, StepIs, CarryUi, NoDirectoryIs
<1> QED BY <1>1, <1>2, <1>3, <1>4, <1>5, <1>6 DEF DeletePrevious

LEMMA LooksKeep == ASSUME UiInv, NEW j \in Job, Look(j) PROVE UiInv'
<1>0. UiTyped /\ JobAt(j, "look") /\ UNCHANGED <<current, backup, expected>> /\ Uncrowded
  BY DEF UiInv, Look
<1> USE DEF FitFor, LeftBy, Exact, Replaced, GoesFrom, UiSteps, ActivationSteps
<1>1. CASE current = NoDirectory
  <2>1. Moves(j, "place") BY <1>0, <1>1, GoesIs DEF Look
  <2>2. FitFor(jobs[j].step) => FitFor("place")'
    BY <1>0, <1>1, NoDirectoryIs, StepIs DEF Uncrowded, JobAt
  <2> HIDE DEF FitFor
  <2> QED BY <1>0, <2>1, <2>2, StepIs, CarryUi
<1>2. CASE current # NoDirectory
  <2>1. Moves(j, "move") BY <1>0, <1>2, GoesIs DEF Look
  <2>2. FitFor(jobs[j].step) => FitFor("move")' BY <1>0 DEF Uncrowded, JobAt
  <2> HIDE DEF FitFor
  <2> QED BY <1>0, <2>1, <2>2, StepIs, CarryUi
<1> QED BY <1>1, <1>2

LEMMA MovesAsideKeep == ASSUME UiInv, NEW j \in Job, MoveAside(j) PROVE UiInv'
<1>0. UiTyped /\ JobAt(j, "move") /\ expected' = expected /\ Uncrowded BY DEF UiInv, MoveAside
<1> USE DEF FitFor, LeftBy, Exact, Replaced, GoesFrom, UiSteps, ActivationSteps
<1>1. CASE current = NoDirectory \/ backup # NoDirectory
  <2>1. JobEnds(j) /\ UNCHANGED <<current, backup>> BY <1>1 DEF MoveAside
  <2>2. Moves(j, "idle") BY <1>0, <2>1, EndsIs
  <2>3. packageFaults \in Nat BY DEF UiInv, UiTyped
  <2>4. FitFor(jobs[j].step) => FitFor("idle")' BY <1>0, <2>1, <2>3 DEF Uncrowded, JobAt
  <2> HIDE DEF FitFor
  <2> QED BY <1>0, <2>1, <2>2, <2>4, StepIs, CarryUi
<1>2. CASE current # NoDirectory /\ backup = NoDirectory
  <2>1. JobGoes(j, "place") /\ backup' = current /\ current' = NoDirectory
    BY <1>2 DEF MoveAside
  <2>2. Moves(j, "place") BY <1>0, <2>1, GoesIs
  <2>3. packageFaults \in Nat BY DEF UiInv, UiTyped
  <2>4. FitFor(jobs[j].step) => FitFor("place")'
    BY <1>0, <1>2, <2>1, <2>3 DEF Uncrowded, JobAt
  <2>5. expected' = 0 /\ ~removed => current' = NoDirectory /\ backup' = NoDirectory
    BY <1>0, <1>2, StepIs
  <2> HIDE DEF FitFor
  <2> QED BY <1>0, <2>1, <2>2, <2>4, <2>5, StepIs, CarryUi, NoDirectoryIs
<1> QED BY <1>1, <1>2

LEMMA PlacesKeep == ASSUME UiInv, NEW j \in Job, PlaceUi(j) PROVE UiInv'
<1>0. UiTyped /\ JobAt(j, "place") /\ backup' = backup /\ Uncrowded BY DEF UiInv, PlaceUi
<1> USE DEF FitFor, LeftBy, Exact, Replaced, GoesFrom, UiSteps, ActivationSteps
<1>1. CASE current # NoDirectory
  <2>1. JobGoes(j, "restore") /\ UNCHANGED <<current, expected>> BY <1>1 DEF PlaceUi
  <2>2. Moves(j, "restore") BY <1>0, <2>1, GoesIs
  <2>3. ~FitFor(jobs[j].step) BY <1>0, <1>1 DEF JobAt
  <2> HIDE DEF FitFor
  <2> QED BY <1>0, <1>1, <2>1, <2>2, <2>3, StepIs, CarryUi
<1>2. CASE current = NoDirectory
  <2>1. JobGoes(j, "drop") /\ expected' = jobs[j].package /\ current' = Whole(expected')
    BY <1>2 DEF PlaceUi, Whole
  <2>2. Moves(j, "drop") BY <1>0, <2>1, GoesIs
  <2>3. expected' \in Nat /\ expected' # 0 BY <1>0, <2>1, StepIs
  <2>4. FitFor("drop")' BY <2>1, <2>3
  <2>5. /\ current' \in Directories /\ current'.whole /\ current' # NoDirectory
    BY <2>1, <2>3, NoDirectoryIs
  <2> HIDE DEF FitFor
  <2> QED BY <1>0, <2>1, <2>2, <2>3, <2>4, <2>5, StepIs, CarryUi
<1> QED BY <1>1, <1>2

\* Of two callers, the one that restores does not find what the other is deleting: that one
\* would have moved the interface aside, and goes on to place its own.
LEMMA RestoresKeep == ASSUME UiInv, NEW j \in Job, RestoreUi(j) PROVE UiInv'
<1>0. UiTyped /\ JobAt(j, "restore") /\ expected' = expected /\ Uncrowded /\ JobEnds(j)
  BY DEF UiInv, RestoreUi
<1>3. Moves(j, "idle") BY <1>0, EndsIs
<1>4. packageFaults \in Nat BY DEF UiInv, UiTyped
<1> USE DEF FitFor, LeftBy, Exact, Replaced, GoesFrom, UiSteps, ActivationSteps
<1>1. CASE backup # NoDirectory /\ current = NoDirectory
  <2>1. current' = backup /\ backup' = NoDirectory BY <1>1 DEF RestoreUi
  <2>2. expected' = 0 => removed BY <1>0, <1>1, StepIs
  <2>3. FitFor(jobs[j].step) => FitFor("idle")'
    BY <1>0, <1>1, <1>4, <2>1, <2>2 DEF Uncrowded, JobAt
  <2>4. ASSUME packageFaults = 0, ~removed, ~crowded, Few PROVE backup.whole
    <3>1. PICK p \in Job : jobs[p].step = "place"
      BY <1>0, <1>1, <2>2, <2>4 DEF UiInv, KeptThere
    <3>2. ASSUME ~backup.whole PROVE FALSE
      <4>1. PICK q \in Job : jobs[q].step \in {"cleared", "dropped"}
        BY <2>4, <3>2 DEF UiInv, KeptThere
      <4>2. ActiveJob(j) /\ ActiveJob(p) /\ ActiveJob(q) BY <1>0, <3>1, <4>1, ActiveIs DEF JobAt
      <4>3. j # p /\ p # q /\ j # q BY <1>0, <3>1, <4>1 DEF JobAt
      <4> QED BY <2>4, <4>2, <4>3 DEF Few
    <3> QED BY <3>2, NoDirectoryIs
  <2> HIDE DEF FitFor
  <2> QED BY <1>0, <1>1, <1>3, <2>1, <2>2, <2>3, <2>4, StepIs, CarryUi, NoDirectoryIs
<1>2. CASE ~(backup # NoDirectory /\ current = NoDirectory)
  <2>1. UNCHANGED <<current, backup>> BY <1>2 DEF RestoreUi
  <2>2. FitFor(jobs[j].step) => FitFor("idle")'
    BY <1>0, <1>2, <1>4, <2>1, NoDirectoryIs, StepIs DEF Uncrowded, JobAt
  <2> HIDE DEF FitFor
  <2> QED BY <1>0, <1>3, <2>1, <2>2, StepIs, CarryUi
<1> QED BY <1>1, <1>2

\* An activation that had the directories to itself to the end makes them as good as new.
LEMMA EndsKeep == ASSUME UiInv, NEW j \in Job, EndActivation(j) PROVE UiInv'
<1>0. /\ UiTyped /\ UiOnce /\ ByItself /\ KeptThere /\ JobAt(j, "end") /\ JobEnds(j)
      /\ UNCHANGED <<current, backup, expected, proposal, prepared, crowded, removed,
                     packageFaults>>
  BY DEF UiInv, EndActivation
<1>1. Moves(j, "idle") /\ GoesFrom(jobs[j].step, "idle") BY <1>0, EndsIs DEF GoesFrom
<1>2. ActiveJob(j) /\ jobs[j].step = "end" BY <1>0, StepIs DEF UiSteps, ActivationSteps
<1>3. CASE jobs[j].alone
  <2>1. /\ expected = jobs[j].package /\ current = Whole(expected) /\ backup = NoDirectory
        /\ expected # 0
    BY <1>0, <1>2, <1>3 DEF ByItself, UiTyped, FitsStep, ActivationSteps
  <2>2. spoiled' = FALSE BY <1>3, <1>0 DEF EndActivation, UiTyped
  <2>3. UiTyped' /\ UiOnce'
    <3>1. /\ crowded' \in BOOLEAN /\ spoiled' \in BOOLEAN /\ packageFaults' \in Nat
          /\ current' \in Directories /\ backup' \in Directories /\ expected' \in Nat
      BY <1>0, <2>2 DEF UiTyped
    <3> QED BY <1>0, <1>1, <2>1, <3>1, MovesTyped
  <2>4. ByItself' BY <1>0, <1>1, <1>2, <1>3, <2>3, MovesByItself
  <2>5. FitFor("idle")' BY <1>0, <2>1 DEF FitFor, Exact, LeftBy
  <2>6. \A k \in Job : k # j => IdleCaller(k) BY <1>0, <1>3 DEF ByItself
  <2>7. Exactly' BY <1>0, <1>1, <2>3, <2>5, <2>6, MovesExactly
  <2>8. KeptThere' BY <1>0, <1>1, <1>2, <2>3, KeptFrom
  <2> QED BY <2>3, <2>4, <2>7, <2>8 DEF UiInv
<1>4. CASE ~jobs[j].alone
  <2>1. spoiled' = spoiled BY <1>0, <1>4 DEF EndActivation, UiTyped
  <2>2. Uncrowded BY <1>0, <2>1 DEF Uncrowded
  <2> QED BY <1>0, <1>1, <1>2, <1>4, <2>2, StepIs, CarryUi DEF UiSteps, ActivationSteps
<1> QED BY <1>0, <1>3, <1>4 DEF UiTyped, UiJobs

LEMMA DeletionsKeep == ASSUME UiInv, NEW j \in Job, DeleteUi(j) PROVE UiInv'
<1>0. UiTyped BY DEF UiInv
<1> USE DEF FitFor, LeftBy, Exact, Replaced, GoesFrom, UiSteps, ActivationSteps
<1>1. CASE JobAt(j, "delete")
  <2>1. /\ current' = Torn(current) /\ JobGoes(j, "deleted")
        /\ UNCHANGED <<backup, expected>> /\ Uncrowded
    BY <1>1 DEF DeleteUi, JobAt
  <2>2. Moves(j, "deleted") BY <1>0, <2>1, GoesIs
  <2>3. removed BY <1>1, StepIs
  <2>4. expected # 0 /\ current = Whole(expected) => ~current'.whole
    BY <1>0, <2>1, NoDirectoryIs DEF UiTyped
  <2>5. FitFor(jobs[j].step) => FitFor("deleted")' BY <1>1, <2>1, <2>4 DEF Uncrowded, JobAt
  <2>6. current' \in Directories BY <1>0, <2>1, NoDirectoryIs DEF UiTyped
  <2> HIDE DEF FitFor
  <2> QED BY <1>1, <2>1, <2>2, <2>3, <2>5, <2>6, StepIs, CarryUi
<1>2. CASE JobAt(j, "deleted")
  <2>1. /\ JobEnds(j) /\ backup' = backup /\ Uncrowded
        /\ IF current.whole THEN UNCHANGED <<current, expected>>
           ELSE current' = NoDirectory /\ expected' = 0
    BY <1>2 DEF DeleteUi, JobAt
  <2>2. Moves(j, "idle") BY <1>0, <2>1, EndsIs
  <2>3. removed BY <1>2, StepIs
  <2>4. FitFor(jobs[j].step) => FitFor("idle")' BY <1>2, <2>1 DEF Uncrowded, JobAt
  <2>5. current' \in Directories /\ expected' \in Nat
    BY <1>0, <2>1, NoDirectoryIs DEF UiTyped
  <2> HIDE DEF FitFor
  <2> QED BY <1>2, <2>1, <2>2, <2>3, <2>4, <2>5, StepIs, CarryUi
<1> QED BY <1>1, <1>2 DEF DeleteUi

LEMMA FaultsKeep ==
    ASSUME UiInv, NEW j \in Job, NEW s, Moves(j, s), ActiveJob(j), GoesFrom(jobs[j].step, s),
           PackageFault, s \notin {"drop", "dropped", "end"},
           UNCHANGED <<current, backup, expected, proposal, prepared, crowded, removed>>,
           spoiled' \in BOOLEAN, spoiled => spoiled',
           ~spoiled' /\ FitFor(jobs[j].step) => FitFor(s)'
    PROVE  UiInv'
<1> USE DEF UiInv
<1>1. packageFaults' = packageFaults + 1 /\ packageFaults \in Nat
  BY DEF PackageFault, UiTyped
<1>2. UiTyped' /\ UiOnce'
  <2>1. /\ crowded' \in BOOLEAN /\ packageFaults' \in Nat
        /\ current' \in Directories /\ backup' \in Directories /\ expected' \in Nat
        /\ expected' = 0 /\ ~removed => current' = NoDirectory /\ backup' = NoDirectory
    BY <1>1 DEF UiTyped
  <2> QED BY <2>1, MovesTyped
<1>3. ByItself' BY <1>2, MovesByItself
<1>4. Exactly'
  <2>1. CASE spoiled' BY <2>1 DEF Exactly
  <2>2. CASE ~spoiled' BY <1>2, <2>2, FitAlone, MovesExactly
  <2> QED BY <2>1, <2>2
<1>5. KeptThere' BY <1>1 DEF KeptThere
<1> QED BY <1>2, <1>3, <1>4, <1>5

LEMMA FailuresKeep == ASSUME UiInv, NEW j \in Job, UiFails(j) \/ KillCaller(j) PROVE UiInv'
<1>0. UiTyped /\ PackageFault /\ packageFaults \in Nat /\ packageFaults' = packageFaults + 1
      /\ UNCHANGED <<current, backup, expected, proposal, prepared, crowded, removed>>
  BY DEF UiInv, UiTyped, UiFails, KillCaller, PackageFault
<1>1. spoiled' \in BOOLEAN /\ (spoiled => spoiled') BY <1>0 DEF UiFails, KillCaller, UiTyped
<1>2. ActiveJob(j) BY <1>0, ActiveIs DEF UiFails, KillCaller, ActiveJob
<1> USE DEF FitFor, LeftBy, Exact, Replaced
<1>3. CASE UiFails(j) /\ jobs[j].step = "clear"
  <2>1. JobGoes(j, "look") BY <1>3 DEF UiFails
  <2>2. Moves(j, "look") BY <1>0, <2>1, GoesIs DEF UiSteps, ActivationSteps
  <2>3. FitFor(jobs[j].step) => FitFor("look")' BY <1>0, <1>3
  <2> HIDE DEF FitFor
  <2> QED BY <1>0, <1>1, <1>2, <1>3, <2>2, <2>3, FaultsKeep DEF GoesFrom, ActivationSteps
<1>4. CASE UiFails(j) /\ jobs[j].step = "place"
  <2>1. JobGoes(j, "restore") BY <1>4 DEF UiFails
  <2>2. Moves(j, "restore") BY <1>0, <2>1, GoesIs DEF UiSteps, ActivationSteps
  <2>3. FitFor(jobs[j].step) => FitFor("restore")' BY <1>0, <1>4
  <2> HIDE DEF FitFor
  <2> QED BY <1>0, <1>1, <1>2, <1>4, <2>2, <2>3, FaultsKeep DEF GoesFrom, ActivationSteps
<1>5. CASE UiFails(j) /\ jobs[j].step \in {"move", "restore", "drop", "deleted"}
  <2>1. JobEnds(j) BY <1>5 DEF UiFails
  <2>2. Moves(j, "idle") BY <1>0, <2>1, EndsIs
  <2>3. ~spoiled' => jobs[j].step \in {"move", "drop"} BY <1>5 DEF UiFails
  <2>4. ~spoiled' /\ FitFor(jobs[j].step) => FitFor("idle")' BY <1>0, <2>3
  <2> HIDE DEF FitFor
  <2> QED BY <1>0, <1>1, <1>2, <2>2, <2>4, FaultsKeep DEF GoesFrom
<1>6. CASE KillCaller(j)
  <2>1. JobEnds(j) /\ spoiled' = TRUE BY <1>6 DEF KillCaller
  <2>2. Moves(j, "idle") BY <1>0, <2>1, EndsIs
  <2> HIDE DEF FitFor
  <2> QED BY <1>0, <1>1, <1>2, <2>1, <2>2, FaultsKeep DEF GoesFrom
<1> QED BY <1>3, <1>4, <1>5, <1>6 DEF UiFails

\* A caller begins; the others have the directories to themselves no longer.
Begins(j, step, package) ==
    /\ jobs' \in [Job -> UiJobs]
    /\ jobs'[j].step = step /\ jobs'[j].package = package /\ jobs'[j].alone = Quiet
    /\ \A k \in Job : k # j => /\ jobs'[k].step = jobs[k].step
                               /\ jobs'[k].package = jobs[k].package
                               /\ jobs'[k].alone = FALSE
                               /\ IdleCaller(k) => jobs'[k] = IdleJob

LEMMA BeginsIs ==
    ASSUME UiTyped, NEW j \in Job, NEW step \in {"clear", "delete"}, NEW package \in Nat,
           StartJob(j, step, package)
    PROVE  Begins(j, step, package)
<1>1. PICK fresh : fresh = [step |-> step, package |-> package, alone |-> Quiet] OBVIOUS
<1>2. fresh \in UiJobs BY <1>1 DEF UiJobs, UiSteps, ActivationSteps, Quiet
<1>3. \A k \in Job : jobs[k] \in UiJobs BY DEF UiTyped
<1>4. \A k \in Job : /\ [jobs[k] EXCEPT !.alone = FALSE] \in UiJobs
                     /\ [jobs[k] EXCEPT !.alone = FALSE].step = jobs[k].step
                     /\ [jobs[k] EXCEPT !.alone = FALSE].package = jobs[k].package
                     /\ [jobs[k] EXCEPT !.alone = FALSE].alone = FALSE
  <2> TAKE k \in Job
  <2>1. PICK w \in UiJobs : w = jobs[k] BY <1>3
  <2>2. PICK v : v = [w EXCEPT !.alone = FALSE] OBVIOUS
  <2>3. v \in UiJobs /\ v.step = w.step /\ v.package = w.package /\ v.alone = FALSE
    BY <2>2 DEF UiJobs
  <2>4. v = [jobs[k] EXCEPT !.alone = FALSE] BY <2>1, <2>2
  <2> QED BY <2>1, <2>3, <2>4
<1>5. [IdleJob EXCEPT !.alone = FALSE] = IdleJob
  <2>1. PICK v : v = [IdleJob EXCEPT !.alone = FALSE] OBVIOUS
  <2>2. /\ v \in UiJobs /\ v.step = IdleJob.step /\ v.package = IdleJob.package
        /\ v.alone = FALSE
    BY <2>1, IdleIs DEF UiJobs
  <2>3. v = IdleJob BY <2>2, IdleIs DEF UiJobs
  <2> QED BY <2>1, <2>3
<1>6. jobs' = [k \in Job |-> IF k = j THEN fresh ELSE [jobs[k] EXCEPT !.alone = FALSE]]
  BY <1>1 DEF StartJob
<1>7. jobs'[j] = fresh /\ \A k \in Job : k # j => jobs'[k] = [jobs[k] EXCEPT !.alone = FALSE]
  BY <1>6
<1>8. fresh.step = step /\ fresh.package = package /\ fresh.alone = Quiet BY <1>1
<1>9. jobs' \in [Job -> UiJobs] BY <1>2, <1>4, <1>6
<1> QED BY <1>4, <1>5, <1>7, <1>8, <1>9 DEF Begins, IdleCaller

LEMMA StartsKeep ==
    ASSUME UiInv, NEW j \in Job, NEW step \in {"clear", "delete"}, NEW package \in Nat,
           StartJob(j, step, package), package # 0 <=> step = "clear",
           removed' \in BOOLEAN, removed => removed',
           step = "delete" => removed' /\ expected # 0,
           step = "clear" => removed' = removed,
           prepared' \in Nat, prepared <= prepared', package <= prepared',
           proposal' = proposal \/ proposal' = 0, proposal' # 0 => package # proposal',
           \A k \in Job : package # 0 => jobs[k].package # package
    PROVE  UiInv'
<1> USE DEF UiInv
<1>0. Begins(j, step, package) BY BeginsIs
<1>1. /\ UNCHANGED <<current, backup, expected, packageFaults>> /\ IdleCaller(j)
      /\ jobs[j] = IdleJob
      /\ spoiled' = (spoiled \/ ~Quiet)
      /\ crowded' = (crowded \/ \E k, l \in Job : k # l /\ ~IdleCaller(k) /\ ~IdleCaller(l))
  BY DEF StartJob, IdleCaller
<1>2. \A k \in Job : FitsStep(jobs[k])'
  <2> SUFFICES ASSUME NEW k \in Job PROVE FitsStep(jobs[k])' OBVIOUS
  <2>1. CASE k = j BY <1>0, <2>1 DEF FitsStep, Begins, ActivationSteps
  <2>2. CASE k # j
    <3>1. FitsStep(jobs[k]) BY DEF UiTyped
    <3>2. jobs[k].step = "idle" => jobs'[k] = IdleJob
      BY <1>0, <2>2, <3>1 DEF FitsStep, Begins, IdleCaller
    <3> QED BY <1>0, <2>2, <3>1, <3>2 DEF FitsStep, Begins
  <2> QED BY <2>1, <2>2
<1>3. UiTyped'
  <2>1. spoiled' \in BOOLEAN /\ crowded' \in BOOLEAN BY <1>1 DEF UiTyped
  <2>2. proposal' \in Nat BY DEF UiTyped
  <2>3. expected' = 0 /\ ~removed' => current' = NoDirectory /\ backup' = NoDirectory
    BY <1>1 DEF UiTyped
  <2> QED BY <1>0, <1>1, <1>2, <2>1, <2>2, <2>3 DEF UiTyped, Begins
<1>4. UiOnce'
  <2>1. \A k \in Job : jobs'[k].package = IF k = j THEN package ELSE jobs[k].package
    BY <1>0 DEF Begins
  <2>2. proposal' <= prepared' /\ \A k \in Job : jobs'[k].package <= prepared'
    BY <2>1 DEF UiOnce, UiTyped, UiJobs
  <2>3. \A k \in Job : proposal' # 0 => jobs'[k].package # proposal'
    BY <2>1 DEF UiOnce, ActivatedOnce
  <2>4. \A i, k \in Job : i # k /\ jobs'[i].package # 0 => jobs'[i].package # jobs'[k].package
    BY <2>1 DEF UiOnce, ActivatedOnce
  <2> QED BY <2>2, <2>3, <2>4 DEF UiOnce, ActivatedOnce
<1>5. \A k \in Job : ActiveJob(k)' <=> k = j \/ ActiveJob(k)
  <2>1. \A k \in Job : ActiveJob(k)' <=> jobs'[k].step # "idle"
    BY <1>3, IdleIs DEF UiTyped, FitsStep, ActiveJob, IdleCaller
  <2> QED BY <1>0, <2>1, ActiveIs DEF Begins
<1>6. \A k \in Job : jobs'[k].alone => k = j /\ Quiet BY <1>0 DEF Begins
<1>7. ByItself'
  <2>1. \A i, k \in Job : jobs'[i].alone /\ i # k => IdleCaller(k)'
    BY <1>5, <1>6 DEF ActiveJob, Quiet
  <2>2. ~spoiled' => \A k \in Job : ActiveJob(k)' => jobs'[k].alone
    BY <1>0, <1>1, <1>5 DEF ActiveJob, Quiet, Begins
  <2>3. \A k \in Job : ~(jobs'[k].alone /\ jobs'[k].step \in {"drop", "dropped", "end"})
    BY <1>0, <1>6 DEF Begins
  <2> QED BY <2>1, <2>2, <2>3 DEF ByItself
<1>8. Exactly'
  <2> SUFFICES ASSUME ~spoiled' PROVE (Quiet => FitFor("idle"))'
                                       /\ \A k \in Job : ActiveJob(k)' => FitFor(jobs[k].step)'
    BY DEF Exactly
  <2>1. Quiet /\ ~spoiled BY <1>1
  <2>2. FitFor("idle") BY <2>1 DEF Exactly
  <2>3. FitFor(step)' BY <1>1, <2>2 DEF FitFor, Exact, LeftBy
  <2>4. ~Quiet' BY <1>5 DEF Quiet, ActiveJob
  <2>5. \A k \in Job : ActiveJob(k)' => k = j BY <1>5, <2>1 DEF Quiet, ActiveJob
  <2>6. jobs'[j].step = step BY <1>0 DEF Begins
  <2> HIDE DEF FitFor
  <2> QED BY <2>3, <2>4, <2>5, <2>6
<1>9. KeptThere'
  <2>1. \A k \in Job : jobs[k].step # "idle" => jobs'[k].step = jobs[k].step
    BY <1>0, <1>1, IdleIs DEF Begins
  <2>2. ~crowded' => \A i, k \in Job : ActiveJob(i) /\ ActiveJob(k) => i = k
    BY <1>1 DEF ActiveJob
  <2>3. ~crowded' => Few' BY <1>5, <2>2 DEF Few
  <2>4. ~crowded' => ~crowded BY <1>1
  <2>5. ASSUME NEW S, "idle" \notin S, \E k \in Job : jobs[k].step \in S
        PROVE  \E k \in Job : jobs'[k].step \in S
    BY <2>1, <2>5
  <2>6. ASSUME packageFaults = 0, ~removed, expected # 0, current = NoDirectory
        PROVE  \E k \in Job : jobs'[k].step = "place"
    <3>1. \E k \in Job : jobs[k].step = "place" BY <2>6 DEF KeptThere
    <3>2. PICK k \in Job : jobs[k].step = "place" BY <3>1
    <3> QED BY <2>1, <3>2
  <2>7. ASSUME packageFaults = 0, ~removed, ~crowded', ~backup.whole
        PROVE  \E k \in Job : jobs'[k].step \in {"cleared", "dropped"}
    <3>1. \E k \in Job : jobs[k].step \in {"cleared", "dropped"} BY <2>4, <2>7 DEF KeptThere
    <3> QED BY <2>5, <3>1
  <2>8. packageFaults = 0 /\ ~removed /\ ~crowded' => current.whole BY <2>4 DEF KeptThere
  <2> QED BY <1>1, <2>3, <2>6, <2>7, <2>8 DEF KeptThere
<1> QED BY <1>3, <1>4, <1>7, <1>8, <1>9

LEMMA ConfirmsKeep == ASSUME UiInv, NEW j \in Job, Confirm(j) PROVE UiInv'
<1>1. /\ proposal # 0 /\ StartJob(j, "clear", proposal) /\ proposal' = 0
      /\ UNCHANGED <<prepared, removed>>
  BY DEF Confirm, StillPending
<1>2. /\ proposal \in Nat /\ prepared \in Nat /\ removed \in BOOLEAN /\ proposal <= prepared
      /\ \A k \in Job : jobs[k].package # proposal
  BY <1>1 DEF UiInv, UiTyped, UiOnce, ActivatedOnce
<1> QED BY <1>1, <1>2, StartsKeep

LEMMA InstallsKeep == ASSUME UiInv, NEW j \in Job, InstallAtOnce(j) PROVE UiInv'
<1>1. /\ prepared' = prepared + 1 /\ StartJob(j, "clear", prepared')
      /\ UNCHANGED <<proposal, removed>>
  BY DEF InstallAtOnce, PreparePackage
<1>2. /\ proposal \in Nat /\ prepared \in Nat /\ removed \in BOOLEAN /\ proposal <= prepared
      /\ \A k \in Job : jobs[k].package <= prepared /\ jobs[k].package \in Nat
  BY DEF UiInv, UiTyped, UiJobs, UiOnce
<1>3. /\ prepared' \in Nat /\ prepared' # 0 /\ prepared <= prepared' /\ prepared' # proposal
      /\ \A k \in Job : jobs[k].package # prepared'
  BY <1>1, <1>2
<1> QED BY <1>1, <1>2, <1>3, StartsKeep

LEMMA RemovalsKeep == ASSUME UiInv, NEW j \in Job, RemoveUi(j) PROVE UiInv'
<1>1. /\ expected # 0 /\ StartJob(j, "delete", 0) /\ removed' = TRUE
      /\ UNCHANGED <<proposal, prepared>>
  BY DEF RemoveUi
<1>2. /\ proposal \in Nat /\ prepared' \in Nat /\ prepared <= prepared' /\ 0 <= prepared'
      /\ removed' \in BOOLEAN
  BY <1>1 DEF UiInv, UiTyped
<1>3. 0 \in Nat /\ "delete" # "clear" OBVIOUS
<1> QED BY <1>1, <1>2, <1>3, StartsKeep

\* What is prepared, shown or dropped is of no caller yet.
LEMMA ProposalsKeep == ASSUME UiInv, Propose \/ Decline PROVE UiInv'
<1>1. /\ UNCHANGED <<current, backup, jobs, expected, spoiled, crowded, removed, packageFaults>>
      /\ \/ proposal' = prepared + 1 /\ prepared' = prepared + 1
         \/ proposal' = 0 /\ prepared' = prepared
  BY DEF Propose, PreparePackage, Decline
<1>2. /\ proposal \in Nat /\ prepared \in Nat
      /\ \A k \in Job : jobs[k].package <= prepared /\ jobs[k].package \in Nat
  BY DEF UiInv, UiTyped, UiJobs, UiOnce
<1>3. UiTyped' BY <1>1, <1>2 DEF UiInv, UiTyped, FitsStep
<1>4. UiOnce' BY <1>1, <1>2 DEF UiInv, UiOnce, ActivatedOnce
<1>5. ByItself' BY <1>1 DEF UiInv, ByItself, ActiveJob, IdleCaller
<1>6. Exactly'
  BY <1>1 DEF UiInv, Exactly, FitFor, Exact, LeftBy, Replaced, Quiet, ActiveJob, IdleCaller
<1>7. KeptThere' BY <1>1 DEF UiInv, KeptThere, Few, ActiveJob, IdleCaller
<1> QED BY <1>3, <1>4, <1>5, <1>6, <1>7 DEF UiInv

LEMMA UiKept == ASSUME UiInv, UiNext PROVE UiInv'
BY ProposalsKeep, ConfirmsKeep, InstallsKeep, RemovalsKeep, DeletesKeep, LooksKeep,
   MovesAsideKeep, PlacesKeep, RestoresKeep, EndsKeep, DeletionsKeep, FailuresKeep DEF UiNext

LEMMA UiBegins == PackageInit => UiInv
<1> SUFFICES ASSUME PackageInit PROVE UiInv OBVIOUS
<1>1. \A j \in Job : jobs[j] = IdleJob BY DEF PackageInit
<1>2. UiTyped BY <1>1, IdleIs, NoDirectoryIs DEF PackageInit, UiTyped, FitsStep, ActivationSteps
<1>3. UiOnce BY <1>1, IdleIs DEF PackageInit, UiOnce, ActivatedOnce
<1>4. ByItself BY <1>1, IdleIs DEF PackageInit, ByItself, ActiveJob, IdleCaller
<1>5. Exactly
  BY <1>1 DEF PackageInit, Exactly, FitFor, Exact, LeftBy, Quiet, ActiveJob, IdleCaller
<1>6. KeptThere BY <1>1, NoDirectoryIs DEF PackageInit, KeptThere, Few, ActiveJob, IdleCaller
<1> QED BY <1>2, <1>3, <1>4, <1>5, <1>6 DEF UiInv

LEMMA UiSound == UiInv => ActivationExact /\ InterfaceKept /\ ActivatedOnce
<1> SUFFICES ASSUME UiInv PROVE ActivationExact /\ InterfaceKept /\ ActivatedOnce OBVIOUS
<1>1. ActivationExact BY DEF UiInv, Exactly, FitFor, Exact, ActivationExact, Whole
<1>2. ASSUME Quiet PROVE \A j \in Job : jobs[j].step = "idle"
  BY <1>2, IdleIs DEF Quiet, IdleCaller
<1>3. InterfaceKept BY <1>2 DEF UiInv, KeptThere, InterfaceKept
<1> QED BY <1>1, <1>3 DEF UiInv, UiOnce

LEMMA UiAside ==
    ASSUME UiInv, UNCHANGED uiVars, packageFaults' = packageFaults \/ PackageFault
    PROVE  UiInv'
<1>1. UNCHANGED <<proposal, prepared, current, backup, jobs, expected, spoiled, crowded, removed>>
  BY DEF uiVars
<1>2. packageFaults \in Nat /\ packageFaults' \in {packageFaults, packageFaults + 1}
  BY DEF UiInv, UiTyped, PackageFault
<1>3. UiTyped' BY <1>1, <1>2 DEF UiInv, UiTyped, FitsStep
<1>4. UiOnce' BY <1>1 DEF UiInv, UiOnce, ActivatedOnce
<1>5. ByItself' BY <1>1 DEF UiInv, ByItself, ActiveJob, IdleCaller
<1>6. \A n \in Nat : LeftBy(n) => LeftBy(n)' BY <1>1, <1>2 DEF LeftBy
<1>7. Exact => Exact' BY <1>1, <1>2 DEF Exact
<1>8. \A step \in UiSteps : FitFor(step) => FitFor(step)'
  BY <1>1, <1>6, <1>7 DEF FitFor, Replaced
<1>9. Exactly'
  <2>1. \A j \in Job : jobs[j].step \in UiSteps BY DEF UiInv, UiTyped, UiJobs
  <2>2. "idle" \in UiSteps BY DEF UiSteps
  <2> QED BY <1>1, <1>8, <2>1, <2>2 DEF UiInv, Exactly, Quiet, ActiveJob, IdleCaller
<1>10. KeptThere' BY <1>1, <1>2 DEF UiInv, KeptThere, Few, ActiveJob, IdleCaller
<1> QED BY <1>3, <1>4, <1>5, <1>9, <1>10 DEF UiInv

(***************************************************************************)
(* The dashboard: while a core serves it, it is there, or whoever moved it *)
(* aside has it.                                                           *)
(***************************************************************************)
DashboardStates == {"missing", "empty", "placeholder", "full"}
Installers == [step : {"off", "work", "moved"}, backup : DashboardStates]
Holds(i) == installers[i].step = "moved" /\ installers[i].backup \in {"placeholder", "full"}
DashboardInv ==
    /\ dashboard \in DashboardStates /\ installers \in [1..2 -> Installers]
    /\ boot \in {"ready", "up", "kept"} /\ dashboard \in {"missing", "empty"} =>
         \E i \in 1..2 : Holds(i)

LEMMA NoInstallerIs == /\ NoInstaller \in Installers /\ NoInstaller.step = "off"
BY DEF NoInstaller, Installers, DashboardStates

LEMMA DashboardKept == ASSUME DashboardInv, DashboardNext PROVE DashboardInv'
<1> USE NoInstallerIs DEF DashboardInv
<1>1. ASSUME PrepareDashboard PROVE DashboardInv'
  BY <1>1 DEF PrepareDashboard, DashboardStates, Holds
<1>2. ASSUME ServeDashboard PROVE DashboardInv' BY <1>2 DEF ServeDashboard, Holds
<1>3. ASSUME EndServing PROVE DashboardInv'
  <2>1. boot' = "down" /\ dashboard' = dashboard BY <1>3 DEF EndServing
  <2>2. installers' \in [1..2 -> Installers] BY <1>3 DEF EndServing
  <2> QED BY <2>1, <2>2
<1>4. ASSUME InstallDashboard PROVE DashboardInv'
  <2>1. CASE dashboard = "placeholder"
    <3>1. dashboard' = dashboard /\ installers' = [installers EXCEPT ![1].step = "work"]
      BY <1>4, <2>1 DEF InstallDashboard
    <3>2. installers' \in [1..2 -> Installers] BY <3>1 DEF Installers
    <3> QED BY <2>1, <3>1, <3>2
  <2>2. CASE dashboard # "placeholder"
    <3>1. UNCHANGED <<dashboard, installers>> /\ boot = "up" BY <1>4, <2>2 DEF InstallDashboard
    <3> QED BY <3>1 DEF Holds
  <2> QED BY <2>1, <2>2
<1>5. ASSUME KillServing PROVE DashboardInv' BY <1>5 DEF KillServing
<1>6. ASSUME NEW i \in 1..2, ReplaceDashboard(i) PROVE DashboardInv'
  <2>1. boot' = boot BY <1>6 DEF ReplaceDashboard
  <2>2. CASE installers[i].step = "work" /\ dashboard = "missing"
    <3>1. StopInstall(i) /\ dashboard' = dashboard BY <1>6, <2>2 DEF ReplaceDashboard
    <3>2. \A k \in 1..2 : Holds(k) => Holds(k)' BY <2>2, <3>1 DEF Holds, StopInstall
    <3>3. installers' \in [1..2 -> Installers] BY <3>1 DEF StopInstall
    <3> QED BY <2>1, <3>1, <3>2, <3>3
  <2>3. CASE installers[i].step = "work" /\ dashboard # "missing"
    <3>1. PICK fresh : fresh = [step |-> "moved", backup |-> dashboard] OBVIOUS
    <3>2. fresh \in Installers BY <3>1 DEF Installers
    <3>3. installers' = [installers EXCEPT ![i] = fresh] /\ dashboard' = "missing"
      BY <1>6, <2>3, <3>1 DEF ReplaceDashboard
    <3>4. installers' \in [1..2 -> Installers] BY <3>2, <3>3
    <3>5. \A k \in 1..2 : Holds(k) => Holds(k)' BY <2>3, <3>3 DEF Holds
    <3>6. dashboard \in {"placeholder", "full"} => Holds(i)' BY <3>1, <3>3 DEF Holds
    <3> QED BY <2>1, <2>3, <3>3, <3>4, <3>5, <3>6 DEF DashboardStates
  <2>4. CASE installers[i].step = "moved"
    <3>1. /\ StopInstall(i)
          /\ dashboard' = IF dashboard \in {"missing", "empty"} THEN "full" ELSE dashboard
      BY <1>6, <2>4 DEF ReplaceDashboard
    <3>2. installers' \in [1..2 -> Installers] BY <3>1 DEF StopInstall
    <3> QED BY <3>1, <3>2 DEF DashboardStates
  <2> QED BY <1>6, <2>2, <2>3, <2>4 DEF ReplaceDashboard
<1>7. ASSUME NEW i \in 1..2, InstallFails(i) PROVE DashboardInv'
  <2>1. boot' = boot /\ StopInstall(i) BY <1>7 DEF InstallFails
  <2>2. installers' \in [1..2 -> Installers] BY <2>1 DEF StopInstall
  <2>3. \A k \in 1..2 : k # i /\ Holds(k) => Holds(k)' BY <2>1 DEF Holds, StopInstall
  <2>4. installers[i] \in Installers OBVIOUS
  <2>5. CASE installers[i].step = "moved" /\ dashboard \in {"missing", "empty"}
    <3>1. dashboard' = installers[i].backup BY <1>7, <2>5 DEF InstallFails
    <3> QED BY <2>1, <2>2, <2>3, <2>4, <2>5, <3>1 DEF Holds, Installers, DashboardStates
  <2>6. CASE ~(installers[i].step = "moved" /\ dashboard \in {"missing", "empty"})
    <3>1. dashboard' = dashboard BY <1>7, <2>6 DEF InstallFails
    <3> QED BY <2>1, <2>2, <2>3, <2>6, <3>1 DEF Holds
  <2> QED BY <2>5, <2>6
<1> QED BY <1>1, <1>2, <1>3, <1>4, <1>5, <1>6, <1>7 DEF DashboardNext

LEMMA DashboardAside == ASSUME DashboardInv, UNCHANGED dashboardVars PROVE DashboardInv'
BY DEF dashboardVars, DashboardInv, Holds

LEMMA DashboardSound == DashboardInv => DashboardFound
BY DEF DashboardInv, DashboardFound, Holds, DashboardStates

(***************************************************************************)
(* The download of a core: what is shown, and who has the operation lock.  *)
(***************************************************************************)
AtWork == {"resolve", "download", "verify"}
Workers == [step : {"none", "begun", "guard", "ended"} \cup AtWork, asked : 0..2,
            result : {"none", "succeeded", "failed", "aborted"}]
Tasks == 1..MaxTasks
Shows == [id : {0} \cup Tasks, state : {"none", "running", "succeeded", "failed"},
          abortable : BOOLEAN]
TaskInv ==
    /\ shown \in Shows /\ workers \in [Tasks -> Workers] /\ guard \in {0} \cup Tasks
    /\ \A w \in Tasks : workers[w].step = "none" => workers[w].asked = 0
    /\ ShownIsTrue

\* A worker takes a step; the others do not.
Takes(w, step, outcome) ==
    /\ workers' \in [Tasks -> Workers]
    /\ workers'[w].step = step /\ workers'[w].result = outcome
    /\ step # "none" /\ (workers[w].asked = 0 => workers'[w].asked = 0)
    /\ \A k \in Tasks : k # w => workers'[k] = workers[k]

LEMMA TakesKeeps ==
    ASSUME TaskInv, NEW w \in Tasks, NEW step, NEW outcome, Takes(w, step, outcome),
           shown' \in Shows, guard' \in {0} \cup Tasks,
           shown'.id # 0 => shown'.id = w \/ shown' = shown,
           shown'.id = w =>
             IF shown'.state = "running" THEN step # "ended" /\ workers[w].asked = 0
             ELSE step = "ended" /\ outcome = shown'.state,
           guard' # 0 => guard' = w \/ guard' = guard,
           guard' = w => step \in AtWork
    PROVE  TaskInv'
<1>1. \A k \in Tasks : workers'[k].step = "none" => workers'[k].asked = 0
  BY DEF TaskInv, Takes
<1>2. ASSUME shown'.id # 0
      PROVE  IF shown'.state = "running"
             THEN workers'[shown'.id].step \notin {"none", "ended"}
                  /\ workers'[shown'.id].asked = 0
             ELSE workers'[shown'.id].step = "ended"
                  /\ workers'[shown'.id].result = shown'.state
  <2>1. CASE shown'.id = w BY <2>1 DEF Takes
  <2>2. CASE shown'.id # w
    <3>1. shown' = shown /\ shown.id \in Tasks /\ workers'[shown.id] = workers[shown.id]
      BY <1>2, <2>2 DEF Takes, Shows
    <3> QED BY <1>2, <3>1 DEF TaskInv, ShownIsTrue
  <2> QED BY <2>1, <2>2
<1>3. guard' # 0 => workers'[guard'].step \in AtWork
  <2>1. CASE guard' = w BY <2>1 DEF Takes
  <2>2. CASE guard' # w /\ guard' # 0
    <3>1. guard' = guard /\ guard \in Tasks /\ workers'[guard] = workers[guard]
      BY <2>2 DEF Takes, TaskInv
    <3> QED BY <2>2, <3>1 DEF TaskInv, ShownIsTrue, AtWork
  <2> QED BY <2>1, <2>2
<1> QED BY <1>1, <1>2, <1>3 DEF TaskInv, Takes, ShownIsTrue, AtWork

LEMMA StepTakes ==
    ASSUME TaskInv, NEW w \in Tasks,
           NEW step \in {"begun", "guard", "ended"} \cup AtWork,
           workers' = [workers EXCEPT ![w].step = step]
    PROVE  Takes(w, step, workers[w].result)
<1>1. workers[w] \in Workers BY DEF TaskInv
<1> QED BY <1>1 DEF TaskInv, Takes, Workers, AtWork

LEMMA PollTakes ==
    ASSUME TaskInv, NEW w \in Tasks,
           NEW step \in {"begun", "guard", "ended"} \cup AtWork,
           NEW outcome \in {"none", "succeeded", "failed", "aborted"}, Polled(w, step, outcome)
    PROVE  Takes(w, step, outcome)
<1>1. PICK fresh : fresh = [step |-> step, result |-> outcome,
                            asked |-> IF workers[w].asked = 0 THEN 0 ELSE 2]
  OBVIOUS
<1>2. /\ fresh \in Workers /\ fresh.step = step /\ fresh.result = outcome
      /\ workers[w].asked = 0 => fresh.asked = 0
  BY <1>1 DEF Workers
<1>3. workers' = [workers EXCEPT ![w] = fresh] BY <1>1 DEF Polled
<1> QED BY <1>2, <1>3 DEF TaskInv, Takes, AtWork

\* The worker that a step is about, when it is the one shown.
LEMMA ShownWorks ==
    ASSUME TaskInv, NEW w \in Tasks, shown.id = w, workers[w].step # "ended"
    PROVE  shown.state = "running" /\ workers[w].asked = 0 /\ workers[w].step # "none"
BY DEF TaskInv, ShownIsTrue, Tasks

LEMMA EndKeeps ==
    ASSUME TaskInv, NEW w \in Tasks, NEW outcome \in {"succeeded", "failed"},
           EndWork(w, outcome), workers[w].step # "ended"
    PROVE  TaskInv'
<1>1. Takes(w, "ended", outcome) BY PollTakes DEF EndWork
<1>2. guard' \in {0} \cup Tasks /\ (guard' # 0 => guard' = guard /\ guard' # w)
  BY DEF EndWork, TaskInv
<1>3. w # 0 /\ shown \in Shows BY DEF Tasks, TaskInv
<1>4. CASE shown.id = w
  <2>1. shown' = [shown EXCEPT !.state = outcome, !.abortable = FALSE]
    BY <1>3, <1>4 DEF EndWork, IsShown
  <2>2. shown' \in Shows /\ shown'.id = w /\ shown'.state = outcome
    BY <1>3, <1>4, <2>1 DEF Shows
  <2> QED BY <1>1, <1>2, <1>3, <2>2, TakesKeeps
<1>5. CASE shown.id # w
  <2>1. shown' = shown BY <1>5 DEF EndWork, IsShown
  <2> QED BY <1>1, <1>2, <1>3, <1>5, <2>1, TakesKeeps
<1> QED BY <1>4, <1>5

LEMMA TaskKept == ASSUME TaskInv, TaskNext PROVE TaskInv'
<1>0. /\ DOMAIN workers = Tasks /\ shown \in Shows /\ guard \in {0} \cup Tasks /\ 0 \notin Tasks
      /\ \A w \in Tasks : workers[w] \in Workers
  BY DEF TaskInv, Tasks
<1>1. ASSUME CancelTask PROVE TaskInv'
  <2>1. shown' = NoTask /\ guard' = guard BY <1>1 DEF CancelTask
  <2>2. NoTask \in Shows /\ NoTask.id = 0 BY DEF NoTask, Shows
  <2>3. \A w \in Workers : /\ [w EXCEPT !.asked = 1] \in Workers
                           /\ [w EXCEPT !.asked = 1].step = w.step
    BY DEF Workers
  <2>4. workers' = [w \in Tasks |->
                      IF IsShown(w) /\ shown.abortable THEN [workers[w] EXCEPT !.asked = 1]
                      ELSE workers[w]]
    BY <1>0, <1>1 DEF CancelTask
  <2>5. \A w \in Tasks : workers'[w] \in Workers /\ workers'[w].step = workers[w].step
    BY <1>0, <2>3, <2>4
  <2>6. \A w \in Tasks : workers[w].step = "none" => workers'[w] = workers[w]
    BY <1>0, <2>4, ShownWorks DEF IsShown
  <2>7. workers' \in [Tasks -> Workers] BY <2>4, <2>5
  <2>8. ShownIsTrue' BY <1>0, <2>1, <2>2, <2>5 DEF TaskInv, ShownIsTrue
  <2> QED BY <1>0, <2>1, <2>2, <2>5, <2>6, <2>7, <2>8 DEF TaskInv
<1>2. ASSUME NEW w \in Tasks, BeginTask(w) PROVE TaskInv'
  <2>1. /\ workers[w].step = "none" /\ workers' = [workers EXCEPT ![w].step = "begun"]
        /\ guard' = guard /\ shown' = [id |-> w, state |-> "running", abortable |-> FALSE]
    BY <1>2 DEF BeginTask, WorkerAt
  <2>2. shown' \in Shows /\ shown'.id = w /\ shown'.state = "running" BY <2>1 DEF Shows
  <2>3. workers[w].asked = 0 BY <2>1 DEF TaskInv
  <2>4. guard # w BY <2>1, <1>0 DEF TaskInv, ShownIsTrue
  <2>5. Takes(w, "begun", workers[w].result) BY <2>1, StepTakes
  <2> QED BY <1>0, <2>1, <2>2, <2>3, <2>4, <2>5, TakesKeeps
<1>3. ASSUME NEW w \in Tasks, SpawnWorker(w) PROVE TaskInv'
  <2>1. /\ workers[w].step = "begun" /\ workers' = [workers EXCEPT ![w].step = "guard"]
        /\ UNCHANGED <<shown, guard>>
    BY <1>3 DEF SpawnWorker, WorkerAt
  <2>2. guard # w BY <2>1, <1>0 DEF TaskInv, ShownIsTrue
  <2>3. Takes(w, "guard", workers[w].result) BY <2>1, StepTakes
  <2> QED BY <1>0, <2>1, <2>2, <2>3, ShownWorks, TakesKeeps
<1>4. ASSUME NEW w \in Tasks, AttachWorker(w) PROVE TaskInv'
  <2>1. shown' = [shown EXCEPT !.abortable = TRUE] /\ UNCHANGED <<workers, guard>>
    BY <1>4 DEF AttachWorker
  <2>2. shown' \in Shows /\ shown'.id = shown.id /\ shown'.state = shown.state
    BY <1>0, <2>1 DEF Shows
  <2> QED BY <2>1, <2>2 DEF TaskInv, ShownIsTrue
<1>5. ASSUME NEW w \in Tasks, WorkOn(w) PROVE TaskInv'
  <2>1. PICK f \in {"guard", "resolve", "download"}, s \in AtWork :
          /\ workers[w].step = f /\ Polled(w, s, "none") /\ shown' = shown
          /\ guard' = guard \/ guard' = w
    BY <1>5 DEF WorkOn, WorkerAt, AtWork
  <2>2. Takes(w, s, "none") BY <2>1, PollTakes
  <2>3. s # "ended" BY <2>1 DEF AtWork
  <2> QED BY <1>0, <2>1, <2>2, <2>3, ShownWorks, TakesKeeps
<1>6. ASSUME NEW w \in Tasks, WorkSucceeds(w) PROVE TaskInv'
  BY <1>6, EndKeeps DEF WorkSucceeds, WorkerAt
<1>7. ASSUME NEW w \in Tasks, WorkFails(w) PROVE TaskInv'
  BY <1>7, EndKeeps DEF WorkFails
<1>8. ASSUME NEW w \in Tasks, DropWorker(w) PROVE TaskInv'
  <2>1. /\ workers[w].step # "ended" /\ workers[w].asked # 0 /\ shown' = shown
        /\ guard' = IF guard = w THEN 0 ELSE guard
    BY <1>8 DEF DropWorker
  <2>2. PICK fresh : fresh = [step |-> "ended", asked |-> 2, result |-> "aborted"] OBVIOUS
  <2>3. fresh \in Workers /\ fresh.step = "ended" /\ fresh.result = "aborted"
    BY <2>2 DEF Workers
  <2>4. workers' = [workers EXCEPT ![w] = fresh] BY <1>8, <2>2 DEF DropWorker
  <2>5. Takes(w, "ended", "aborted") BY <2>1, <2>3, <2>4 DEF TaskInv, Takes
  <2>6. shown.id # w BY <2>1, ShownWorks
  <2> QED BY <1>0, <2>1, <2>5, <2>6, TakesKeeps
<1> QED BY <1>0, <1>1, <1>2, <1>3, <1>4, <1>5, <1>6, <1>7, <1>8 DEF TaskNext

LEMMA TaskAside == ASSUME TaskInv, UNCHANGED taskVars PROVE TaskInv'
BY DEF taskVars, TaskInv, ShownIsTrue

(***************************************************************************)
(* One artifact and its extraction.                                        *)
(***************************************************************************)
Fetches ==
    [step : {"off", "send", "body", "kept", "refused"}, sends : Nat, written : Nat,
     right : BOOLEAN, file : {"none", "partial", "kept"}, cached : {"none", "right"},
     expanded : Nat, disk : Nat, inside : BOOLEAN]
FetchInv ==
    /\ fetch \in Fetches
    /\ fetch.step \in {"off", "send"} => fetch.written = 0 /\ fetch.right
    /\ fetch.file = "kept" => fetch.step = "kept" /\ fetch.written = ArtifactSize /\ fetch.right
    /\ fetch.step = "refused" => fetch.file = "none"
    /\ fetch.disk <= fetch.expanded /\ fetch.expanded <= ExpandedLimit /\ fetch.inside

LEMMA SafeIsInside == ASSUME NEW name \in Names, SafeTarget(name) PROVE Depth(name) > 0
<1>1. PICK n \in 1..2 : name \in [1..n -> {"name", ".", "..", "c:"}] BY DEF Names
<1>2. {i \in DOMAIN name : name[i] = ".."} = {} BY DEF SafeTarget
<1>3. Count(name, "..") = 0 BY <1>2, FS_EmptySet DEF Count
<1>4. IsFiniteSet(DOMAIN name) BY <1>1, FS_Interval
<1>5. IsFiniteSet({i \in DOMAIN name : name[i] = "name"}) BY <1>4, FS_Subset
<1>6. Count(name, "name") \in Nat BY <1>5, FS_CardinalityType DEF Count
<1> QED BY <1>3, <1>6 DEF Depth, SafeTarget

LEMMA RefuseKeeps == ASSUME FetchInv, Refuse PROVE FetchInv'
<1>1. PICK v : v = fetch' OBVIOUS
<1>2. /\ v \in Fetches /\ v.step = "refused" /\ v.file = "none" /\ v.disk = fetch.disk
      /\ v.expanded = fetch.expanded /\ v.inside = fetch.inside
  BY <1>1 DEF Refuse, FetchInv, Fetches
<1> QED BY <1>1, <1>2 DEF FetchInv

LEMMA FetchKept == ASSUME FetchInv, FetchNext PROVE FetchInv'
<1>0. fetch \in Fetches /\ ArtifactSize \in Nat /\ ExpandedLimit \in Nat
  BY PackageAssumption DEF FetchInv
<1>1. ASSUME LookInCache PROVE FetchInv'
  <2>1. /\ fetch.step = "off"
        /\ \/ fetch' = [fetch EXCEPT !.step = "kept", !.cached = "right", !.file = "kept",
                           !.written = ArtifactSize]
           \/ fetch' = [fetch EXCEPT !.step = "send", !.cached = "none"]
    BY <1>1 DEF LookInCache, InFetch
  <2>2. CASE fetch' = [fetch EXCEPT !.step = "kept", !.cached = "right", !.file = "kept",
                         !.written = ArtifactSize]
    <3>1. /\ fetch' \in Fetches /\ fetch'.step = "kept" /\ fetch'.written = ArtifactSize
          /\ fetch'.right = fetch.right /\ fetch'.disk = fetch.disk
          /\ fetch'.expanded = fetch.expanded /\ fetch'.inside = fetch.inside
      BY <1>0, <2>2 DEF Fetches
    <3> QED BY <2>1, <3>1 DEF FetchInv
  <2>3. CASE fetch' = [fetch EXCEPT !.step = "send", !.cached = "none"]
    <3>1. /\ fetch' \in Fetches /\ fetch'.step = "send" /\ fetch'.written = fetch.written
          /\ fetch'.right = fetch.right /\ fetch'.disk = fetch.disk /\ fetch'.file = fetch.file
          /\ fetch'.expanded = fetch.expanded /\ fetch'.inside = fetch.inside
      BY <1>0, <2>3 DEF Fetches
    <3> QED BY <2>1, <3>1 DEF FetchInv
  <2> QED BY <2>1, <2>2, <2>3
<1>2. ASSUME SendRequest PROVE FetchInv'
  <2>1. CASE fetch' = [fetch EXCEPT !.step = "body", !.file = "partial"]
    <3>1. /\ fetch' \in Fetches /\ fetch'.step = "body" /\ fetch'.file = "partial"
          /\ fetch'.disk = fetch.disk
          /\ fetch'.expanded = fetch.expanded /\ fetch'.inside = fetch.inside
      BY <1>0, <2>1 DEF Fetches
    <3> QED BY <3>1 DEF FetchInv
  <2> QED BY <1>2, <2>1, RefuseKeeps DEF SendRequest
<1>3. ASSUME RequestFails PROVE FetchInv'
  <2>1. CASE fetch.sends < 2
    <3>1. fetch' = [fetch EXCEPT !.sends = fetch.sends + 1] /\ fetch.step = "send"
      BY <1>3, <2>1 DEF RequestFails, InFetch
    <3>2. PICK n \in Nat : n = fetch.sends + 1 BY <1>0 DEF Fetches
    <3>3. fetch' = [fetch EXCEPT !.sends = n] BY <3>1, <3>2
    <3>4. /\ fetch' \in Fetches /\ fetch'.step = fetch.step /\ fetch'.written = fetch.written
          /\ fetch'.right = fetch.right /\ fetch'.disk = fetch.disk /\ fetch'.file = fetch.file
          /\ fetch'.expanded = fetch.expanded /\ fetch'.inside = fetch.inside
      BY <1>0, <3>3 DEF Fetches
    <3> QED BY <3>1, <3>4 DEF FetchInv
  <2> QED BY <1>3, <2>1, RefuseKeeps DEF RequestFails
<1>4. ASSUME ReceiveChunk PROVE FetchInv'
  <2>1. PICK size \in 1..ArtifactSize, right \in BOOLEAN :
          IF Exceeds(size) THEN Refuse
          ELSE fetch' = [fetch EXCEPT !.written = fetch.written + size,
                           !.right = fetch.right /\ right]
    BY <1>4 DEF ReceiveChunk
  <2>2. CASE ~Exceeds(size)
    <3>1. PICK n \in Nat : n = fetch.written + size BY <1>0 DEF Fetches
    <3>2. PICK r \in BOOLEAN : r = (fetch.right /\ right) BY <1>0 DEF Fetches
    <3>3. fetch' = [fetch EXCEPT !.written = n, !.right = r] BY <2>1, <2>2, <3>1, <3>2
    <3>4. fetch.step = "body" BY <1>4 DEF ReceiveChunk, InFetch
    <3>5. /\ fetch' \in Fetches /\ fetch'.step = fetch.step /\ fetch'.disk = fetch.disk
          /\ fetch'.file = fetch.file
          /\ fetch'.expanded = fetch.expanded /\ fetch'.inside = fetch.inside
      BY <1>0, <3>3 DEF Fetches
    <3> QED BY <3>4, <3>5 DEF FetchInv
  <2> QED BY <2>1, <2>2, RefuseKeeps
<1>5. ASSUME EndBody PROVE FetchInv'
  <2>1. CASE Complete
    <3>1. fetch' = [fetch EXCEPT !.step = "kept", !.file = "kept", !.cached = "right"]
      BY <1>5, <2>1 DEF EndBody
    <3>2. /\ fetch' \in Fetches /\ fetch'.step = "kept" /\ fetch'.written = fetch.written
          /\ fetch'.right = fetch.right /\ fetch'.disk = fetch.disk
          /\ fetch'.expanded = fetch.expanded /\ fetch'.inside = fetch.inside
      BY <1>0, <3>1 DEF Fetches
    <3> QED BY <2>1, <3>2 DEF FetchInv, Complete
  <2> QED BY <1>5, <2>1, RefuseKeeps DEF EndBody
<1>6. ASSUME BreakBody PROVE FetchInv' BY <1>6, RefuseKeeps DEF BreakBody
<1>7. ASSUME ExtractEntry PROVE FetchInv'
  <2>1. PICK said \in 1..ExpandedLimit, had \in 1..(ExpandedLimit + 1), name \in Names :
          IF fetch.expanded + said > ExpandedLimit \/ ~SafeTarget(name) \/ had > said
          THEN Refuse
          ELSE fetch' = [fetch EXCEPT !.expanded = fetch.expanded + said,
                           !.disk = fetch.disk + had,
                           !.inside = fetch.inside /\ Depth(name) > 0]
    BY <1>7 DEF ExtractEntry
  <2>2. CASE fetch.expanded + said <= ExpandedLimit /\ SafeTarget(name) /\ had <= said
    <3>1. PICK n \in Nat : n = fetch.expanded + said BY <1>0 DEF Fetches
    <3>2. PICK m \in Nat : m = fetch.disk + had BY <1>0 DEF Fetches
    <3>3. (fetch.inside /\ Depth(name) > 0) = TRUE BY <2>2, SafeIsInside DEF FetchInv
    <3>4. fetch' = [fetch EXCEPT !.expanded = n, !.disk = m, !.inside = TRUE]
      <4>1. ~(fetch.expanded + said > ExpandedLimit \/ ~SafeTarget(name) \/ had > said)
        BY <1>0, <2>2 DEF Fetches
      <4> QED BY <2>1, <3>1, <3>2, <3>3, <4>1
    <3>5. /\ fetch' \in Fetches /\ fetch'.step = fetch.step /\ fetch'.written = fetch.written
          /\ fetch'.right = fetch.right /\ fetch'.disk = m /\ fetch'.file = fetch.file
          /\ fetch'.expanded = n /\ fetch'.inside = TRUE
      BY <1>0, <3>4 DEF Fetches
    <3>6. m <= n /\ n <= ExpandedLimit BY <1>0, <2>2, <3>1, <3>2 DEF FetchInv, Fetches
    <3> QED BY <3>5, <3>6 DEF FetchInv
  <2>3. CASE ~(fetch.expanded + said <= ExpandedLimit /\ SafeTarget(name) /\ had <= said)
    <3>1. fetch.expanded + said > ExpandedLimit \/ ~SafeTarget(name) \/ had > said
      BY <1>0, <2>3 DEF Fetches
    <3> QED BY <2>1, <3>1, RefuseKeeps
  <2> QED BY <2>2, <2>3
<1> QED BY <1>1, <1>2, <1>3, <1>4, <1>5, <1>6, <1>7 DEF FetchNext

LEMMA FetchSound == FetchInv => KeptIsVerified
BY PackageAssumption DEF FetchInv, KeptIsVerified, Fetches

(***************************************************************************)
(* The removal of the application.                                         *)
(***************************************************************************)
Removals ==
    [step : {"off", "service", "network", "retain", "cores", "home", "programs"},
     purge : BOOLEAN, shared : BOOLEAN, problem : BOOLEAN]
Remains ==
    [service : BOOLEAN, cores : BOOLEAN, document : {"names", "reset", "gone"},
     programs : BOOLEAN, purging : BOOLEAN]
DocumentGone == removal.purge => remains.document = "gone"
RemovalInv ==
    /\ removal \in Removals /\ remains \in Remains
    /\ removal.step = "cores" => removal.purge \/ remains.document \in {"reset", "gone"}
    /\ ~removal.problem =>
         /\ removal.step \in {"home", "programs"} => ~remains.cores
         /\ removal.step = "programs" => DocumentGone
         /\ removal.step = "off" /\ ~remains.service =>
              ~remains.cores /\ ~remains.programs /\ DocumentGone
    /\ ~remains.cores /\ remains.document # "gone" =>
         remains.document = "reset" \/ remains.purging

LEMMA GoOnIs ==
    ASSUME RemovalInv, NEW step \in {"off", "network", "retain", "cores", "home", "programs"},
           GoOn(step)
    PROVE  /\ removal' \in Removals /\ removal'.step = step /\ removal'.purge = removal.purge
           /\ removal'.problem = removal.problem
BY DEF RemovalInv, Removals, GoOn

LEMMA ProblemKeeps ==
    ASSUME RemovalInv, NEW next \in {"off", "retain", "home", "programs"}, Problem(next)
    PROVE  RemovalInv'
<1>1. remains' = remains /\ removal' = [removal EXCEPT !.step = next, !.problem = TRUE]
  BY DEF Problem
<1>2. removal' \in Removals /\ removal'.step = next /\ removal'.problem = TRUE
  BY <1>1 DEF RemovalInv, Removals
<1> QED BY <1>1, <1>2 DEF RemovalInv

LEMMA RemovalKept == ASSUME RemovalInv, RemovalNext PROVE RemovalInv'
<1>0. removal \in Removals /\ remains \in Remains BY DEF RemovalInv
<1> USE DEF InRemoval
<1>1. ASSUME BeginRemoval PROVE RemovalInv'
  <2>1. PICK purge \in BOOLEAN, shared \in BOOLEAN :
          removal' = [removal EXCEPT !.step = "service", !.purge = purge, !.shared = shared,
                        !.problem = FALSE]
    BY <1>1 DEF BeginRemoval
  <2>2. removal' \in Removals /\ removal'.step = "service" BY <1>0, <2>1 DEF Removals
  <2> QED BY <1>1, <2>2 DEF BeginRemoval, RemovalInv
<1>2. ASSUME RemoveService PROVE RemovalInv'
  <2>1. CASE remains' = [remains EXCEPT !.service = FALSE] /\ GoOn("network")
    <3>1. /\ remains' \in Remains /\ remains'.document = remains.document
          /\ remains'.cores = remains.cores /\ remains'.purging = remains.purging
      BY <1>0, <2>1 DEF Remains
    <3> QED BY <2>1, <3>1, GoOnIs DEF RemovalInv
  <2> QED BY <1>2, <2>1, ProblemKeeps DEF RemoveService
<1>3. ASSUME CleanNetwork PROVE RemovalInv'
  <2>1. CASE GoOn("retain") /\ remains' = remains BY <2>1, GoOnIs DEF RemovalInv
  <2> QED BY <1>3, <2>1, ProblemKeeps DEF CleanNetwork
<1>4. ASSUME RetainConfiguration PROVE RemovalInv'
  <2>1. CASE removal.purge /\ remains' = remains /\ GoOn("cores")
    BY <2>1, GoOnIs DEF RemovalInv
  <2>2. CASE ~removal.purge /\ GoOn("cores")
             /\ remains' = [remains EXCEPT !.document = ResetDocument(@)]
    <3>1. PICK d \in {"reset", "gone"} : d = ResetDocument(remains.document)
      BY <1>0 DEF Remains, ResetDocument
    <3>2. remains' = [remains EXCEPT !.document = d] BY <2>2, <3>1
    <3>3. /\ remains' \in Remains /\ remains'.document = d
          /\ remains'.cores = remains.cores
      BY <1>0, <3>2 DEF Remains
    <3> QED BY <2>2, <3>3, GoOnIs DEF RemovalInv
  <2> QED BY <1>4, <2>1, <2>2, ProblemKeeps DEF RetainConfiguration
<1>5. ASSUME RemoveCores PROVE RemovalInv'
  <2>1. CASE GoOn("home") /\ remains' = [remains EXCEPT !.cores = FALSE,
                                           !.purging = @ \/ removal.purge]
    <3>1. PICK p \in BOOLEAN : p = (remains.purging \/ removal.purge)
      BY <1>0 DEF Remains, Removals
    <3>2. remains' = [remains EXCEPT !.cores = FALSE, !.purging = p] BY <2>1, <3>1
    <3>3. /\ remains' \in Remains /\ remains'.cores = FALSE /\ remains'.purging = p
          /\ remains'.document = remains.document
      BY <1>0, <3>2 DEF Remains
    <3>4. removal.step = "cores" BY <1>5 DEF RemoveCores
    <3> QED BY <2>1, <3>1, <3>3, <3>4, GoOnIs DEF RemovalInv
  <2> QED BY <1>5, <2>1, ProblemKeeps DEF RemoveCores
<1>6. ASSUME RemoveHome PROVE RemovalInv'
  <2>0. removal.step = "home" BY <1>6 DEF RemoveHome
  <2>1. CASE removal.purge /\ GoOn("programs")
             /\ remains' = [remains EXCEPT !.document = "gone", !.cores = FALSE,
                              !.programs = @ /\ ~removal.shared]
    <3>1. PICK p \in BOOLEAN : p = (remains.programs /\ ~removal.shared)
      BY <1>0 DEF Remains, Removals
    <3>2. remains' = [remains EXCEPT !.document = "gone", !.cores = FALSE, !.programs = p]
      BY <2>1, <3>1
    <3>3. remains' \in Remains /\ remains'.cores = FALSE /\ remains'.document = "gone"
      BY <1>0, <3>2 DEF Remains
    <3> QED BY <2>1, <3>3, GoOnIs DEF RemovalInv, DocumentGone
  <2>2. CASE ~removal.purge /\ GoOn("programs") /\ remains' = remains
    BY <2>0, <2>2, GoOnIs DEF RemovalInv, DocumentGone
  <2> QED BY <1>6, <2>1, <2>2, ProblemKeeps DEF RemoveHome
<1>7. ASSUME RemovePrograms PROVE RemovalInv'
  <2>1. CASE remains' = [remains EXCEPT !.programs = FALSE] /\ GoOn("off")
    <3>1. /\ remains' \in Remains /\ remains'.programs = FALSE
          /\ remains'.document = remains.document
          /\ remains'.cores = remains.cores /\ remains'.purging = remains.purging
      BY <1>0, <2>1 DEF Remains
    <3>2. removal.step = "programs" BY <1>7 DEF RemovePrograms
    <3> QED BY <2>1, <3>1, <3>2, GoOnIs DEF RemovalInv, DocumentGone
  <2> QED BY <1>7, <2>1, ProblemKeeps DEF RemovePrograms
<1>8. ASSUME KillRemoval PROVE RemovalInv'
  <2>1. remains' = remains /\ removal' = [removal EXCEPT !.step = "off", !.problem = TRUE]
    BY <1>8 DEF KillRemoval
  <2>2. removal' \in Removals /\ removal'.step = "off" /\ removal'.problem = TRUE
    BY <1>0, <2>1 DEF Removals
  <2> QED BY <2>1, <2>2 DEF RemovalInv
<1> QED BY <1>1, <1>2, <1>3, <1>4, <1>5, <1>6, <1>7, <1>8 DEF RemovalNext

LEMMA RemovalSound == RemovalInv => RemovalConsistent
BY DEF RemovalInv, RemovalConsistent, DocumentGone

(***************************************************************************)
(* The parts together.                                                     *)
(***************************************************************************)
PackageInv == UiInv /\ DashboardInv /\ TaskInv /\ FetchInv /\ RemovalInv

LEMMA PackagesBegin == PackageInit => PackageInv
<1> SUFFICES ASSUME PackageInit PROVE PackageInv OBVIOUS
<1>1. UiInv BY UiBegins
<1>2. DashboardInv BY NoInstallerIs DEF PackageInit, DashboardInv, DashboardStates
<1>3. TaskInv
  <2>1. NoTask \in Shows /\ NoTask.id = 0 BY DEF NoTask, Shows
  <2>2. NoWorker \in Workers /\ NoWorker.asked = 0 BY DEF NoWorker, Workers
  <2> QED BY <2>1, <2>2 DEF PackageInit, TaskInv, ShownIsTrue, Tasks
<1>4. FetchInv
  <2>1. /\ NoFetch \in Fetches /\ NoFetch.written = 0 /\ NoFetch.right = TRUE
        /\ NoFetch.file = "none" /\ NoFetch.step = "off" /\ NoFetch.inside = TRUE
        /\ NoFetch.expanded = 0 /\ NoFetch.disk = 0
    BY DEF NoFetch, Fetches
  <2> QED BY <2>1, PackageAssumption DEF PackageInit, FetchInv
<1>5. RemovalInv
  <2>1. NoRemoval \in Removals /\ NoRemoval.step = "off" BY DEF NoRemoval, Removals
  <2>2. Installed \in Remains /\ Installed.service = TRUE /\ Installed.cores = TRUE
    BY DEF Installed, Remains
  <2> QED BY <2>1, <2>2 DEF PackageInit, RemovalInv
<1> QED BY <1>1, <1>2, <1>3, <1>4, <1>5 DEF PackageInv

\* A step of a part is none of the others, and only the faults are counted for all.
LEMMA UiApart ==
    UiNext => UNCHANGED <<dashboardVars, taskVars, fetch, removal, remains>>
BY DEF UiNext, Propose, Decline, Confirm, InstallAtOnce, RemoveUi, DeletePrevious, Look,
       MoveAside, PlaceUi, RestoreUi, EndActivation, DeleteUi, UiFails, KillCaller, JobAt, InUi

LEMMA DashboardApart ==
    DashboardNext => /\ UNCHANGED <<uiVars, taskVars, fetch, removal, remains>>
                     /\ packageFaults' = packageFaults \/ PackageFault
BY DEF DashboardNext, PrepareDashboard, ServeDashboard, EndServing, InstallDashboard,
       KillServing, ReplaceDashboard, InstallFails, InDashboard

LEMMA TaskApart ==
    TaskNext => /\ UNCHANGED <<uiVars, dashboardVars, fetch, removal, remains>>
                /\ packageFaults' = packageFaults \/ PackageFault
BY DEF TaskNext, CancelTask, BeginTask, SpawnWorker, AttachWorker, WorkOn, WorkSucceeds,
       WorkFails, DropWorker, WorkerAt, InTask

LEMMA FetchApart ==
    FetchNext => /\ UNCHANGED <<uiVars, dashboardVars, taskVars, removal, remains>>
                 /\ packageFaults' = packageFaults \/ PackageFault
BY DEF FetchNext, LookInCache, SendRequest, RequestFails, ReceiveChunk, EndBody, BreakBody,
       ExtractEntry, InFetch

LEMMA RemovalApart ==
    RemovalNext => /\ UNCHANGED <<uiVars, dashboardVars, taskVars, fetch>>
                   /\ packageFaults' = packageFaults \/ PackageFault
BY DEF RemovalNext, BeginRemoval, RemoveService, CleanNetwork, RetainConfiguration,
       RemoveCores, RemoveHome, RemovePrograms, KillRemoval, InRemoval, Problem

LEMMA PackagesKeep == ASSUME PackageInv, [PackageNext]_packageVars PROVE PackageInv'
<1> USE DEF PackageInv
<1>1. UNCHANGED fetch /\ FetchInv => FetchInv' BY DEF FetchInv
<1>2. UNCHANGED <<removal, remains>> /\ RemovalInv => RemovalInv'
  BY DEF RemovalInv, DocumentGone
<1>3. CASE UiNext
  <2>1. UNCHANGED <<dashboardVars, taskVars, fetch, removal, remains>> BY <1>3, UiApart
  <2> QED BY <1>1, <1>2, <1>3, <2>1, UiKept, DashboardAside, TaskAside
<1>4. CASE DashboardNext
  BY <1>1, <1>2, <1>4, DashboardApart, UiAside, DashboardKept, TaskAside
<1>5. CASE TaskNext
  BY <1>1, <1>2, <1>5, TaskApart, UiAside, DashboardAside, TaskKept
<1>6. CASE FetchNext
  BY <1>1, <1>2, <1>6, FetchApart, UiAside, DashboardAside, TaskAside, FetchKept
<1>7. CASE RemovalNext
  BY <1>1, <1>2, <1>7, RemovalApart, UiAside, DashboardAside, TaskAside, RemovalKept
<1>8. CASE UNCHANGED packageVars
  <2>1. UNCHANGED <<uiVars, dashboardVars, taskVars, fetch, removal, remains, packageFaults>>
    BY <1>8 DEF packageVars, uiVars, dashboardVars, taskVars
  <2> QED BY <1>1, <1>2, <2>1, UiAside, DashboardAside, TaskAside
<1> QED BY <1>3, <1>4, <1>5, <1>6, <1>7, <1>8 DEF PackageNext

LEMMA PackageInvHolds == PackageInv => PackagesSound
BY UiSound, DashboardSound, FetchSound, RemovalSound DEF PackageInv, TaskInv, PackagesSound

\* An activation of its own leaves its package, whole; those that overlap lose nothing, and of
\* two none is torn; a package has one caller; a served dashboard is there or moved aside; what
\* the page shows of a download is what its worker does; what is kept of an archive is what the
\* release names, and expands inside its directory; a kept document names no removed core.
THEOREM PackagesAlwaysSound == PackageInit /\ [][PackageNext]_packageVars => []PackagesSound
<1> QED BY PackageInvHolds, PackagesBegin, PackagesKeep, PTL

(***************************************************************************)
(* CoreChoice.  The candidates are few, and an order of them is found by   *)
(* putting one after another where it belongs.                             *)
(***************************************************************************)
Rank(p, h, r) == IF Eligible(p, h, r) THEN Score(p, h) ELSE -1
\* The places of the candidates by one number.
Place(p, h, r) == 10 * Rank(p, h, r) - p.id
Leads(p, S, h, r) == \A q \in S \ {p} : Precedes(p, q, h, r)

LEMMA PrecedesIs ==
  ASSUME NEW h, NEW r, NEW p, NEW q, p.id \in 1..4, q.id \in 1..4,
         Rank(p, h, r) \in Int, Rank(q, h, r) \in Int
  PROVE  /\ Place(p, h, r) \in Int
         /\ Precedes(p, q, h, r) <=> Place(p, h, r) > Place(q, h, r)
<1> DEFINE a == Rank(p, h, r)
           b == Rank(q, h, r)
<1>1. Precedes(p, q, h, r) <=> (a > b \/ (a = b /\ p.id < q.id))
  BY DEF Precedes, Rank
<1>2. Place(p, h, r) = 10 * a - p.id /\ Place(q, h, r) = 10 * b - q.id
  BY DEF Place
<1> HIDE DEF a, b
<1>3. a \in Int /\ b \in Int
  BY DEF a, b
<1> QED BY <1>1, <1>2, <1>3

LEMMA PlacesDiffer ==
  \A a, b \in Int, i, j \in 1..4 : i # j => 10 * a - i # 10 * b - j
  OBVIOUS

LEMMA LeaderOfMore ==
  ASSUME NEW h, NEW r, NEW S, NEW x, x.id \in 1..4, Rank(x, h, r) \in Int,
         \A p \in S : p.id \in 1..4 /\ Rank(p, h, r) \in Int /\ p.id # x.id,
         S # {} => \E p \in S : Leads(p, S, h, r)
  PROVE  \E p \in S \cup {x} : Leads(p, S \cup {x}, h, r)
<1>1. CASE S = {}
  BY <1>1 DEF Leads
<1>2. CASE S # {}
  <2>1. PICK p \in S : Leads(p, S, h, r)
    BY <1>2
  <2> DEFINE key(q) == Place(q, h, r)
             before(q, o) == Precedes(q, o, h, r)
  <2>2. /\ \A q \in S : key(q) \in Int /\ q.id \in 1..4 /\ Rank(q, h, r) \in Int
        /\ key(x) \in Int
    BY PrecedesIs
  <2>3. \A q \in S : /\ before(p, q) <=> key(p) > key(q)
                     /\ before(x, q) <=> key(x) > key(q)
    BY <2>2, PrecedesIs
  <2>4. before(p, x) <=> key(p) > key(x)
    BY <2>2, PrecedesIs
  <2>5. key(p) # key(x)
    <3>1. /\ key(p) = 10 * Rank(p, h, r) - p.id /\ key(x) = 10 * Rank(x, h, r) - x.id
          /\ Rank(p, h, r) \in Int /\ p.id \in 1..4 /\ p.id # x.id
      BY DEF Place
    <3> QED BY <3>1, PlacesDiffer
  <2>6. \A q \in S \ {p} : before(p, q)
    BY <2>1 DEF Leads
  <2> SUFFICES \E q \in S \cup {x} : \A o \in (S \cup {x}) \ {q} : before(q, o)
    BY DEF Leads
  <2> HIDE DEF key, before
  <2>7. CASE key(p) > key(x)
    <3>1. \A o \in (S \cup {x}) \ {p} : before(p, o)
      BY <2>4, <2>6, <2>7
    <3> QED BY <3>1
  <2>8. CASE key(x) > key(p)
    <3>1. ASSUME NEW o \in S PROVE before(x, o)
      <4>1. o = p \/ key(p) > key(o)
        BY <2>3, <2>6
      <4>2. key(o) \in Int /\ key(p) \in Int /\ key(x) \in Int
        BY <2>2
      <4>3. key(x) > key(o)
        BY <2>8, <4>1, <4>2
      <4> QED BY <2>3, <4>3
    <3>2. \A o \in (S \cup {x}) \ {x} : before(x, o)
      BY <3>1
    <3> QED BY <3>2
  <2>9. key(p) \in Int /\ key(x) \in Int
    BY <2>2
  <2> QED BY <2>5, <2>7, <2>8, <2>9
<1> QED BY <1>1, <1>2

LEMMA ElevenProtocols == ProtocolCoverage = 100
<1>1. IsFiniteSet({}) /\ Cardinality({}) = 0
  BY FS_EmptySet
<1> DEFINE four == {"anytls", "http", "hysteria", "hysteria2"}
           eight == {"anytls", "http", "hysteria", "hysteria2", "shadowsocks", "shadowtls",
                     "socks5", "trojan"}
<1>2. IsFiniteSet(four) /\ Cardinality(four) = 4
  <2>1. IsFiniteSet({"anytls"}) /\ Cardinality({"anytls"}) = 1
    BY FS_Singleton
  <2>2. IsFiniteSet({"anytls"} \cup {"http"}) /\ Cardinality({"anytls"} \cup {"http"}) = 2
    BY <2>1, FS_AddElement
  <2>3. {"anytls"} \cup {"http"} = {"anytls", "http"}
    OBVIOUS
  <2>4. IsFiniteSet({"anytls", "http"} \cup {"hysteria"})
        /\ Cardinality({"anytls", "http"} \cup {"hysteria"}) = 3
    BY <2>2, <2>3, FS_AddElement
  <2>5. {"anytls", "http"} \cup {"hysteria"} = {"anytls", "http", "hysteria"}
    OBVIOUS
  <2>6. IsFiniteSet({"anytls", "http", "hysteria"} \cup {"hysteria2"})
        /\ Cardinality({"anytls", "http", "hysteria"} \cup {"hysteria2"}) = 4
    BY <2>4, <2>5, FS_AddElement
  <2>7. {"anytls", "http", "hysteria"} \cup {"hysteria2"} = four
    OBVIOUS
  <2> QED BY <2>6, <2>7
<1>3. IsFiniteSet(eight) /\ Cardinality(eight) = 8
  <2> DEFINE five == four \cup {"shadowsocks"}
             six == five \cup {"shadowtls"}
             seven == six \cup {"socks5"}
  <2>1. "shadowsocks" \notin four /\ "shadowtls" \notin five /\ "socks5" \notin six
        /\ "trojan" \notin seven /\ seven \cup {"trojan"} = eight
    OBVIOUS
  <2> HIDE DEF four, eight, five, six, seven
  <2>2. IsFiniteSet(five) /\ Cardinality(five) = 5
    BY <1>2, <2>1, FS_AddElement DEF five
  <2>3. IsFiniteSet(six) /\ Cardinality(six) = 6
    BY <2>2, <2>1, FS_AddElement DEF six
  <2>4. IsFiniteSet(seven) /\ Cardinality(seven) = 7
    BY <2>3, <2>1, FS_AddElement DEF seven
  <2> QED BY <2>4, <2>1, FS_AddElement
<1>4. Cardinality(Protocols) = 11
  <2> DEFINE nine == eight \cup {"tuic"}
             ten == nine \cup {"vless"}
  <2>1. "tuic" \notin eight /\ "vless" \notin nine /\ "vmess" \notin ten
        /\ ten \cup {"vmess"} = Protocols
    BY DEF Protocols
  <2> HIDE DEF eight, nine, ten
  <2>2. IsFiniteSet(nine) /\ Cardinality(nine) = 9
    BY <1>3, <2>1, FS_AddElement DEF nine
  <2>3. IsFiniteSet(ten) /\ Cardinality(ten) = 10
    BY <2>2, <2>1, FS_AddElement DEF ten
  <2> QED BY <2>3, <2>1, FS_AddElement
<1> QED BY <1>4 DEF ProtocolCoverage

Validations == {"verified", "compatible"}
Releases == {"stable", "preview", "legacy"}
Fallbacks == {"external", "override"}

(* No candidate has less than one point or more than a hundred.              *)
LEMMA PointsOf ==
  ASSUME NEW h, NEW p, p.validation \in Validations, p.release \in Releases
  PROVE  Score(p, h) \in 1..100
<1>1. Points("platform", p, h) \in {30, 15}
  BY DEF Points, Utility, Weights, Validations
<1>2. Points("release", p, h) \in {25, 10, 15}
  BY DEF Points, Utility, Weights, Releases
<1>3. Points("dns", p, h) \in {30, 23, 12}
  BY DEF Points, Utility, Weights
<1>4. Points("protocols", p, h) = 15
  BY ElevenProtocols DEF Points, Utility, Weights
<1> QED BY <1>1, <1>2, <1>3, <1>4 DEF Score

CoreNames == {"sing-box", "mihomo"}
LEMMA ProfilesAre ==
  ASSUME NEW h
  PROVE  /\ \A p \in CandidateProfiles(h) :
              /\ p.id \in 1..4 /\ p.core \in CoreNames /\ p.reference \in Nat
              /\ p.validation \in Validations /\ p.release \in Releases
         /\ \E a, b, c, d :
              /\ a.id = 1 /\ b.id = 2 /\ c.id = 3 /\ d.id = 4
              /\ \/ CandidateProfiles(h) = {a, b, c, d}
                 \/ CandidateProfiles(h) = {a, b, c}
                 \/ CandidateProfiles(h) = {a, b}
<1> DEFINE first == Profile(1, "mihomo", Stable, IF h.os = "darwin" THEN "compatible" ELSE "verified",
                            "stable", "external")
           early == Profile(2, "sing-box", 14, "compatible", "preview", "external")
           soon == Profile(2, "sing-box", 14, "verified", "preview", "external")
           plain == Profile(2, "sing-box", Stable, "verified", "stable", "external")
           third == Profile(3, "sing-box", Stable, "verified", "stable", "external")
           fourth == Profile(4, "sing-box", 12, "verified", "legacy", "override")
<1>1. /\ first.id = 1 /\ early.id = 2 /\ soon.id = 2 /\ plain.id = 2 /\ third.id = 3 /\ fourth.id = 4
      /\ \A p \in {first, early, soon, plain, third, fourth} :
              /\ p.core \in CoreNames /\ p.reference \in Nat
              /\ p.validation \in Validations /\ p.release \in Releases
  BY DEF Profile, Validations, Releases, CoreNames, Stable
<1>2. CandidateProfiles(h) \in {{first, early, third, fourth}, {first, soon, third}, {first, plain}}
  <2>1. CASE h.os = "darwin"
    <3>1. CandidateProfiles(h) = {first} \cup {early, third, fourth}
      BY <2>1 DEF CandidateProfiles
    <3> HIDE DEF first, early, soon, plain, third, fourth
    <3> QED BY <3>1
  <2>2. CASE h.os = "windows"
    <3>1. CandidateProfiles(h) = {first} \cup {soon, third}
      BY <2>2 DEF CandidateProfiles
    <3> HIDE DEF first, early, soon, plain, third, fourth
    <3> QED BY <3>1
  <2>3. CASE h.os \notin {"darwin", "windows"}
    <3>1. CandidateProfiles(h) = {first} \cup {plain}
      BY <2>3 DEF CandidateProfiles
    <3> HIDE DEF first, early, soon, plain, third, fourth
    <3> QED BY <3>1
  <2> QED BY <2>1, <2>2, <2>3
<1> HIDE DEF first, early, soon, plain, third, fourth
<1> QED BY <1>1, <1>2

LEMMA RankedCandidates ==
  ASSUME NEW h, NEW r, NEW p \in CandidateProfiles(h)
  PROVE  Rank(p, h, r) \in Int /\ Score(p, h) \in 1..100
<1>1. Score(p, h) \in 1..100
  BY ProfilesAre, PointsOf
<1> QED BY <1>1 DEF Rank

(* The first of those that are eligible, where one is.                       *)
LEMMA RecommendedLeads ==
  ASSUME NEW h, NEW r, NEW p \in CandidateProfiles(h), Eligible(p, h, r)
  PROVE  /\ RecommendedProfile(h, r) \in CandidateProfiles(h) /\ Eligible(RecommendedProfile(h, r), h, r)
         /\ p # RecommendedProfile(h, r) => Precedes(RecommendedProfile(h, r), p, h, r)
<1> DEFINE fits == {q \in CandidateProfiles(h) : Eligible(q, h, r)}
<1>1. PICK a, b, c, d :
        /\ a.id = 1 /\ b.id = 2 /\ c.id = 3 /\ d.id = 4
        /\ \/ CandidateProfiles(h) = {a, b, c, d}
           \/ CandidateProfiles(h) = {a, b, c}
           \/ CandidateProfiles(h) = {a, b}
  BY ProfilesAre
<1>2. \A q \in fits : q.id \in 1..4 /\ Rank(q, h, r) \in Int
  BY ProfilesAre, RankedCandidates
<1>3. fits \subseteq {a, b, c, d} /\ p \in fits
  BY <1>1
<1> HIDE DEF fits
<1>4. ASSUME NEW S \in SUBSET fits, S # {} => \E q \in S : Leads(q, S, h, r),
             NEW x, x \notin S, \A q \in S : q.id # x.id
      PROVE  fits \cap (S \cup {x}) # {} =>
               \E q \in fits \cap (S \cup {x}) : Leads(q, fits \cap (S \cup {x}), h, r)
  <2>1. CASE x \in fits
    <3>1. fits \cap (S \cup {x}) = S \cup {x}
      BY <2>1
    <3>2. x.id \in 1..4 /\ Rank(x, h, r) \in Int
          /\ \A q \in S : q.id \in 1..4 /\ Rank(q, h, r) \in Int /\ q.id # x.id
      BY <1>2, <1>4, <2>1
    <3>3. \E q \in S \cup {x} : Leads(q, S \cup {x}, h, r)
      BY <1>4, <3>2, LeaderOfMore
    <3> QED BY <3>1, <3>3
  <2>2. CASE x \notin fits
    <3>1. fits \cap (S \cup {x}) = S
      BY <2>2
    <3> QED BY <3>1, <1>4
  <2> QED BY <2>1, <2>2
<1> DEFINE one == fits \cap ({} \cup {a})
           two == fits \cap (one \cup {b})
           three == fits \cap (two \cup {c})
           four == fits \cap (three \cup {d})
<1>5. /\ one \subseteq fits /\ two \subseteq fits /\ three \subseteq fits
      /\ \A q \in one : q.id < 2
      /\ \A q \in two : q.id < 3
      /\ \A q \in three : q.id < 4
      /\ four = fits
  BY <1>1, <1>3
<1>6. one # {} => \E q \in one : Leads(q, one, h, r)
  BY <1>4
<1> HIDE DEF one
<1>7. two # {} => \E q \in two : Leads(q, two, h, r)
  <2>1. b \notin one /\ \A q \in one : q.id # b.id
    BY <1>1, <1>5
  <2> QED BY <1>4, <1>5, <1>6, <2>1
<1> HIDE DEF two
<1>8. three # {} => \E q \in three : Leads(q, three, h, r)
  <2>1. c \notin two /\ \A q \in two : q.id # c.id
    BY <1>1, <1>5
  <2> QED BY <1>4, <1>5, <1>7, <2>1
<1> HIDE DEF three
<1>9. four # {} => \E q \in four : Leads(q, four, h, r)
  <2>1. d \notin three /\ \A q \in three : q.id # d.id
    BY <1>1, <1>5
  <2> QED BY <1>4, <1>5, <1>8, <2>1
<1>10. \E q \in fits : \A other \in fits \ {q} : Precedes(q, other, h, r)
  BY <1>3, <1>5, <1>9 DEF Leads
<1>11. RecommendedProfile(h, r) = CHOOSE q \in fits : \A other \in fits \ {q} : Precedes(q, other, h, r)
  BY DEF RecommendedProfile, fits
<1>12. /\ RecommendedProfile(h, r) \in fits
       /\ \A other \in fits \ {RecommendedProfile(h, r)} : Precedes(RecommendedProfile(h, r), other, h, r)
  BY <1>10, <1>11
<1> QED BY <1>3, <1>12 DEF fits

LEMMA BestIsRecommended == RecommendationBest
<1> DEFINE r == Requires(want)
           best == RecommendedProfile(host, r)
<1>1. SUFFICES ASSUME NEW p \in CandidateProfiles(host)
      PROVE  /\ Score(p, host) \in 1..100
             /\ Eligible(p, host, r) =>
                  /\ best \in CandidateProfiles(host) /\ Eligible(best, host, r)
                  /\ Score(best, host) >= Score(p, host)
  BY DEF RecommendationBest
<1> HIDE DEF r
<1>2. Score(p, host) \in 1..100
  BY RankedCandidates
<1>3. ASSUME Eligible(p, host, r)
      PROVE  /\ best \in CandidateProfiles(host) /\ Eligible(best, host, r)
             /\ Score(best, host) >= Score(p, host)
  <2>1. /\ best \in CandidateProfiles(host) /\ Eligible(best, host, r)
        /\ p # best => Precedes(best, p, host, r)
    BY <1>3, RecommendedLeads
  <2> HIDE DEF best
  <2>2. Score(best, host) \in 1..100
    BY <2>1, RankedCandidates
  <2> QED BY <1>2, <1>3, <2>1, <2>2 DEF Precedes
<1> QED BY <1>2, <1>3

(***************************************************************************)
(* The promise.  A release that stable names has all that the candidate of *)
(* the channel was assessed with; what is selected stays installed, and    *)
(* what is about to be selected was assessed for the profile as it is.     *)
(***************************************************************************)
StableMinors == {Stables[k] : k \in DOMAIN Stables}
Named(c, minor) == IF c = "sing-box" THEN minor \in StableMinors ELSE minor = 1
Builds == {"none", "plain", "musl", "v3", "v2", "compatible", "arm64"}
Applications ==
    [step : {"off", "install", "record", "select"}, core : CoreNames, reference : Nat,
     minor : Nat, asset : Builds, automatic : BOOLEAN, fresh : BOOLEAN]
ChooseTyped ==
    /\ host \in Hosts /\ want \in Wants
    /\ latest \in StableMinors /\ seenRelease \in StableMinors \cup {0}
    /\ coresThere \subseteq CoreNames \X (Nat \ {0})
    /\ channel \in [CoreNames -> Nat]
    /\ \A c \in CoreNames : channel[c] # 0 => Named(c, channel[c])
    /\ selection = <<>> \/ selection \in CoreNames \X Nat
    /\ applying \in Applications
SelectedThere == selection # <<>> => Usable(selection[1], selection[2])
SuitedMeets ==
    suited => /\ selection # <<>>
              /\ Meets(selection[1], selection[2], host, Requires(want))
FreshMeets == applying.fresh => Meets(applying.core, applying.reference, host, Requires(want))
ReleaseKnown ==
    applying.step = "record" =>
        /\ applying.minor # 0
        /\ applying.reference = Stable => Named(applying.core, applying.minor)
ChooseInv == ChooseTyped /\ SelectedThere /\ SuitedMeets /\ FreshMeets /\ ReleaseKnown

LEMMA StablesAre ==
  /\ StableMinors \subseteq Nat /\ \A m \in StableMinors : m >= 12
  /\ Stables[1] \in StableMinors /\ 0 \notin StableMinors
  BY ChoiceAssumption DEF StableMinors

LEMMA StableOnlyGains ==
  ASSUME NEW c \in CoreNames, NEW m, Named(c, m), NEW h, NEW r, Meets(c, Stable, h, r)
  PROVE  Meets(c, m, h, r)
<1>1. CASE c = "sing-box"
  <2>1. m \in Nat /\ m >= 12
    BY <1>1, StablesAre DEF Named
  <2>2. CompilerVersion(m) \in {12, 13, 14} /\ CompilerVersion(Stable) = 13
    BY <2>1 DEF CompilerVersion, Stable
  <2>3. SingBoxFeatures(Stable, h) \subseteq SingBoxFeatures(m, h)
    BY <2>2 DEF SingBoxFeatures
  <2> QED BY <1>1, <2>3 DEF Meets, Features
<1>2. CASE c # "sing-box"
  BY <1>2 DEF Meets, Features
<1> QED BY <1>1, <1>2

LEMMA PromiseIsKept == ChooseInv => PromiseKept
<1> SUFFICES ASSUME ChooseInv PROVE PromiseKept
  OBVIOUS
<1>1. ASSUME suited
      PROVE  Meets(selection[1], MinorOf(selection[1], selection[2]), host, Requires(want))
  <2>1. /\ selection # <<>> /\ Meets(selection[1], selection[2], host, Requires(want))
        /\ <<selection[1], MinorOf(selection[1], selection[2])>> \in coresThere
        /\ selection \in CoreNames \X Nat
    BY <1>1 DEF ChooseInv, SuitedMeets, SelectedThere, Usable, ChooseTyped
  <2>2. CASE selection[2] # Stable
    BY <2>1, <2>2 DEF MinorOf
  <2>3. CASE selection[2] = Stable
    <3>1. MinorOf(selection[1], selection[2]) = channel[selection[1]] /\ selection[1] \in CoreNames
      BY <2>1, <2>3 DEF MinorOf
    <3>2. channel[selection[1]] # 0
      BY <2>1, <3>1 DEF ChooseInv, ChooseTyped
    <3>3. Named(selection[1], channel[selection[1]])
      BY <3>1, <3>2 DEF ChooseInv, ChooseTyped
    <3> QED BY <2>1, <2>3, <3>1, <3>3, StableOnlyGains
  <2> QED BY <2>2, <2>3
<1> QED BY <1>1 DEF PromiseKept, ChooseInv, SelectedThere

LEMMA NoApplyIs ==
  /\ NoApply \in Applications /\ NoApply.fresh = FALSE /\ NoApply.step = "off"
  BY DEF NoApply, Applications, Stable, CoreNames, Builds

LEMMA PackageIs == ASSUME NEW c, NEW h PROVE Package(c, h) \in Builds
<1> DEFINE names == AssetNames(c, h)
           present == {i \in DOMAIN names : names[i] \in AssetsOf(c)}
<1>1. /\ DOMAIN names \in {{1}, {1, 2}, {1, 2, 3}}
      /\ \A i \in DOMAIN names : names[i] \in Builds
  BY DEF AssetNames, Builds
<1>2. CASE present # {}
  <2>1. \E i \in present : \A j \in present : i <= j
    <3>1. present \subseteq 1..3
      BY <1>1
    <3> HIDE DEF present, names
    <3>2. CASE 1 \in present
      BY <3>1, <3>2
    <3>3. CASE 1 \notin present /\ 2 \in present
      BY <3>1, <3>3
    <3>4. CASE 1 \notin present /\ 2 \notin present
      <4>1. \A k \in present : k = 3
        BY <3>1, <3>4
      <4>2. PICK k \in present : TRUE
        BY <1>2
      <4> QED BY <4>1, <4>2
    <3> QED BY <3>2, <3>3, <3>4
  <2>2. Package(c, h) = names[CHOOSE i \in present : \A j \in present : i <= j]
    BY <1>2 DEF Package
  <2>3. (CHOOSE i \in present : \A j \in present : i <= j) \in DOMAIN names
    <3>1. present \subseteq DOMAIN names
      OBVIOUS
    <3> HIDE DEF present, names
    <3> QED BY <2>1, <3>1
  <2> QED BY <1>1, <2>2, <2>3
<1>3. CASE present = {}
  BY <1>3 DEF Package, Builds
<1> QED BY <1>2, <1>3

(* An application begins, goes on or ends, and nothing else changes.         *)
LEMMA AppliesOn ==
  ASSUME ChooseInv, applying' \in Applications,
         UNCHANGED <<host, want, latest, coresThere, channel, selection, suited>>,
         seenRelease' \in StableMinors \cup {0}, FreshMeets', ReleaseKnown'
  PROVE  ChooseInv'
<1>1. ChooseTyped'
  BY DEF ChooseInv, ChooseTyped
<1>2. SelectedThere' /\ SuitedMeets'
  BY DEF ChooseInv, SelectedThere, SuitedMeets, Usable, MinorOf
<1> QED BY <1>1, <1>2 DEF ChooseInv

LEMMA DiagnoseKeeps == ASSUME ChooseInv, Diagnose PROVE ChooseInv'
<1>1. PICK p \in CandidateProfiles(host) :
        /\ Eligible(p, host, Requires(want))
        /\ applying' = [NoApply EXCEPT !.step = "install", !.core = p.core,
                          !.reference = p.reference, !.automatic = TRUE, !.fresh = TRUE]
  BY DEF Diagnose
<1>2. p.core \in CoreNames /\ p.reference \in Nat
  BY ProfilesAre
<1>3. Meets(p.core, p.reference, host, Requires(want))
  BY <1>1 DEF Eligible
<1>5. /\ applying' \in Applications /\ applying'.step = "install"
      /\ applying'.core = p.core /\ applying'.reference = p.reference
  BY <1>1, <1>2 DEF NoApply, Applications, Builds
<1>4. /\ UNCHANGED <<host, want, latest, coresThere, channel, selection, suited>>
      /\ seenRelease' \in StableMinors \cup {0}
  BY DEF Diagnose, InChoice, ChooseInv, ChooseTyped
<1>6. FreshMeets' /\ ReleaseKnown'
  BY <1>3, <1>4, <1>5 DEF FreshMeets, ReleaseKnown
<1> QED BY <1>4, <1>5, <1>6, AppliesOn

LEMMA InstallingKeeps == ASSUME ChooseInv, InstallCore PROVE ChooseInv'
<1>1. PICK c \in {"sing-box", "mihomo"}, r \in {Stable, 12, 14} :
        applying' = [NoApply EXCEPT !.step = "install", !.core = c, !.reference = r]
  BY DEF InstallCore
<1>2. c \in CoreNames /\ r \in Nat
  BY <1>1 DEF CoreNames, Stable
<1>3. applying' \in Applications /\ applying'.step = "install" /\ applying'.fresh = FALSE
  BY <1>1, <1>2 DEF NoApply, Applications, Builds
<1>4. /\ UNCHANGED <<host, want, latest, coresThere, channel, selection, suited>>
      /\ seenRelease' \in StableMinors \cup {0}
  BY DEF InstallCore, InChoice, ChooseInv, ChooseTyped
<1> QED BY <1>3, <1>4, AppliesOn DEF FreshMeets, ReleaseKnown

LEMMA UpdateChannelKeeps == ASSUME ChooseInv, UpdateChannel PROVE ChooseInv'
<1>1. PICK c \in {"sing-box", "mihomo"} :
        applying' = [NoApply EXCEPT !.step = "install", !.core = c,
                       !.automatic = SelectionMatches(c, Stable)]
  BY DEF UpdateChannel
<1> DEFINE a == SelectionMatches(c, Stable)
<1>2. c \in CoreNames /\ Stable \in Nat /\ a \in BOOLEAN
  BY <1>1 DEF CoreNames, Stable, SelectionMatches
<1> HIDE DEF a
<1>5. applying' = [NoApply EXCEPT !.step = "install", !.core = c, !.automatic = a]
  BY <1>1 DEF a
<1>3. applying' \in Applications /\ applying'.step = "install" /\ applying'.fresh = FALSE
  BY <1>2, <1>5 DEF NoApply, Applications, Builds
<1>4. /\ UNCHANGED <<host, want, latest, coresThere, channel, selection, suited>>
      /\ seenRelease' \in StableMinors \cup {0}
  BY DEF UpdateChannel, InChoice, ChooseInv, ChooseTyped
<1> QED BY <1>3, <1>4, AppliesOn DEF FreshMeets, ReleaseKnown

LEMMA ReleaseIs ==
  ASSUME ChooseInv, NEW c \in CoreNames, NEW r \in Nat, NEW routed \in BOOLEAN
  PROVE  /\ ReleaseOf(c, r, routed) \in Nat \ {0}
         /\ r = Stable => Named(c, ReleaseOf(c, r, routed))
         /\ c = "sing-box" /\ r = Stable => ReleaseOf(c, r, routed) \in StableMinors
<1>1. /\ latest \in StableMinors /\ seenRelease \in StableMinors \cup {0}
      /\ StableMinors \subseteq Nat \ {0}
  BY StablesAre DEF ChooseInv, ChooseTyped
<1>2. CASE c = "mihomo"
  BY <1>2 DEF ReleaseOf, Named
<1>3. CASE c = "sing-box" /\ r # Stable
  BY <1>3 DEF ReleaseOf, Stable
<1>4. CASE c = "sing-box" /\ r = Stable
  <2>1. ReleaseOf(c, r, routed) \in {latest, seenRelease} \ {0}
    BY <1>1, <1>4 DEF ReleaseOf
  <2> QED BY <1>1, <1>4, <2>1 DEF Named
<1> QED BY <1>2, <1>3, <1>4 DEF CoreNames

LEMMA UpdateRouterKeeps == ASSUME ChooseInv, UpdateRouter PROVE ChooseInv'
<1>1. PICK routed \in BOOLEAN :
        LET minor == ReleaseOf("sing-box", Stable, routed) IN
        /\ applying' = [NoApply EXCEPT !.step = "install", !.core = "sing-box",
                          !.reference = minor,
                          !.automatic = selection # <<>> /\ Head(selection) = "sing-box"]
        /\ seenRelease' = IF routed THEN seenRelease ELSE minor
  BY DEF UpdateRouter
<1> DEFINE minor == ReleaseOf("sing-box", Stable, routed)
           a == selection # <<>> /\ Head(selection) = "sing-box"
<1>2. minor \in StableMinors /\ minor \in Nat
  BY ReleaseIs, StablesAre DEF CoreNames, Stable
<1>3. a \in BOOLEAN /\ "sing-box" \in CoreNames
  BY DEF CoreNames
<1>4. /\ applying' = [NoApply EXCEPT !.step = "install", !.core = "sing-box", !.reference = minor,
                     !.automatic = a]
      /\ seenRelease' = IF routed THEN seenRelease ELSE minor
  BY <1>1
<1> HIDE DEF minor, a
<1>5. applying' \in Applications /\ applying'.step = "install" /\ applying'.fresh = FALSE
  BY <1>2, <1>3, <1>4 DEF NoApply, Applications, Builds
<1>6. /\ UNCHANGED <<host, want, latest, coresThere, channel, selection, suited>>
      /\ seenRelease' \in StableMinors \cup {0}
  BY <1>2, <1>4 DEF UpdateRouter, InChoice, ChooseInv, ChooseTyped
<1> QED BY <1>5, <1>6, AppliesOn DEF FreshMeets, ReleaseKnown

LEMMA ResolveKeeps == ASSUME ChooseInv, ResolveRelease PROVE ChooseInv'
<1>1. PICK routed \in BOOLEAN :
        LET minor == ReleaseOf(applying.core, applying.reference, routed)
            found == Package(applying.core, host) IN
        /\ applying' = IF found = "none" THEN NoApply
                       ELSE [applying EXCEPT !.step = "record", !.minor = minor,
                               !.asset = found]
        /\ seenRelease' = IF applying.core = "sing-box" /\ applying.reference = Stable /\ ~routed
                          THEN minor ELSE seenRelease
  BY DEF ResolveRelease
<1> DEFINE minor == ReleaseOf(applying.core, applying.reference, routed)
           found == Package(applying.core, host)
<1>2. applying \in Applications /\ applying.core \in CoreNames /\ applying.reference \in Nat
  BY DEF ChooseInv, ChooseTyped, Applications
<1>3. /\ minor \in Nat \ {0}
      /\ applying.reference = Stable => Named(applying.core, minor)
  BY <1>2, ReleaseIs
<1>4. applying.core = "sing-box" /\ applying.reference = Stable => minor \in StableMinors
  BY <1>2, ReleaseIs
<1>5. found \in Builds
  BY PackageIs
<1>6. /\ applying' = IF found = "none" THEN NoApply
                     ELSE [applying EXCEPT !.step = "record", !.minor = minor, !.asset = found]
      /\ seenRelease' = IF applying.core = "sing-box" /\ applying.reference = Stable /\ ~routed
                        THEN minor ELSE seenRelease
  BY <1>1
<1> HIDE DEF minor, found
<1>7. UNCHANGED <<host, want, latest, coresThere, channel, selection, suited>>
  BY DEF ResolveRelease, InChoice
<1>8. seenRelease' \in StableMinors \cup {0}
  BY <1>4, <1>6 DEF ChooseInv, ChooseTyped
<1>9. CASE found = "none"
  <2>1. applying' = NoApply
    BY <1>6, <1>9
  <2> QED BY <1>7, <1>8, <2>1, NoApplyIs, AppliesOn DEF FreshMeets, ReleaseKnown
<1>10. CASE found # "none"
  <2>1. /\ applying' \in Applications /\ applying'.core = applying.core
        /\ applying'.reference = applying.reference /\ applying'.fresh = applying.fresh
        /\ applying'.minor = minor
    BY <1>2, <1>3, <1>5, <1>6, <1>10 DEF Applications
  <2>2. FreshMeets'
    BY <1>7, <2>1 DEF ChooseInv, FreshMeets
  <2>3. ReleaseKnown'
    BY <1>3, <2>1 DEF ReleaseKnown
  <2> QED BY <1>7, <1>8, <2>1, <2>2, <2>3, AppliesOn
<1> QED BY <1>9, <1>10

LEMMA FailureKeeps == ASSUME ChooseInv, ApplyFails PROVE ChooseInv'
<1>1. /\ applying' = NoApply /\ UNCHANGED <<host, want, latest, coresThere, channel, selection, suited>>
      /\ seenRelease' \in StableMinors \cup {0}
  BY DEF ApplyFails, InChoice, ChooseInv, ChooseTyped
<1> QED BY <1>1, NoApplyIs, AppliesOn DEF FreshMeets, ReleaseKnown

(* What is recorded becomes what the channel names; what it leaves goes only *)
(* where nothing has selected it.                                            *)
LEMMA RecordKeeps == ASSUME ChooseInv, Record PROVE ChooseInv'
<1> DEFINE c == applying.core
           r == applying.reference
           m == applying.minor
<1>1. /\ applying \in Applications /\ applying.step = "record" /\ c \in CoreNames /\ r \in Nat
      /\ m \in Nat \ {0}
  BY DEF Record, Locked, ChooseInv, ChooseTyped, Applications, ReleaseKnown
<1>2. r = Stable => Named(c, m)
  BY <1>1 DEF ChooseInv, ReleaseKnown
<1>3. UNCHANGED <<host, want, latest, seenRelease, selection, suited>>
  BY DEF Record, InChoice
<1>4. /\ latest' \in StableMinors /\ seenRelease' \in StableMinors \cup {0}
      /\ host' \in Hosts /\ want' \in Wants
      /\ selection' = <<>> \/ selection' \in CoreNames \X Nat
  BY <1>3 DEF ChooseInv, ChooseTyped
<1>5. CASE RunsOn(c, m, applying.asset, host)
  <2>1. PICK left \in SUBSET Abandoned :
          /\ coresThere' = (coresThere \ left) \cup {<<c, m>>}
          /\ channel' = IF r = Stable THEN [channel EXCEPT ![c] = m] ELSE channel
          /\ applying' = IF applying.automatic THEN [applying EXCEPT !.step = "select"] ELSE NoApply
    BY <1>5 DEF Record
  <2> HIDE DEF c, r, m
  <2>2. coresThere' \subseteq CoreNames \X (Nat \ {0})
    BY <1>1, <2>1 DEF ChooseInv, ChooseTyped
  <2>3. /\ channel' \in [CoreNames -> Nat]
        /\ \A k \in CoreNames : channel'[k] = IF r = Stable /\ k = c THEN m ELSE channel[k]
    BY <1>1, <2>1 DEF ChooseInv, ChooseTyped
  <2>4. \A k \in CoreNames : channel'[k] # 0 => Named(k, channel'[k])
    BY <1>2, <2>3 DEF ChooseInv, ChooseTyped
  <2>5. applying' \in Applications /\ applying'.step \in {"select", "off"}
    BY <1>1, <2>1, NoApplyIs DEF Applications
  <2>6. FreshMeets'
    <3>1. CASE applying.automatic
      <4>1. applying' = [applying EXCEPT !.step = "select"]
        BY <2>1, <3>1
      <4>2. /\ applying'.core = applying.core /\ applying'.reference = applying.reference
            /\ applying'.fresh = applying.fresh
        BY <1>1, <4>1 DEF Applications
      <4> QED BY <1>3, <4>2 DEF ChooseInv, FreshMeets
    <3>2. CASE ~applying.automatic
      BY <2>1, <3>2, NoApplyIs DEF FreshMeets
    <3> QED BY <3>1, <3>2
  <2>7. ChooseTyped'
    BY <1>4, <2>2, <2>3, <2>4, <2>5 DEF ChooseTyped
  <2>8. SelectedThere'
    <3> SUFFICES ASSUME selection # <<>> PROVE Usable(selection[1], selection[2])'
      BY <1>3 DEF SelectedThere
    <3> DEFINE k == selection[1]
               s == selection[2]
    <3>1. /\ selection \in CoreNames \X Nat /\ selection = <<k, s>> /\ k \in CoreNames
          /\ <<k, MinorOf(k, s)>> \in coresThere
      BY DEF ChooseInv, ChooseTyped, SelectedThere, Usable
    <3> HIDE DEF k, s
    <3>2. CASE s = Stable /\ r = Stable /\ k = c
      <4>1. MinorOf(k, s)' = m
        BY <1>3, <2>3, <3>1, <3>2 DEF MinorOf, k, s
      <4>2. <<k, m>> \in coresThere'
        BY <2>1, <3>2
      <4> QED BY <1>3, <4>1, <4>2 DEF Usable, k, s
    <3>3. CASE ~(s = Stable /\ r = Stable /\ k = c)
      <4>1. MinorOf(k, s)' = MinorOf(k, s)
        BY <1>3, <2>3, <3>1, <3>3 DEF MinorOf, k, s
      <4>2. <<k, MinorOf(k, s)>> \notin Abandoned
        <5>1. CASE r # Stable
          BY <5>1 DEF Abandoned, r
        <5>2. CASE r = Stable /\ selection = <<c, channel[c]>>
          BY <5>2 DEF Abandoned, r, c
        <5>3. CASE r = Stable /\ selection # <<c, channel[c]>>
          <6>1. Abandoned \subseteq {<<c, channel[c]>>}
            BY DEF Abandoned, c
          <6>2. <<k, MinorOf(k, s)>> # <<c, channel[c]>>
            <7>1. CASE k # c
              BY <7>1
            <7>2. CASE k = c
              <8>1. s # Stable /\ MinorOf(k, s) = s
                BY <3>3, <5>3, <7>2 DEF MinorOf
              <8>2. s # channel[c]
                BY <3>1, <5>3, <7>2
              <8> QED BY <8>1, <8>2
            <7> QED BY <7>1, <7>2
          <6> QED BY <6>1, <6>2
        <5> QED BY <5>1, <5>2, <5>3
      <4>3. <<k, MinorOf(k, s)>> \in coresThere'
        BY <2>1, <3>1, <4>2
      <4> QED BY <1>3, <4>1, <4>3 DEF Usable, k, s
    <3> QED BY <3>2, <3>3
  <2>9. SuitedMeets' /\ ReleaseKnown'
    BY <1>3, <2>5 DEF ChooseInv, SuitedMeets, ReleaseKnown
  <2> QED BY <2>6, <2>7, <2>8, <2>9 DEF ChooseInv
<1>6. CASE ~RunsOn(c, m, applying.asset, host)
  <2>1. applying' = NoApply /\ UNCHANGED <<coresThere, channel>>
    BY <1>6 DEF Record
  <2>2. FreshMeets' /\ ReleaseKnown'
    BY <2>1, NoApplyIs DEF FreshMeets, ReleaseKnown
  <2> QED BY <1>3, <1>4, <2>1, <2>2, NoApplyIs, AppliesOn
<1> QED BY <1>5, <1>6

LEMMA SelectChosenKeeps == ASSUME ChooseInv, SelectChosen PROVE ChooseInv'
<1>1. /\ applying' = NoApply
      /\ UNCHANGED <<host, want, latest, seenRelease, coresThere, channel>>
      /\ applying \in Applications
  BY DEF SelectChosen, InChoice, ChooseInv, ChooseTyped
<1>2. FreshMeets' /\ ReleaseKnown'
  BY <1>1, NoApplyIs DEF FreshMeets, ReleaseKnown
<1>3. CASE Usable(applying.core, applying.reference)
  <2>1. selection' = <<applying.core, applying.reference>> /\ suited' = applying.fresh
    BY <1>3 DEF SelectChosen
  <2>2. /\ selection' # <<>> /\ selection' \in CoreNames \X Nat
        /\ selection'[1] = applying.core /\ selection'[2] = applying.reference
    BY <1>1, <2>1 DEF Applications
  <2>3. ChooseTyped'
    BY <1>1, <2>2, NoApplyIs DEF ChooseInv, ChooseTyped
  <2>4. SelectedThere'
    BY <1>1, <1>3, <2>2 DEF SelectedThere, Usable, MinorOf
  <2>5. SuitedMeets'
    BY <1>1, <2>1, <2>2 DEF ChooseInv, FreshMeets, SuitedMeets
  <2> QED BY <1>2, <2>3, <2>4, <2>5 DEF ChooseInv
<1>4. CASE ~Usable(applying.core, applying.reference)
  <2>1. UNCHANGED <<selection, suited>>
    BY <1>4 DEF SelectChosen
  <2>2. seenRelease' \in StableMinors \cup {0}
    BY <1>1 DEF ChooseInv, ChooseTyped
  <2> QED BY <1>1, <1>2, <2>1, <2>2, NoApplyIs, AppliesOn
<1> QED BY <1>3, <1>4

LEMMA SelectAnotherKeeps == ASSUME ChooseInv, SelectAnother PROVE ChooseInv'
<1>7. PICK installed \in coresThere :
        \E r \in {Stable, installed[2]} :
          Usable(installed[1], r) /\ selection' = <<installed[1], r>>
  BY DEF SelectAnother
<1>1. PICK r \in {Stable, installed[2]} :
        Usable(installed[1], r) /\ selection' = <<installed[1], r>>
  BY <1>7
<1>2. /\ suited' = FALSE
      /\ UNCHANGED <<host, want, latest, seenRelease, coresThere, channel, applying>>
  BY DEF SelectAnother, InChoice
<1>3. /\ selection' # <<>> /\ selection' \in CoreNames \X Nat
      /\ selection'[1] = installed[1] /\ selection'[2] = r
  <2>1. installed \in CoreNames \X (Nat \ {0})
    BY DEF ChooseInv, ChooseTyped
  <2>2. installed[1] \in CoreNames /\ installed[2] \in Nat /\ Stable \in Nat
    BY <2>1 DEF Stable
  <2> QED BY <1>1, <2>2
<1>4. ChooseTyped'
  BY <1>2, <1>3 DEF ChooseInv, ChooseTyped
<1>5. SelectedThere'
  BY <1>1, <1>2, <1>3 DEF SelectedThere, Usable, MinorOf
<1>6. SuitedMeets' /\ FreshMeets' /\ ReleaseKnown'
  BY <1>2 DEF ChooseInv, SuitedMeets, FreshMeets, ReleaseKnown
<1> QED BY <1>4, <1>5, <1>6 DEF ChooseInv

(* A core that is selected is not removed.                                   *)
LEMMA RemoveCoreKeeps == ASSUME ChooseInv, RemoveCore PROVE ChooseInv'
<1>1. PICK installed \in coresThere :
        /\ selection # <<>> => installed # <<selection[1], MinorOf(selection[1], selection[2])>>
        /\ coresThere' = coresThere \ {installed}
        /\ channel' = IF channel[installed[1]] = installed[2]
                      THEN [channel EXCEPT ![installed[1]] = 0] ELSE channel
  BY DEF RemoveCore
<1>2. UNCHANGED <<host, want, latest, seenRelease, selection, applying, suited>>
  BY DEF RemoveCore, InChoice
<1>3. /\ installed \in CoreNames \X (Nat \ {0}) /\ installed = <<installed[1], installed[2]>>
      /\ installed[1] \in CoreNames
  BY DEF ChooseInv, ChooseTyped
<1>4. /\ channel' \in [CoreNames -> Nat]
      /\ \A k \in CoreNames :
           channel'[k] = IF k = installed[1] /\ channel[k] = installed[2] THEN 0 ELSE channel[k]
  BY <1>1, <1>3 DEF ChooseInv, ChooseTyped
<1>5. ChooseTyped'
  BY <1>1, <1>2, <1>4 DEF ChooseInv, ChooseTyped
<1>6. SelectedThere'
  <2> SUFFICES ASSUME selection # <<>> PROVE Usable(selection[1], selection[2])'
    BY <1>2 DEF SelectedThere
  <2> DEFINE k == selection[1]
             s == selection[2]
  <2>1. k \in CoreNames /\ <<k, MinorOf(k, s)>> \in coresThere /\ installed # <<k, MinorOf(k, s)>>
    BY <1>1 DEF ChooseInv, ChooseTyped, SelectedThere, Usable
  <2> HIDE DEF k, s
  <2>2. MinorOf(k, s)' = MinorOf(k, s)
    <3>1. CASE s # Stable
      BY <1>2, <3>1 DEF MinorOf, k, s
    <3>2. CASE s = Stable
      <4>1. MinorOf(k, s) = channel[k] /\ MinorOf(k, s)' = channel'[k]
        BY <1>2, <3>2 DEF MinorOf, k, s
      <4>2. installed # <<k, channel[k]>>
        BY <2>1, <4>1
      <4>3. ~(k = installed[1] /\ channel[k] = installed[2])
        BY <1>3, <4>2
      <4> QED BY <1>4, <2>1, <4>1, <4>3
    <3> QED BY <3>1, <3>2
  <2>3. <<k, MinorOf(k, s)>> \in coresThere'
    BY <1>1, <2>1
  <2> QED BY <1>2, <2>2, <2>3 DEF Usable, k, s
<1>7. SuitedMeets' /\ FreshMeets' /\ ReleaseKnown'
  BY <1>2 DEF ChooseInv, SuitedMeets, FreshMeets, ReleaseKnown
<1> QED BY <1>5, <1>6, <1>7 DEF ChooseInv

LEMMA EditKeeps == ASSUME ChooseInv, EditProfile PROVE ChooseInv'
<1>1. /\ want' \in Wants /\ suited' = FALSE /\ applying' = [applying EXCEPT !.fresh = FALSE]
      /\ UNCHANGED <<host, latest, seenRelease, coresThere, channel, selection>>
  BY DEF EditProfile, InChoice
<1>2. /\ applying' \in Applications /\ applying'.fresh = FALSE /\ applying'.step = applying.step
      /\ applying'.core = applying.core /\ applying'.reference = applying.reference
      /\ applying'.minor = applying.minor
  BY <1>1 DEF ChooseInv, ChooseTyped, Applications
<1>3. ChooseTyped'
  BY <1>1, <1>2 DEF ChooseInv, ChooseTyped
<1>4. SelectedThere' /\ SuitedMeets'
  BY <1>1 DEF ChooseInv, SelectedThere, SuitedMeets, Usable, MinorOf
<1>5. FreshMeets' /\ ReleaseKnown'
  BY <1>2 DEF ChooseInv, FreshMeets, ReleaseKnown
<1> QED BY <1>3, <1>4, <1>5 DEF ChooseInv

LEMMA PublishKeeps == ASSUME ChooseInv, Publish PROVE ChooseInv'
<1>1. /\ latest # Stables[Len(Stables)]
      /\ latest' = Stables[CHOOSE i \in 2..Len(Stables) : Stables[i - 1] = latest]
      /\ UNCHANGED <<host, want, seenRelease, coresThere, channel, selection, applying, suited>>
  BY DEF Publish, InChoice
<1>2. latest' \in StableMinors
  <2>1. Len(Stables) \in Nat /\ DOMAIN Stables = 1..Len(Stables)
    BY ChoiceAssumption
  <2>2. PICK k \in 1..Len(Stables) : latest = Stables[k]
    BY <2>1 DEF ChooseInv, ChooseTyped, StableMinors
  <2>3. k # Len(Stables)
    BY <1>1, <2>2
  <2>4. k + 1 \in 2..Len(Stables) /\ Stables[(k + 1) - 1] = latest
    <3>1. (k + 1) - 1 = k /\ k + 1 \in 2..Len(Stables)
      <4> DEFINE last == Len(Stables)
      <4>1. last \in Nat /\ k \in 1..last /\ k # last
        BY <2>1, <2>3
      <4> HIDE DEF last
      <4>2. (k + 1) - 1 = k /\ k + 1 \in 2..last
        BY <4>1
      <4> QED BY <4>2 DEF last
    <3> QED BY <2>2, <3>1
  <2>5. (CHOOSE i \in 2..Len(Stables) : Stables[i - 1] = latest) \in 2..Len(Stables)
    BY <2>4
  <2>6. 2..Len(Stables) \subseteq DOMAIN Stables
    BY <2>1
  <2> QED BY <1>1, <2>5, <2>6 DEF StableMinors
<1>3. ChooseTyped'
  BY <1>1, <1>2 DEF ChooseInv, ChooseTyped
<1>4. SelectedThere' /\ SuitedMeets' /\ FreshMeets' /\ ReleaseKnown'
  BY <1>1 DEF ChooseInv, SelectedThere, SuitedMeets, Usable, MinorOf, FreshMeets, ReleaseKnown
<1> QED BY <1>3, <1>4 DEF ChooseInv

(***************************************************************************)
(* A start: what is written is for the control that is present.               *)
(***************************************************************************)
StartInv ==
    /\ compiled \in Documents /\ "whole" \in DOMAIN runtimeFile
    /\ control # NoControl /\ runtimeFile.whole => runtimeFile = RuntimeOf(compiled, control)
    /\ coreRuns # NoFile =>
         /\ control # NoControl /\ runtimeFile.whole /\ coreRuns = runtimeFile
         /\ coreRuns.port # otherPort

LEMMA StartKept ==
  ASSUME StartInv,
         \/ Reserve \/ WriteRuntime \/ Launch \/ ChosenEnds \/ EndStart \/ OtherBinds \/ CompileAnew
  PROVE  StartInv'
<1> USE DEF StartInv
<1>1. CASE Reserve
  <2>1. /\ control = NoControl /\ runtimeFile' = [runtimeFile EXCEPT !.whole = FALSE]
        /\ UNCHANGED <<compiled, coreRuns, otherPort>>
    BY <1>1 DEF Reserve
  <2>2. DOMAIN runtimeFile' = DOMAIN runtimeFile /\ runtimeFile'.whole = FALSE
    BY <2>1
  <2>3. coreRuns = NoFile
    BY <2>1
  <2> QED BY <2>1, <2>2, <2>3
<1>2. CASE WriteRuntime
  <2>1. /\ ~runtimeFile.whole /\ runtimeFile' = RuntimeOf(compiled, control)
        /\ UNCHANGED <<compiled, control, coreRuns, otherPort>>
    BY <1>2 DEF WriteRuntime
  <2>2. "whole" \in DOMAIN RuntimeOf(compiled, control)
    BY DEF RuntimeOf
  <2> QED BY <2>1, <2>2
<1>3. CASE Launch
  BY <1>3 DEF Launch
<1>4. CASE ChosenEnds
  BY <1>4 DEF ChosenEnds
<1>5. CASE EndStart
  BY <1>5 DEF EndStart
<1>6. CASE OtherBinds
  BY <1>6 DEF OtherBinds
<1>7. CASE CompileAnew
  BY <1>7 DEF CompileAnew
<1> QED BY <1>1, <1>2, <1>3, <1>4, <1>5, <1>6, <1>7

LEMMA OneApi ==
  ASSUME NEW tags \in Seq(STRING)
  PROVE  Cardinality({i \in DOMAIN WithApi(tags) : WithApi(tags)[i] = "api"}) = 1
<1> DEFINE next == Len(tags) + 1
           others == {j \in DOMAIN tags : tags[j] # "api"}
<1>1. next \notin DOMAIN tags
  BY DEF next
<1>2. WithApi(tags) = [i \in others \cup {next} |-> IF i = next THEN "api" ELSE tags[i]]
  BY DEF WithApi
<1>3. {i \in DOMAIN WithApi(tags) : WithApi(tags)[i] = "api"} = {next}
  BY <1>1, <1>2
<1> QED BY <1>3, FS_Singleton

LEMMA ControlIsHeld == StartInv => ControlIsOurs
<1> SUFFICES ASSUME StartInv, coreRuns # NoFile
    PROVE  /\ control.port = coreRuns.port /\ control.secret = coreRuns.secret
           /\ coreRuns.port # otherPort
           /\ compiled.kind = "xray" =>
                /\ Head(coreRuns.rules) = "api"
                /\ Cardinality({i \in DOMAIN coreRuns.inbounds : coreRuns.inbounds[i] = "api"}) = 1
           /\ coreRuns.open # {} => KeepsController(compiled)
  BY DEF ControlIsOurs
<1>1. coreRuns = RuntimeOf(compiled, control) /\ coreRuns.port # otherPort /\ compiled \in Documents
  BY DEF StartInv
<1>2. /\ coreRuns.port = control.port /\ coreRuns.secret = control.secret
      /\ coreRuns.inbounds = IF compiled.kind # "xray" THEN compiled.inbounds
                              ELSE WithApi(compiled.inbounds)
      /\ coreRuns.rules = IF compiled.kind # "xray" THEN compiled.rules
                           ELSE <<"api">> \o compiled.rules
      /\ coreRuns.open = IF KeepsController(compiled) THEN compiled.open ELSE {}
  BY <1>1 DEF RuntimeOf
<1>3. ASSUME compiled.kind = "xray"
      PROVE  /\ Head(coreRuns.rules) = "api"
             /\ Cardinality({i \in DOMAIN coreRuns.inbounds : coreRuns.inbounds[i] = "api"}) = 1
  <2>1. compiled.rules \in Seq(STRING) /\ compiled.inbounds \in Seq(STRING)
    BY <1>1, ChoiceAssumption
  <2>2. Head(<<"api">> \o compiled.rules) = "api"
    BY <2>1
  <2> QED BY <1>2, <1>3, <2>1, <2>2, OneApi
<1> QED BY <1>1, <1>2, <1>3

(***************************************************************************)
(* Both together.                                                          *)
(***************************************************************************)
ChoiceInv == ChooseInv /\ StartInv

LEMMA ChoiceBegins == ChoiceInit => ChoiceInv
<1> SUFFICES ASSUME ChoiceInit PROVE ChoiceInv
  OBVIOUS
<1>1. host \in Hosts /\ want \in Wants /\ compiled \in Documents
  BY ChoiceAssumption DEF ChoiceInit
<1>2. latest \in StableMinors
  <2>1. Head(Stables) = Stables[1]
    BY ChoiceAssumption
  <2> QED BY <2>1, StablesAre DEF ChoiceInit
<1>3. channel = NothingInstalled /\ NothingInstalled \in [CoreNames -> Nat]
      /\ \A c \in CoreNames : NothingInstalled[c] = 0
  BY DEF ChoiceInit, NothingInstalled, CoreNames
<1>4. ChooseTyped
  BY <1>1, <1>2, <1>3, NoApplyIs DEF ChoiceInit, ChooseTyped
<1>5. SelectedThere /\ SuitedMeets /\ FreshMeets /\ ReleaseKnown
  BY NoApplyIs DEF ChoiceInit, SelectedThere, SuitedMeets, FreshMeets, ReleaseKnown
<1>6. StartInv
  BY <1>1 DEF ChoiceInit, StartInv, NoFile, NoControl
<1> QED BY <1>4, <1>5, <1>6 DEF ChoiceInv, ChooseInv

LEMMA ChooseAside == ASSUME ChooseInv, UNCHANGED chooseVars PROVE ChooseInv'
<1> USE DEF chooseVars
<1>1. ChooseTyped'
  BY DEF ChooseInv, ChooseTyped
<1>2. SelectedThere' /\ SuitedMeets' /\ FreshMeets' /\ ReleaseKnown'
  BY DEF ChooseInv, SelectedThere, SuitedMeets, Usable, MinorOf, FreshMeets, ReleaseKnown
<1> QED BY <1>1, <1>2 DEF ChooseInv
LEMMA StartAside == ASSUME StartInv, UNCHANGED startVars PROVE StartInv'
  BY DEF StartInv, startVars

LEMMA ChoiceKept == ASSUME ChoiceInv, [ChoiceNext]_choiceVars PROVE ChoiceInv'
<1> USE DEF ChoiceInv
<1>1. CASE \/ Diagnose \/ InstallCore \/ UpdateChannel \/ UpdateRouter \/ ResolveRelease \/ Record
           \/ ApplyFails \/ SelectChosen \/ SelectAnother \/ RemoveCore \/ EditProfile \/ Publish
  <2>1. UNCHANGED startVars
    BY <1>1 DEF Diagnose, InstallCore, UpdateChannel, UpdateRouter, ResolveRelease, Record,
                ApplyFails, SelectChosen, SelectAnother, RemoveCore, EditProfile, Publish, InChoice
  <2>2. ChooseInv'
    BY <1>1, DiagnoseKeeps, InstallingKeeps, UpdateChannelKeeps, UpdateRouterKeeps, ResolveKeeps,
       RecordKeeps, FailureKeeps, SelectChosenKeeps, SelectAnotherKeeps, RemoveCoreKeeps, EditKeeps,
       PublishKeeps
  <2> QED BY <2>1, <2>2, StartAside
<1>2. CASE \/ Reserve \/ WriteRuntime \/ Launch \/ ChosenEnds \/ EndStart \/ OtherBinds
           \/ CompileAnew
  <2>1. UNCHANGED chooseVars
    BY <1>2 DEF Reserve, WriteRuntime, Launch, ChosenEnds, EndStart, OtherBinds, CompileAnew, InStart
  <2> QED BY <1>2, <2>1, StartKept, ChooseAside
<1>3. CASE UNCHANGED choiceVars
  <2>1. UNCHANGED chooseVars /\ UNCHANGED startVars
    BY <1>3 DEF choiceVars
  <2> QED BY <2>1, ChooseAside, StartAside
<1> QED BY <1>1, <1>2, <1>3 DEF ChoiceNext

LEMMA ChoiceInvHolds == ChoiceInv => ChoiceSound
  BY BestIsRecommended, PromiseIsKept, ControlIsHeld DEF ChoiceInv, ChoiceSound

\* No core that a host can run scores higher than the one it is recommended; what automatic
\* configuration selected can do what was asked of it, whatever release stable has come to name,
\* and is installed; a core that runs has the control port and the secret that the client holds
\* for it, and nothing else open.
THEOREM ChoiceCorrect == ChoiceInit /\ [][ChoiceNext]_choiceVars => []ChoiceSound
<1>1. ChoiceInit /\ [][ChoiceNext]_choiceVars => []ChoiceInv
  BY ChoiceBegins, ChoiceKept, PTL
<1> QED BY <1>1, ChoiceInvHolds, PTL

(***************************************************************************)
(* Interception.  The tables lead to policy routes that are there, because *)
(* the policy is put up before them and taken down after them; a cleanup   *)
(* knows what it has removed unless one of its commands failed.            *)
(***************************************************************************)
Phases == {"off", "check", "clean", "policy", "load", "serving", "undo", "stop"}
Objects == [Family -> Plans \cup {NoObject, Theirs}]
Capturings == [phase : Phases, at : 0..4]
Troubles == [pass : BOOLEAN, left : BOOLEAN]
InterceptTyped ==
    /\ setup \in GatewaySetups
    /\ inForce \in Plans /\ inForce.marked = (inForce.mode = "tproxy")
    /\ capturing \in Capturings
    /\ tables \in Objects /\ rules \in Objects /\ routes \in Objects
    /\ trouble \in Troubles /\ killed \in BOOLEAN

OwnersStay ==
    \A f \in Family :
        /\ (tables[f] = Theirs) <=> (setup.foreign = "table")
        /\ (rules[f] = Theirs) <=> (setup.foreign = "rule")
        /\ (routes[f] = Theirs) <=> (setup.foreign = "route")

\* Nothing of another program's is there where something is put up, and what is put up is
\* there up to the place that has been reached.
PuttingUp ==
    /\ capturing.phase \in {"clean", "policy", "load", "undo"} => setup.foreign = "none"
    /\ capturing.phase = "policy" =>
         /\ capturing.at < 4 /\ inForce.mode = "tproxy"
         /\ \A f \in Family : ~Ours(tables[f])
         /\ capturing.at > 0 => Ours(routes["ip"])
         /\ capturing.at > 1 => Ours(rules["ip"])
         /\ capturing.at > 2 => Ours(routes["ip6"])
    /\ capturing.phase = "load" => \A f \in Family : Ours(routes[f]) /\ Ours(rules[f])
    /\ capturing.phase = "serving" /\ inForce.mode = "tproxy" =>
         \A f \in Family : Ours(routes[f]) /\ Ours(rules[f]) /\ tables[f] = inForce
    /\ capturing.phase = "off" => capturing = Off

\* A cleanup in which no command has failed has removed what it has passed.
TakingDown ==
    /\ ~Cleans \/ capturing.at = 0 => ~trouble.pass
    /\ Cleans /\ ~trouble.pass =>
         /\ capturing.at > 0 => \A f \in Family : ~Ours(tables[f])
         /\ capturing.at > 1 => ~Ours(rules["ip"])
         /\ capturing.at > 2 => ~Ours(routes["ip"])
         /\ capturing.at > 3 => ~Ours(rules["ip6"])
    /\ ~trouble.pass /\ ~trouble.left =>
         \A f \in Family : Ours(tables[f]) => Ours(rules[f]) /\ Ours(routes[f])
    /\ capturing = Off /\ ~killed /\ ~trouble.left =>
         \A f \in Family : ~Ours(tables[f]) /\ ~Ours(rules[f]) /\ ~Ours(routes[f])

InterceptInv == InterceptTyped /\ OwnersStay /\ PuttingUp /\ TakingDown

LEMMA PlansAreOurs == \A p \in Plans : Ours(p)
BY InterceptionAssumption DEF Ours

LEMMA NothingIsOurs == ~Ours(NoObject) /\ ~Ours(Theirs) /\ NoObject # Theirs
BY InterceptionAssumption DEF Ours

\* What a setup asks for is a plan.
LEMMA ExclusionsAreDestinations ==
    \A s \in GatewaySetups :
        TproxyExcluded(s) \subseteq Destination /\ Withheld(s) \subseteq Destination
<1> SUFFICES ASSUME NEW s \in GatewaySetups
             PROVE  TproxyExcluded(s) \subseteq Destination /\ Withheld(s) \subseteq Destination
  OBVIOUS
<1>1. UNION s.exclusions \subseteq Destination
  BY DEF GatewaySetups
<1>2. /\ UNION Resolved(s) \subseteq Destination /\ UNION VpnPrefixes(s) \subseteq Destination
      /\ UNION LocalPrefixes \subseteq Destination
  BY <1>1 DEF Resolved, VpnPrefixes, LocalPrefixes, Destination, Private
<1>3. \A prefixes, blocked : FilterOverlaps(prefixes, blocked) \subseteq prefixes
  BY DEF FilterOverlaps
<1>4. TproxyExcluded(s) \subseteq Destination
  <2> DEFINE base == Reserved \cup LocalPrefixes
  <2>1. UNION base \subseteq Destination BY <1>2 DEF Reserved, Destination, Private
  <2>2. UNION OutboundServers(s) \subseteq Destination BY DEF OutboundServers, Destination
  <2>3. UNION FilterOverlaps(base, {Private}) \subseteq Destination BY <2>1, <1>3
  <2> QED BY <2>1, <2>2, <2>3, <1>2 DEF TproxyExcluded
<1>5. TunExclusions(s) \subseteq Destination
  <2> DEFINE local == IF ~s.autoLocal THEN {}
                      ELSE IF s.intranet THEN FilterOverlaps(LocalPrefixes, {Private})
                      ELSE LocalPrefixes
             vpn == IF s.autoVpn THEN VpnPrefixes(s) ELSE {}
             all == s.exclusions \cup local \cup vpn
  <2>1. UNION local \subseteq Destination /\ UNION vpn \subseteq Destination BY <1>2, <1>3
  <2>2. UNION all \subseteq Destination BY <2>1, <1>1
  <2>3. FilterOverlaps(all, FakePrefixes(s)) \subseteq all BY <1>3
  <2> HIDE DEF all
  <2>4. UNION FilterOverlaps(all, FakePrefixes(s)) \subseteq Destination BY <2>2, <2>3
  <2>5. TunExclusions(s) =
          UNION (FilterOverlaps(all, FakePrefixes(s))
                   \cup IF s.intranet THEN Resolved(s) ELSE {})
    BY DEF TunExclusions, all
  <2> QED BY <2>4, <2>5, <1>2
<1> QED BY <1>4, <1>5 DEF Withheld

LEMMA PreparedIsPlan ==
    \A s \in GatewaySetups :
        Prepared(s) \in Plans /\ Prepared(s).marked = (Prepared(s).mode = "tproxy")
<1> SUFFICES ASSUME NEW s \in GatewaySetups
             PROVE  Prepared(s) \in Plans /\ Prepared(s).marked = (Prepared(s).mode = "tproxy")
  OBVIOUS
<1>1. s.host \in BOOLEAN BY DEF GatewaySetups
<1>2. Mode(s) \in {"disabled", "tun-router", "tproxy"} BY DEF Mode
<1>3. PICK e : e = CASE Mode(s) = "tproxy" -> TproxyExcluded(s)
                     [] Mode(s) = "tun-router" -> Withheld(s)
                     [] OTHER -> {}
  OBVIOUS
<1>4. e \in SUBSET Destination BY <1>2, <1>3, ExclusionsAreDestinations
<1>5. Prepared(s) = [mode |-> Mode(s), host |-> s.host, marked |-> Mode(s) = "tproxy",
                     excluded |-> e]
  BY <1>3 DEF Prepared
<1> QED BY <1>1, <1>2, <1>4, <1>5 DEF Plans

LEMMA InterceptStarts == InterceptInit => InterceptInv
<1> SUFFICES ASSUME InterceptInit PROVE InterceptInv
  OBVIOUS
<1>1. setup \in GatewaySetups BY InterceptionAssumption DEF InterceptInit
<1>2. capturing = Off /\ Off \in Capturings BY DEF InterceptInit, Off, Capturings, Phases
<1>3. trouble \in Troubles /\ ~trouble.pass BY DEF InterceptInit, Unharmed, Troubles
<1>4. /\ tables \in Objects /\ rules \in Objects /\ routes \in Objects
      /\ \A f \in Family : ~Ours(tables[f]) /\ ~Ours(rules[f]) /\ ~Ours(routes[f])
  BY NothingIsOurs DEF InterceptInit, Objects
<1>5. InterceptTyped BY <1>1, <1>2, <1>3, <1>4, PreparedIsPlan DEF InterceptInit, InterceptTyped
<1>6. OwnersStay BY NothingIsOurs DEF InterceptInit, OwnersStay
<1>7. PuttingUp BY <1>2 DEF PuttingUp, Off
<1>8. TakingDown BY <1>2, <1>3, <1>4 DEF TakingDown, Cleans, Off
<1> QED BY <1>5, <1>6, <1>7, <1>8 DEF InterceptInv

LEMMA StartInterceptingKept == InterceptInv /\ StartIntercepting => InterceptInv'
<1> SUFFICES ASSUME InterceptInv, StartIntercepting PROVE InterceptInv'
  OBVIOUS
<1> USE PlansAreOurs, NothingIsOurs DEF StartIntercepting, HostKept, Linux, InterceptInv,
      Step, Off, Cleans
<1>1. InterceptTyped'
  <2> USE DEF InterceptTyped
  <2>1. inForce' \in Plans /\ inForce'.marked = (inForce'.mode = "tproxy")
    BY PreparedIsPlan
  <2>2. capturing' \in Capturings
    BY DEF Capturings, Phases
  <2> QED BY <2>1, <2>2
<1>2. OwnersStay' BY DEF InterceptTyped, Capturings, Phases, Objects, Troubles, Family,
      OwnersStay, PuttingUp
<1>3. PuttingUp' BY DEF InterceptTyped, Capturings, Phases, Objects, Troubles, Family,
      OwnersStay, PuttingUp, TakingDown
<1>4. TakingDown' BY DEF InterceptTyped, Capturings, Phases, Objects, Troubles, Family,
      PuttingUp, TakingDown
<1> QED BY <1>1, <1>2, <1>3, <1>4

LEMMA CheckOwnersKept == InterceptInv /\ CheckOwners => InterceptInv'
<1> SUFFICES ASSUME InterceptInv, CheckOwners PROVE InterceptInv'
  OBVIOUS
<1> USE PlansAreOurs, NothingIsOurs DEF CheckOwners, HostKept, Uncounted, InterceptInv,
      Step, Off, Cleans
<1>1. InterceptTyped'
  <2> USE DEF InterceptTyped
  <2>1. capturing' \in Capturings
    BY DEF Capturings, Phases
  <2> QED BY <2>1
<1>2. setup.foreign \in {"none", "table", "rule", "route"}
  BY DEF InterceptTyped, GatewaySetups
<1>3. OwnersStay' BY <1>2 DEF InterceptTyped, Capturings, Phases, Objects, Troubles, Family,
      OwnersStay, PuttingUp
<1>4. PuttingUp' BY <1>2 DEF InterceptTyped, Capturings, Phases, Objects, Troubles, Family,
      OwnersStay, PuttingUp, TakingDown
<1>5. TakingDown' BY <1>2 DEF InterceptTyped, Capturings, Phases, Objects, Troubles, Family,
      PuttingUp, TakingDown
<1> QED BY <1>1, <1>2, <1>3, <1>4, <1>5

LEMMA AddPolicyKept == InterceptInv /\ AddPolicy => InterceptInv'
<1> SUFFICES ASSUME InterceptInv, AddPolicy PROVE InterceptInv'
  OBVIOUS
<1> USE PlansAreOurs, NothingIsOurs DEF AddPolicy, Object, FamilyAt, Uncounted,
      InterceptInv, Step, Off, Cleans
<1>1. InterceptTyped'
  <2> USE DEF InterceptTyped
  <2>1. capturing' \in Capturings
    BY DEF PuttingUp, Capturings, Phases
  <2>2. rules' \in Objects
    BY DEF Objects
  <2>3. routes' \in Objects
    BY DEF Objects
  <2> QED BY <2>1, <2>2, <2>3
<1>2. OwnersStay' BY DEF InterceptTyped, Capturings, Phases, Objects, Troubles, Family,
      OwnersStay, PuttingUp
<1>3. PuttingUp' BY DEF InterceptTyped, Capturings, Phases, Objects, Troubles, Family,
      OwnersStay, PuttingUp, TakingDown
<1>4. TakingDown' BY DEF InterceptTyped, Capturings, Phases, Objects, Troubles, Family,
      PuttingUp, TakingDown
<1> QED BY <1>1, <1>2, <1>3, <1>4

LEMMA LoadTablesKept == InterceptInv /\ LoadTables => InterceptInv'
<1> SUFFICES ASSUME InterceptInv, LoadTables PROVE InterceptInv'
  OBVIOUS
<1> USE PlansAreOurs, NothingIsOurs DEF LoadTables, Uncounted, InterceptInv, Step, Off,
      Cleans
<1>1. InterceptTyped'
  <2> USE DEF InterceptTyped
  <2>1. capturing' \in Capturings
    BY DEF Capturings, Phases
  <2>2. tables' \in Objects
    BY DEF Objects
  <2> QED BY <2>1, <2>2
<1>2. OwnersStay' BY DEF InterceptTyped, Capturings, Phases, Objects, Troubles, Family,
      OwnersStay, PuttingUp
<1>3. PuttingUp' BY DEF InterceptTyped, Capturings, Phases, Objects, Troubles, Family,
      OwnersStay, PuttingUp, TakingDown
<1>4. TakingDown' BY DEF InterceptTyped, Capturings, Phases, Objects, Troubles, Family,
      PuttingUp, TakingDown
<1> QED BY <1>1, <1>2, <1>3, <1>4

LEMMA CommandFailsKept == InterceptInv /\ CommandFails => InterceptInv'
<1> SUFFICES ASSUME InterceptInv, CommandFails PROVE InterceptInv'
  OBVIOUS
<1> USE PlansAreOurs, NothingIsOurs DEF CommandFails, HostKept, InterceptFault,
      InterceptInv, Step, Off, Cleans
<1>1. InterceptTyped'
  <2> USE DEF InterceptTyped
  <2>1. capturing' \in Capturings
    BY DEF Capturings, Phases
  <2> QED BY <2>1
<1>2. OwnersStay' BY DEF InterceptTyped, Capturings, Phases, Objects, Troubles, Family,
      OwnersStay, PuttingUp
<1>3. PuttingUp' BY DEF InterceptTyped, Capturings, Phases, Objects, Troubles, Family,
      OwnersStay, PuttingUp, TakingDown
<1>4. TakingDown' BY DEF InterceptTyped, Capturings, Phases, Objects, Troubles, Family,
      PuttingUp, TakingDown
<1> QED BY <1>1, <1>2, <1>3, <1>4

LEMMA AbandonKept == InterceptInv /\ Abandon => InterceptInv'
<1> SUFFICES ASSUME InterceptInv, Abandon PROVE InterceptInv'
  OBVIOUS
<1> USE PlansAreOurs, NothingIsOurs DEF Abandon, HostKept, InterceptFault, InterceptInv,
      Step, Off, Cleans
<1>1. InterceptTyped'
  <2> USE DEF InterceptTyped
  <2>1. capturing' \in Capturings
    BY DEF Capturings, Phases
  <2>2. trouble' \in Troubles
    BY DEF Troubles, Capturings
  <2> QED BY <2>1, <2>2
<1>2. OwnersStay' BY DEF InterceptTyped, Capturings, Phases, Objects, Troubles, Family,
      OwnersStay, PuttingUp
<1>3. PuttingUp' BY DEF InterceptTyped, Capturings, Phases, Objects, Troubles, Family,
      OwnersStay, PuttingUp, TakingDown
<1>4. TakingDown' BY DEF InterceptTyped, Capturings, Phases, Objects, Troubles, Family,
      PuttingUp, TakingDown
<1> QED BY <1>1, <1>2, <1>3, <1>4

LEMMA DeleteTablesKept == InterceptInv /\ DeleteTables => InterceptInv'
<1> SUFFICES ASSUME InterceptInv, DeleteTables PROVE InterceptInv'
  OBVIOUS
<1> USE PlansAreOurs, NothingIsOurs DEF DeleteTables, Uncounted, Removed, InterceptInv,
      Step, Off, Cleans
<1>1. InterceptTyped'
  <2> USE DEF InterceptTyped
  <2>1. capturing' \in Capturings
    BY DEF Capturings, Phases
  <2>2. tables' \in Objects
    BY DEF Objects
  <2>3. trouble' \in Troubles
    BY DEF Troubles, Capturings
  <2> QED BY <2>1, <2>2, <2>3
<1>2. OwnersStay' BY DEF InterceptTyped, Capturings, Phases, Objects, Troubles, Family,
      OwnersStay, PuttingUp
<1>3. PuttingUp' BY DEF InterceptTyped, Capturings, Phases, Objects, Troubles, Family,
      OwnersStay, PuttingUp, TakingDown
<1>4. TakingDown' BY DEF InterceptTyped, Capturings, Phases, Objects, Troubles, Family,
      PuttingUp, TakingDown
<1> QED BY <1>1, <1>2, <1>3, <1>4

LEMMA DeletePolicyKept == InterceptInv /\ DeletePolicy => InterceptInv'
<1> SUFFICES ASSUME InterceptInv, DeletePolicy PROVE InterceptInv'
  OBVIOUS
<1> USE PlansAreOurs, NothingIsOurs DEF DeletePolicy, FamilyAt, Uncounted, EndCleanup,
      AfterCleanup, Removed, InterceptInv, Step, Off, Cleans
<1>1. InterceptTyped'
  <2> USE DEF InterceptTyped
  <2>1. capturing' \in Capturings
    BY DEF Capturings, Phases
  <2>2. rules' \in Objects
    BY DEF Objects
  <2>3. routes' \in Objects
    BY DEF Objects
  <2>4. trouble' \in Troubles
    <3>1. CASE capturing.at = 4
      <4>1. trouble' = [pass |-> FALSE, left |-> trouble.pass] /\ trouble.pass \in BOOLEAN
        BY <3>1 DEF Troubles
      <4> QED BY <4>1 DEF Troubles
    <3>2. CASE capturing.at # 4 BY <3>2
    <3> QED BY <3>1, <3>2
  <2>5. killed' \in BOOLEAN
    BY DEF Troubles
  <2> QED BY <2>1, <2>2, <2>3, <2>4, <2>5
<1>2. OwnersStay' BY DEF InterceptTyped, Capturings, Phases, Objects, Troubles, Family,
      OwnersStay, PuttingUp
<1>3. PuttingUp' BY DEF InterceptTyped, Capturings, Phases, Objects, Troubles, Family,
      OwnersStay, PuttingUp, TakingDown
<1>4. TakingDown' BY DEF InterceptTyped, Capturings, Phases, Objects, Troubles, Family,
      PuttingUp, TakingDown
<1> QED BY <1>1, <1>2, <1>3, <1>4

LEMMA DeleteFailsKept == InterceptInv /\ DeleteFails => InterceptInv'
<1> SUFFICES ASSUME InterceptInv, DeleteFails PROVE InterceptInv'
  OBVIOUS
<1> USE PlansAreOurs, NothingIsOurs DEF DeleteFails, HostKept, InterceptFault, EndCleanup,
      AfterCleanup, InterceptInv, Step, Off, Cleans
<1>1. InterceptTyped'
  <2> USE DEF InterceptTyped
  <2>1. capturing' \in Capturings
    BY DEF Capturings, Phases
  <2>2. trouble' \in Troubles
    <3>1. CASE trouble' = [trouble EXCEPT !.pass = TRUE] BY <3>1 DEF Troubles
    <3>2. CASE trouble' = [pass |-> FALSE, left |-> TRUE] BY <3>2 DEF Troubles
    <3> QED BY <3>1, <3>2
  <2>3. killed' \in BOOLEAN
    BY DEF Troubles
  <2> QED BY <2>1, <2>2, <2>3
<1>2. OwnersStay' BY DEF InterceptTyped, Capturings, Phases, Objects, Troubles, Family,
      OwnersStay, PuttingUp
<1>3. PuttingUp' BY DEF InterceptTyped, Capturings, Phases, Objects, Troubles, Family,
      OwnersStay, PuttingUp, TakingDown
<1>4. TakingDown' BY DEF InterceptTyped, Capturings, Phases, Objects, Troubles, Family,
      PuttingUp, TakingDown
<1> QED BY <1>1, <1>2, <1>3, <1>4

LEMMA StopInterceptingKept == InterceptInv /\ StopIntercepting => InterceptInv'
<1> SUFFICES ASSUME InterceptInv, StopIntercepting PROVE InterceptInv'
  OBVIOUS
<1> USE PlansAreOurs, NothingIsOurs DEF StopIntercepting, HostKept, Uncounted, InterceptInv,
      Step, Off, Cleans
<1>1. InterceptTyped'
  <2> USE DEF InterceptTyped
  <2>1. capturing' \in Capturings
    BY DEF Capturings, Phases
  <2> QED BY <2>1
<1>2. OwnersStay' BY DEF InterceptTyped, Capturings, Phases, Objects, Troubles, Family,
      OwnersStay, PuttingUp
<1>3. PuttingUp' BY DEF InterceptTyped, Capturings, Phases, Objects, Troubles, Family,
      OwnersStay, PuttingUp, TakingDown
<1>4. TakingDown' BY DEF InterceptTyped, Capturings, Phases, Objects, Troubles, Family,
      PuttingUp, TakingDown
<1> QED BY <1>1, <1>2, <1>3, <1>4

LEMMA KillGatewayKept == InterceptInv /\ KillGateway => InterceptInv'
<1> SUFFICES ASSUME InterceptInv, KillGateway PROVE InterceptInv'
  OBVIOUS
<1> USE PlansAreOurs, NothingIsOurs DEF KillGateway, HostKept, InterceptFault, InterceptInv,
      Step, Off, Cleans
<1>1. InterceptTyped'
  <2> USE DEF InterceptTyped
  <2>1. capturing' \in Capturings
    BY DEF Capturings, Phases
  <2>2. trouble' \in Troubles
    BY DEF Troubles, Capturings
  <2>3. killed' \in BOOLEAN
    BY DEF Troubles
  <2> QED BY <2>1, <2>2, <2>3
<1>2. OwnersStay' BY DEF InterceptTyped, Capturings, Phases, Objects, Troubles, Family,
      OwnersStay, PuttingUp
<1>3. PuttingUp' BY DEF InterceptTyped, Capturings, Phases, Objects, Troubles, Family,
      OwnersStay, PuttingUp, TakingDown
<1>4. TakingDown' BY DEF InterceptTyped, Capturings, Phases, Objects, Troubles, Family,
      PuttingUp, TakingDown
<1> QED BY <1>1, <1>2, <1>3, <1>4

LEMMA CleanIdleKept == InterceptInv /\ CleanIdle => InterceptInv'
<1> SUFFICES ASSUME InterceptInv, CleanIdle PROVE InterceptInv'
  OBVIOUS
<1> USE PlansAreOurs, NothingIsOurs DEF CleanIdle, HostKept, Uncounted, Linux, InterceptInv,
      Step, Off, Cleans
<1>1. InterceptTyped'
  <2> USE DEF InterceptTyped
  <2>1. capturing' \in Capturings
    BY DEF Capturings, Phases
  <2> QED BY <2>1
<1>2. OwnersStay' BY DEF InterceptTyped, Capturings, Phases, Objects, Troubles, Family,
      OwnersStay, PuttingUp
<1>3. PuttingUp' BY DEF InterceptTyped, Capturings, Phases, Objects, Troubles, Family,
      OwnersStay, PuttingUp, TakingDown
<1>4. TakingDown' BY DEF InterceptTyped, Capturings, Phases, Objects, Troubles, Family,
      PuttingUp, TakingDown
<1> QED BY <1>1, <1>2, <1>3, <1>4

LEMMA EditSetupKept == InterceptInv /\ EditSetup => InterceptInv'
<1> SUFFICES ASSUME InterceptInv, EditSetup PROVE InterceptInv'
  OBVIOUS
<1> USE PlansAreOurs, NothingIsOurs DEF EditSetup, HostKept, Linux, InterceptInv, Step, Off,
      Cleans
<1>1. InterceptTyped'
  <2> USE DEF InterceptTyped
  <2>1. setup' \in GatewaySetups
    BY DEF GatewaySetups
  <2> QED BY <2>1
<1>2. setup'.foreign = setup.foreign
  BY DEF InterceptTyped, GatewaySetups
<1>3. OwnersStay' BY <1>2 DEF OwnersStay, PuttingUp
<1>4. PuttingUp' BY <1>2 DEF OwnersStay, PuttingUp, TakingDown
<1>5. TakingDown' BY <1>2 DEF PuttingUp, TakingDown
<1> QED BY <1>1, <1>2, <1>3, <1>4, <1>5

LEMMA InterceptAside == InterceptInv /\ UNCHANGED interceptVars => InterceptInv'
BY DEF interceptVars, InterceptInv, InterceptTyped, OwnersStay, PuttingUp, TakingDown, Cleans, Ours

LEMMA InterceptKept == InterceptInv /\ [InterceptNext]_interceptVars => InterceptInv'
BY Zenon, InterceptAside, StartInterceptingKept, CheckOwnersKept, AddPolicyKept, LoadTablesKept,
   CommandFailsKept, AbandonKept, DeleteTablesKept, DeletePolicyKept, DeleteFailsKept,
   StopInterceptingKept, KillGatewayKept, CleanIdleKept, EditSetupKept
   DEF InterceptNext

(***************************************************************************)
(* The chains: the first rule that matches.                                *)
(***************************************************************************)
LEMMA FirstIs ==
    ASSUME NEW S \in SUBSET Nat, NEW i \in S, \A j \in S : i <= j
    PROVE  First(S) = i
<1>1. First(S) \in S /\ \A j \in S : First(S) <= j BY DEF First
<1>2. First(S) <= i /\ i <= First(S) BY <1>1
<1>3. First(S) \in Nat /\ i \in Nat BY <1>1
<1> QED BY <1>2, <1>3

LEMMA ChainOfOne ==
    ASSUME NEW m \in BOOLEAN, NEW v
    PROVE  FirstMatch(<<ChainRule(m, v)>>) = IF m THEN v ELSE "return"
<1> DEFINE chain == <<ChainRule(m, v)>>
           hits == {i \in DOMAIN chain : chain[i].match}
<1>1. DOMAIN chain = {1} /\ (chain[1].match <=> m) /\ chain[1].verdict = v BY DEF ChainRule
<1> HIDE DEF chain
<1>2. FirstMatch(chain) = IF hits = {} THEN "return" ELSE chain[First(hits)].verdict
  BY DEF FirstMatch
<1>3. m => hits = {1} /\ First(hits) = 1 BY <1>1, FirstIs
<1>4. ~m => hits = {} BY <1>1
<1> QED BY <1>1, <1>2, <1>3, <1>4 DEF chain

LEMMA ChainOfTwo ==
    ASSUME NEW m1 \in BOOLEAN, NEW v1, NEW m2 \in BOOLEAN, NEW v2
    PROVE  FirstMatch(<<ChainRule(m1, v1), ChainRule(m2, v2)>>) =
             IF m1 THEN v1 ELSE IF m2 THEN v2 ELSE "return"
<1> DEFINE chain == <<ChainRule(m1, v1), ChainRule(m2, v2)>>
           hits == {i \in DOMAIN chain : chain[i].match}
<1>1. /\ DOMAIN chain = {1, 2} /\ (chain[1].match <=> m1) /\ chain[1].verdict = v1
      /\ (chain[2].match <=> m2) /\ chain[2].verdict = v2
  BY DEF ChainRule
<1> HIDE DEF chain
<1>2. FirstMatch(chain) = IF hits = {} THEN "return" ELSE chain[First(hits)].verdict
  BY DEF FirstMatch
<1>3. m1 => First(hits) = 1 BY <1>1, FirstIs
<1>4. ~m1 /\ m2 => First(hits) = 2 BY <1>1, FirstIs
<1>5. (m1 \/ m2) <=> hits # {} BY <1>1
<1> HIDE DEF hits
<1> QED BY <1>1, <1>2, <1>3, <1>4, <1>5 DEF chain

LEMMA ChainOfThree ==
    ASSUME NEW m1 \in BOOLEAN, NEW v1, NEW m2 \in BOOLEAN, NEW v2, NEW m3 \in BOOLEAN, NEW v3
    PROVE  FirstMatch(<<ChainRule(m1, v1), ChainRule(m2, v2), ChainRule(m3, v3)>>) =
             IF m1 THEN v1 ELSE IF m2 THEN v2 ELSE IF m3 THEN v3 ELSE "return"
<1> DEFINE chain == <<ChainRule(m1, v1), ChainRule(m2, v2), ChainRule(m3, v3)>>
           hits == {i \in DOMAIN chain : chain[i].match}
<1>1. /\ DOMAIN chain = {1, 2, 3} /\ (chain[1].match <=> m1) /\ chain[1].verdict = v1
      /\ (chain[2].match <=> m2) /\ chain[2].verdict = v2
      /\ (chain[3].match <=> m3) /\ chain[3].verdict = v3
  BY DEF ChainRule
<1> HIDE DEF chain
<1>2. FirstMatch(chain) = IF hits = {} THEN "return" ELSE chain[First(hits)].verdict
  BY DEF FirstMatch
<1>3. m1 => First(hits) = 1 BY <1>1, FirstIs
<1>4. ~m1 /\ m2 => First(hits) = 2 BY <1>1, FirstIs
<1>5. ~m1 /\ ~m2 /\ m3 => First(hits) = 3 BY <1>1, FirstIs
<1>6. (m1 \/ m2 \/ m3) <=> hits # {} BY <1>1
<1> HIDE DEF hits
<1> QED BY <1>1, <1>2, <1>3, <1>4, <1>5, <1>6 DEF chain

\* What each chain does with a packet.
LEMMA Verdicts ==
    ASSUME NEW t \in Plans, NEW p \in Packet, NEW mark \in {"none", "route", "bypass"}
    PROVE  /\ FirstMatch(Prerouting(t, p, mark)) =
                IF (p.from = "lan" /\ p.port = "dns") \/ p.dst \in t.excluded THEN "return"
                ELSE IF mark = "route" \/ p.from = "lan" THEN "tproxy" ELSE "return"
           /\ FirstMatch(Output(t, p, mark)) =
                IF mark = "bypass" \/ p.port = "dns" \/ p.dst \in t.excluded THEN "return"
                ELSE "mark"
           /\ FirstMatch(SelfGuard(p)) =
                IF p.dst = "self" /\ p.port = "tproxy" THEN "reject" ELSE "return"
           /\ FirstMatch(DnsPrerouting(p)) =
                IF p.from = "lan" /\ p.port = "dns" THEN "redirect" ELSE "return"
           /\ FirstMatch(DnsOutput(mark, p)) =
                IF mark # "bypass" /\ p.port = "dns" THEN "redirect" ELSE "return"
<1> DEFINE spared == p.dst \in t.excluded
           asks == p.port = "dns"
           lanAsks == p.from = "lan" /\ p.port = "dns"
<1>1. FirstMatch(Prerouting(t, p, mark)) =
        IF lanAsks THEN "return" ELSE IF spared THEN "return"
        ELSE IF mark = "route" \/ p.from = "lan" THEN "tproxy" ELSE "return"
  <2> DEFINE taken == mark = "route" \/ p.from = "lan"
  <2>1. Prerouting(t, p, mark) =
          <<ChainRule(lanAsks, "return"), ChainRule(spared, "return"),
            ChainRule(taken, "tproxy")>>
    BY Zenon DEF Prerouting
  <2>2. lanAsks \in BOOLEAN /\ spared \in BOOLEAN /\ taken \in BOOLEAN OBVIOUS
  <2> HIDE DEF lanAsks, spared, taken
  <2>3. FirstMatch(<<ChainRule(lanAsks, "return"), ChainRule(spared, "return"),
                     ChainRule(taken, "tproxy")>>) =
          IF lanAsks THEN "return" ELSE IF spared THEN "return" ELSE IF taken THEN "tproxy"
          ELSE "return"
    BY <2>2, ChainOfThree
  <2> QED BY <2>1, <2>3 DEF taken
<1>2. FirstMatch(Output(t, p, mark)) =
        IF mark = "bypass" THEN "return" ELSE IF asks \/ spared THEN "return" ELSE "mark"
  <2> DEFINE own == mark = "bypass"
             left == asks \/ spared
  <2>1. Output(t, p, mark) =
          <<ChainRule(own, "return"), ChainRule(left, "return"), ChainRule(TRUE, "mark")>>
    BY Zenon DEF Output
  <2>2. own \in BOOLEAN /\ left \in BOOLEAN OBVIOUS
  <2> HIDE DEF own, left
  <2>3. FirstMatch(<<ChainRule(own, "return"), ChainRule(left, "return"),
                     ChainRule(TRUE, "mark")>>) =
          IF own THEN "return" ELSE IF left THEN "return" ELSE "mark"
    <3>1. PICK always \in BOOLEAN : always <=> TRUE OBVIOUS
    <3>2. FirstMatch(<<ChainRule(own, "return"), ChainRule(left, "return"),
                       ChainRule(always, "mark")>>) =
            IF own THEN "return" ELSE IF left THEN "return" ELSE IF always THEN "mark"
            ELSE "return"
      BY <2>2, ChainOfThree
    <3> QED BY Zenon, <3>1, <3>2
  <2> QED BY <2>1, <2>3 DEF own, left
<1>3. FirstMatch(SelfGuard(p)) = IF p.dst = "self" /\ p.port = "tproxy" THEN "reject" ELSE "return"
  <2> DEFINE guarded == p.dst = "self" /\ p.port = "tproxy"
  <2>1. SelfGuard(p) = <<ChainRule(guarded, "reject")>> BY Zenon DEF SelfGuard
  <2>2. guarded \in BOOLEAN OBVIOUS
  <2> HIDE DEF guarded
  <2>3. FirstMatch(SelfGuard(p)) = IF guarded THEN "reject" ELSE "return"
    BY <2>1, <2>2, ChainOfOne
  <2> QED BY <2>3 DEF guarded
<1>4. FirstMatch(DnsPrerouting(p)) = IF lanAsks THEN "redirect" ELSE "return"
  <2>1. DnsPrerouting(p) = <<ChainRule(lanAsks, "redirect")>> BY Zenon DEF DnsPrerouting
  <2>2. lanAsks \in BOOLEAN OBVIOUS
  <2> HIDE DEF lanAsks
  <2> QED BY <2>1, <2>2, ChainOfOne
<1>5. FirstMatch(DnsOutput(mark, p)) =
        IF mark = "bypass" THEN "return" ELSE IF asks THEN "redirect" ELSE "return"
  <2> DEFINE own == mark = "bypass"
  <2>1. DnsOutput(mark, p) = <<ChainRule(own, "return"), ChainRule(asks, "redirect")>>
    BY Zenon DEF DnsOutput
  <2>2. own \in BOOLEAN /\ asks \in BOOLEAN OBVIOUS
  <2> HIDE DEF own, asks
  <2>3. FirstMatch(DnsOutput(mark, p)) =
          IF own THEN "return" ELSE IF asks THEN "redirect" ELSE "return"
    BY <2>1, <2>2, ChainOfTwo
  <2> QED BY <2>3 DEF own
<1> QED BY <1>1, <1>2, <1>3, <1>4, <1>5

LEMMA PacketsServed == InterceptInv => ServedAsWanted
<1> SUFFICES ASSUME InterceptInv, capturing.phase = "serving", inForce.mode = "tproxy",
                    NEW p \in Packet
             PROVE  Path(p) = Wanted(p)
  BY DEF ServedAsWanted
<1>1. /\ inForce \in Plans /\ inForce.marked /\ p.family \in Family
      /\ tables[p.family] = inForce /\ Delivered(p.family) = "core"
  BY DEF InterceptInv, InterceptTyped, PuttingUp, Packet, Delivered
<1>2. Path(p) = IF p.from \in {"core", "host"} THEN Sent(inForce, p) ELSE Forwarded(inForce, p)
  BY <1>1, PlansAreOurs DEF Path
<1>3. p.from \in {"core", "host", "lan", "other"} /\ inForce.host \in BOOLEAN
  BY <1>1 DEF Packet, Plans
<1>4. CASE p.from \in {"core", "host"}
  <2>1. Path(p) = Sent(inForce, p) BY <1>2, <1>4
  <2>2. CASE p.from = "core"
    <3>1. /\ FirstMatch(Output(inForce, p, "bypass")) = "return"
          /\ FirstMatch(DnsOutput("bypass", p)) = "return"
          /\ FirstMatch(SelfGuard(p)) =
               IF p.dst = "self" /\ p.port = "tproxy" THEN "reject" ELSE "return"
      BY <1>1, Verdicts
    <3>2. Sent(inForce, p) = IF FirstMatch(SelfGuard(p)) = "reject" THEN "reject" ELSE "direct"
      BY <1>1, <2>2, <3>1 DEF Sent
    <3> QED BY <2>1, <2>2, <3>1, <3>2 DEF Wanted
  <2>3. CASE p.from = "host"
    <3>1. /\ FirstMatch(Output(inForce, p, "none")) =
               IF p.port = "dns" \/ p.dst \in inForce.excluded THEN "return" ELSE "mark"
          /\ FirstMatch(DnsOutput("none", p)) =
               IF p.port = "dns" THEN "redirect" ELSE "return"
          /\ FirstMatch(SelfGuard(p)) =
               IF p.dst = "self" /\ p.port = "tproxy" THEN "reject" ELSE "return"
      BY <1>1, Verdicts
    <3>2. p.dst \notin inForce.excluded =>
            FirstMatch(Prerouting(inForce, p, "route")) = "tproxy"
      BY <1>1, <2>3, Verdicts
    <3>3. Sent(inForce, p) =
            IF FirstMatch(SelfGuard(p)) = "reject" THEN "reject"
            ELSE IF p.family = "ip" /\ inForce.host /\ p.port = "dns" THEN "dns"
            ELSE IF inForce.host /\ ~(p.port = "dns" \/ p.dst \in inForce.excluded) THEN "core"
            ELSE "direct"
      BY <1>1, <2>3, <3>1, <3>2 DEF Sent
    <3> QED BY <1>3, <2>1, <2>3, <3>1, <3>3 DEF Wanted
  <2> QED BY <1>4, <2>2, <2>3
<1>5. CASE p.from \in {"lan", "other"}
  <2>1. /\ FirstMatch(Prerouting(inForce, p, "none")) =
             IF (p.from = "lan" /\ p.port = "dns") \/ p.dst \in inForce.excluded THEN "return"
             ELSE IF p.from = "lan" THEN "tproxy" ELSE "return"
        /\ FirstMatch(DnsPrerouting(p)) =
             IF p.from = "lan" /\ p.port = "dns" THEN "redirect" ELSE "return"
    BY <1>1, Verdicts
  <2>2. p.family \in {"ip", "ip6"} BY <1>1 DEF Family
  <2>3. Forwarded(inForce, p) =
          IF p.family = "ip" /\ p.from = "lan" /\ p.port = "dns" THEN "dns"
          ELSE IF p.from = "lan" /\ p.port # "dns" /\ p.dst \notin inForce.excluded THEN "core"
          ELSE "direct"
    BY <1>1, <2>1 DEF Forwarded
  <2>4. Path(p) = Forwarded(inForce, p) BY <1>2, <1>5
  <2> QED BY <1>5, <2>2, <2>3, <2>4 DEF Wanted
<1> QED BY <1>3, <1>4, <1>5

LEMMA PacketsNotAstray == InterceptInv => NoneAstray
<1> SUFFICES ASSUME InterceptInv, ~trouble.pass, ~trouble.left, NEW p \in Packet,
                    Path(p) = "astray"
             PROVE  FALSE
  BY DEF NoneAstray
<1>1. p.family \in Family BY DEF Packet
<1>2. Ours(tables[p.family]) BY DEF Path
<1>3. Ours(rules[p.family]) /\ Ours(routes[p.family])
  BY <1>1, <1>2 DEF InterceptInv, TakingDown
<1> QED BY <1>2, <1>3 DEF Path, Sent, Forwarded, Delivered

(***************************************************************************)
(* The plans.                                                              *)
(***************************************************************************)
LEMMA UnionElements ==
    \A A, B, x : x \in UNION (A \cup B) <=> x \in UNION A \/ x \in UNION B
BY Zenon

LEMMA ResolvedElements ==
    ASSUME NEW s \in GatewaySetups, NEW x
    PROVE  x \in UNION Resolved(s) <=>
             \/ x \in UNION s.exclusions \/ x \in {"self", "server"}
             \/ (s.upstreams /\ x = "upstream")
<1> DEFINE more == {{"self"}, {"server"}} \cup (IF s.upstreams THEN {{"upstream"}} ELSE {})
<1>1. x \in UNION more <=> x \in {"self", "server"} \/ (s.upstreams /\ x = "upstream")
  <2>1. CASE s.upstreams
    <3>1. more = {{"self"}, {"server"}} \cup {{"upstream"}} BY <2>1
    <3> HIDE DEF more
    <3> QED BY <2>1, <3>1
  <2>2. CASE ~s.upstreams
    <3>1. more = {{"self"}, {"server"}} BY <2>2
    <3> HIDE DEF more
    <3> QED BY <2>2, <3>1
  <2> QED BY <2>1, <2>2
<1>2. Resolved(s) = s.exclusions \cup more BY Zenon DEF Resolved
<1> HIDE DEF more
<1>3. x \in UNION Resolved(s) <=> x \in UNION s.exclusions \/ x \in UNION more
  BY Zenon, <1>2, UnionElements
<1> QED BY Zenon, <1>1, <1>3

LEMMA AnyOfFour ==
  ASSUME NEW A, NEW B, NEW C, NEW D, NEW x
  PROVE  x \in A \cup B \cup C \cup D <=> (((x \in A \/ x \in B) \/ x \in C) \/ x \in D)
  OBVIOUS

\* With an intranet only what a core has to reach itself is left of what is private.
LEMMA SparedExactly == \A s \in GatewaySetups : TproxyExcluded(s) = Spared(s)
<1> SUFFICES ASSUME NEW s \in GatewaySetups PROVE TproxyExcluded(s) = Spared(s)
  OBVIOUS
<1> SUFFICES ASSUME NEW x PROVE x \in TproxyExcluded(s) <=> x \in Spared(s)
  OBVIOUS
<1> DEFINE base == Reserved \cup LocalPrefixes
           vpn == IF s.autoVpn THEN VpnPrefixes(s) ELSE {}
           rest == FilterOverlaps(base, {Private})
<1>1. x \in UNION base <=> x \in {"loopback", "wan"} \cup Private
  BY DEF Reserved, LocalPrefixes, Private
<1>2. x \in UNION rest <=> x \in {"loopback", "wan"}
  <2>1. base = {{"loopback"}, Private, {"lan", "self"}, {"wan"}}
    BY DEF Reserved, LocalPrefixes
  <2>2. rest = {{"loopback"}, {"wan"}}
    BY <2>1 DEF FilterOverlaps, Private
  <2> QED BY <2>2
<1>3. x \in UNION vpn <=> (s.autoVpn /\ x \in UNION VpnPrefixes(s))
  OBVIOUS
<1>4. CASE ~s.intranet
  <2>1. TproxyExcluded(s) = UNION (base \cup OutboundServers(s))
    BY Zenon, <1>4 DEF TproxyExcluded
  <2>2. x \in TproxyExcluded(s) <=> x \in UNION base \/ x \in UNION OutboundServers(s)
    BY <2>1, UnionElements
  <2> HIDE DEF base
  <2>3. x \in Spared(s) <=>
          x \in {"loopback", "self", "wan"} \cup Private \/ x \in UNION OutboundServers(s)
    BY <1>4 DEF Spared
  <2> QED BY <1>1, <2>2, <2>3 DEF Private
<1>5. CASE s.intranet
  <2>1. TproxyExcluded(s) = UNION (rest \cup Resolved(s) \cup vpn \cup OutboundServers(s))
    BY Zenon, <1>5 DEF TproxyExcluded
  <2> HIDE DEF rest, vpn
  <2>2. x \in TproxyExcluded(s) <=>
          \/ x \in UNION rest \/ x \in UNION Resolved(s) \/ x \in UNION vpn
          \/ x \in UNION OutboundServers(s)
    BY <2>1, UnionElements
  <2>3. x \in Spared(s) <=>
          \/ x \in {"loopback", "self", "wan"}
          \/ x \in UNION s.exclusions \/ x = "server" \/ (s.upstreams /\ x = "upstream")
          \/ (s.autoVpn /\ x \in UNION VpnPrefixes(s))
          \/ x \in UNION OutboundServers(s)
    <3> DEFINE asked == IF s.upstreams THEN {"upstream"} ELSE {}
               tunnels == IF s.autoVpn THEN UNION VpnPrefixes(s) ELSE {}
               spared == (UNION s.exclusions) \cup {"server"} \cup asked \cup tunnels
    <3>1. Spared(s) = {"loopback", "self", "wan"} \cup (IF ~s.intranet THEN Private ELSE spared)
                        \cup UNION OutboundServers(s)
      BY DEF Spared
    <3>2. x \in spared <=>
            \/ x \in UNION s.exclusions \/ x = "server" \/ (s.upstreams /\ x = "upstream")
            \/ (s.autoVpn /\ x \in UNION VpnPrefixes(s))
      <4>1. x \in asked <=> (s.upstreams /\ x = "upstream")
        OBVIOUS
      <4>2. x \in tunnels <=> (s.autoVpn /\ x \in UNION VpnPrefixes(s))
        OBVIOUS
      <4>3. x \in {"server"} <=> x = "server"
        OBVIOUS
      <4> HIDE DEF asked, tunnels
      <4>4. x \in spared <=>
              (((x \in UNION s.exclusions \/ x \in {"server"}) \/ x \in asked) \/ x \in tunnels)
        BY AnyOfFour DEF spared
      <4> HIDE DEF spared
      <4> QED BY Zenon, <4>1, <4>2, <4>3, <4>4
    <3> HIDE DEF spared
    <3>3. x \in Spared(s) <=>
            x \in {"loopback", "self", "wan"} \/ x \in spared \/ x \in UNION OutboundServers(s)
      BY <1>5, <3>1
    <3> QED BY Zenon, <3>2, <3>3
  <2>4. x \in UNION Resolved(s) <=>
          \/ x \in UNION s.exclusions \/ x \in {"self", "server"}
          \/ (s.upstreams /\ x = "upstream")
    BY ResolvedElements
  <2> QED BY Zenon, <1>2, <1>3, <2>2, <2>3, <2>4
<1> QED BY <1>4, <1>5

LEMMA PlansRight == InterceptInv => ExclusionsRight
<1> SUFFICES ASSUME InterceptInv PROVE ExclusionsRight
  OBVIOUS
<1>1. setup \in GatewaySetups BY DEF InterceptInv, InterceptTyped
<1>2. ~setup.intranet /\ FakePrefixes(setup) # {} => "fake" \notin TunExclusions(setup)
  BY DEF FakePrefixes, TunExclusions, FilterOverlaps
<1>3. setup.intranet => {"self", "server"} \subseteq TunExclusions(setup)
  BY DEF TunExclusions, Resolved
<1> QED BY <1>1, <1>2, <1>3, SparedExactly DEF ExclusionsRight

(***************************************************************************)
(* The DNS rules of a desktop.                                             *)
(***************************************************************************)
LEMMA SameChain ==
    ASSUME NEW S, NEW s \in Seq(S), NEW t \in Seq(S), Len(s) = Len(t),
           \A i \in 1..Len(s) : s[i] = t[i]
    PROVE  s = t
OBVIOUS

LEMMA InFront ==
    ASSUME NEW S, NEW a \in S, NEW b \in S, NEW c \in S
    PROVE  <<a>> \o <<b, c>> = <<a, b, c>>
<1> DEFINE s == <<a>> \o <<b, c>>
           t == <<a, b, c>>
<1>1. s \in Seq(S) /\ Len(s) = 3 /\ s[1] = a /\ s[2] = b /\ s[3] = c OBVIOUS
<1>2. t \in Seq(S) /\ Len(t) = 3 /\ t[1] = a /\ t[2] = b /\ t[3] = c OBVIOUS
<1> HIDE DEF s, t
<1>3. \A i \in 1..3 : s[i] = t[i] BY <1>1, <1>2
<1>4. s = t BY <1>1, <1>2, <1>3, SameChain
<1> QED BY <1>4 DEF s, t

LEMMA BehindTheFirst ==
    ASSUME NEW S, NEW r \in S, NEW t \in S, NEW b \in S
    PROVE  InsertAt(<<r, t>>, 2, b) = <<r, b, t>>
<1> DEFINE chain == <<r, t>>
           front == SubSeq(chain, 1, 1)
           back == SubSeq(chain, 2, 2)
           s == front \o <<b>> \o back
           u == <<r, b, t>>
<1>1. chain \in Seq(S) /\ Len(chain) = 2 /\ chain[1] = r /\ chain[2] = t OBVIOUS
<1> HIDE DEF chain
<1>2. front \in Seq(S) /\ Len(front) = 1 /\ front[1] = r BY <1>1
<1>3. back \in Seq(S) /\ Len(back) = 1 /\ back[1] = t BY <1>1
<1>4. InsertAt(chain, 2, b) = s BY <1>1 DEF InsertAt
<1> HIDE DEF front, back
<1>5. s \in Seq(S) /\ Len(s) = 3 /\ s[1] = r /\ s[2] = b /\ s[3] = t
  <2>1. front = <<r>>
    <3>1. <<r>> \in Seq(S) /\ Len(<<r>>) = 1 /\ <<r>>[1] = r OBVIOUS
    <3> QED BY <1>2, <3>1, SameChain
  <2>2. back = <<t>>
    <3>1. <<t>> \in Seq(S) /\ Len(<<t>>) = 1 /\ <<t>>[1] = t OBVIOUS
    <3> QED BY <1>3, <3>1, SameChain
  <2>3. LET three == <<r>> \o <<b>> \o <<t>>
        IN  three \in Seq(S) /\ Len(three) = 3 /\ three[1] = r /\ three[2] = b /\ three[3] = t
    OBVIOUS
  <2> QED BY <2>1, <2>2, <2>3
<1>6. u \in Seq(S) /\ Len(u) = 3 /\ u[1] = r /\ u[2] = b /\ u[3] = t OBVIOUS
<1> HIDE DEF s, u
<1>7. \A i \in 1..3 : s[i] = u[i] BY <1>5, <1>6
<1>8. s = u BY <1>5, <1>6, <1>7, SameChain
<1> QED BY <1>4, <1>8 DEF chain, u

\* What the rules are, with and without the frontend.
LEMMA DesktopChains ==
    ASSUME NEW s \in GatewaySetups, NEW own, NEW tun, NEW bypass, NEW redirect,
           own = RouteRule({"core-in"}, Destination, "hijack"),
           tun = RouteRule({"core-in", "tun"}, Destination, "hijack"),
           bypass = RouteRule({"core-in", "tun"}, {"upstream"}, "direct"),
           redirect = RouteRule({"tun"}, Destination, "frontend")
    PROVE  /\ ~s.frontend => DesktopRules(s) = <<own, tun>>
           /\ s.frontend /\ s.platform = "windows" => DesktopRules(s) = <<redirect, own, tun>>
           /\ s.frontend /\ s.platform # "windows" =>
                DesktopRules(s) = IF s.upstreams THEN <<own, bypass, tun>> ELSE <<own, tun>>
<1>1. CompiledRules = <<own, tun>> BY DEF CompiledRules
<1>2. CASE ~s.frontend BY <1>1, <1>2 DEF DesktopRules
<1>3. CASE s.frontend /\ s.platform = "windows"
  <2>1. <<redirect>> \o <<own, tun>> = <<redirect, own, tun>>
    <3> DEFINE S == {redirect, own, tun}
    <3>1. redirect \in S /\ own \in S /\ tun \in S OBVIOUS
    <3> HIDE DEF S
    <3> QED BY <3>1, InFront
  <2> QED BY <1>1, <1>3, <2>1 DEF DesktopRules
<1>4. CASE s.frontend /\ s.platform # "windows"
  <2>1. DesktopRules(s) = WithBypass(s, <<own, tun>>) BY <1>1, <1>4 DEF DesktopRules
  <2>2. CASE ~s.upstreams BY <1>4, <2>1, <2>2 DEF WithBypass
  <2>3. CASE s.upstreams
    <3> DEFINE pair == <<own, tun>>
               behind == {i \in DOMAIN pair : pair[i].inbounds = {"core-in"}}
               last == CHOOSE i \in behind : \A j \in behind : j <= i
    <3>1. own.inbounds = {"core-in"} /\ tun.inbounds = {"core-in", "tun"} BY DEF RouteRule
    <3>2. DOMAIN pair = {1, 2} /\ pair[1] = own /\ pair[2] = tun OBVIOUS
    <3> HIDE DEF pair
    <3>3. behind = {1} BY <3>1, <3>2
    <3>4. last = 1 BY <3>3
    <3>5. WithBypass(s, pair) =
            InsertAt(pair, IF behind = {} THEN 1 ELSE 1 + last, bypass)
      BY <2>3 DEF WithBypass
    <3>6. (IF behind = {} THEN 1 ELSE 1 + last) = 2 BY <3>3, <3>4
    <3> HIDE DEF behind, last
    <3>7. WithBypass(s, pair) = InsertAt(pair, 2, bypass) BY Zenon, <3>5, <3>6
    <3> DEFINE S == {own, tun, bypass}
    <3>8. own \in S /\ tun \in S /\ bypass \in S OBVIOUS
    <3> HIDE DEF S
    <3>9. InsertAt(pair, 2, bypass) = <<own, bypass, tun>>
      BY <3>8, BehindTheFirst DEF pair
    <3> QED BY <1>4, <2>1, <2>3, <3>7, <3>9 DEF pair
  <2> QED BY <2>2, <2>3
<1> QED BY <1>2, <1>3, <1>4

LEMMA QueriesRight == InterceptInv => DesktopDnsRight
<1> SUFFICES ASSUME InterceptInv, ~Linux PROVE DesktopDnsRight
  BY DEF DesktopDnsRight
<1>1. setup \in GatewaySetups BY DEF InterceptInv, InterceptTyped
<1>2. PICK own, tun, bypass, redirect :
        /\ own = RouteRule({"core-in"}, Destination, "hijack")
        /\ tun = RouteRule({"core-in", "tun"}, Destination, "hijack")
        /\ bypass = RouteRule({"core-in", "tun"}, {"upstream"}, "direct")
        /\ redirect = RouteRule({"tun"}, Destination, "frontend")
  OBVIOUS
<1>3. /\ own.inbounds = {"core-in"} /\ own.dsts = Destination /\ own.action = "hijack"
      /\ tun.inbounds = {"core-in", "tun"} /\ tun.dsts = Destination /\ tun.action = "hijack"
      /\ bypass.inbounds = {"core-in", "tun"} /\ bypass.dsts = {"upstream"}
      /\ bypass.action = "direct"
      /\ redirect.inbounds = {"tun"}
  BY <1>2 DEF RouteRule
<1>4. /\ ~setup.frontend => DesktopRules(setup) = <<own, tun>>
      /\ setup.frontend /\ setup.platform = "windows" =>
           DesktopRules(setup) = <<redirect, own, tun>>
      /\ setup.frontend /\ setup.platform # "windows" =>
           DesktopRules(setup) = IF setup.upstreams THEN <<own, bypass, tun>> ELSE <<own, tun>>
  BY <1>1, <1>2, DesktopChains
<1>5. ASSUME NEW q \in Query, q.via = "core-in" PROVE Answered(setup, q) = "hijack"
  <2> DEFINE chain == DesktopRules(setup)
             hits == {i \in DOMAIN chain : q.via \in chain[i].inbounds /\ q.dst \in chain[i].dsts}
  <2>1. q.dst \in Destination BY DEF Query, Destination, Private
  <2>2. Answered(setup, q) = chain[First(hits)].action BY Zenon DEF Answered
  <2>3. CASE setup.frontend /\ setup.platform = "windows"
    <3>1. DOMAIN chain = {1, 2, 3} /\ chain[1] = redirect /\ chain[2] = own BY <1>4, <2>3
    <3> HIDE DEF chain
    <3>2. First(hits) = 2 BY <1>3, <1>5, <2>1, <3>1, FirstIs
    <3> QED BY <1>3, <2>2, <3>1, <3>2
  <2>4. CASE ~(setup.frontend /\ setup.platform = "windows")
    <3>1. DOMAIN chain \in {{1, 2}, {1, 2, 3}} /\ chain[1] = own BY <1>4, <2>4
    <3> HIDE DEF chain
    <3>2. First(hits) = 1 BY <1>3, <1>5, <2>1, <3>1, FirstIs
    <3> QED BY <1>3, <2>2, <3>1, <3>2
  <2> QED BY <2>3, <2>4
<1>6. ASSUME setup.frontend, setup.upstreams
      PROVE  \/ "upstream" \notin InTun(setup)
             \/ Answered(setup, [via |-> "tun", dst |-> "upstream"]) = "direct"
  <2>1. CASE setup.platform \in {"windows", "divert"}
    BY <1>6, <2>1 DEF InTun, RouteExcluded
  <2>2. CASE setup.platform \notin {"windows", "divert"}
    <3> DEFINE q == [via |-> "tun", dst |-> "upstream"]
               chain == DesktopRules(setup)
               hits == {i \in DOMAIN chain : q.via \in chain[i].inbounds /\ q.dst \in chain[i].dsts}
    <3>1. DOMAIN chain = {1, 2, 3} /\ chain[1] = own /\ chain[2] = bypass BY <1>4, <1>6, <2>2
    <3>2. Answered(setup, q) = chain[First(hits)].action BY Zenon DEF Answered
    <3>3. q.via = "tun" /\ q.dst = "upstream" OBVIOUS
    <3> HIDE DEF chain, q
    <3>4. First(hits) = 2 BY <1>3, <3>1, <3>3, FirstIs
    <3>5. Answered(setup, q) = "direct" BY <1>3, <3>1, <3>2, <3>4
    <3> QED BY <3>5 DEF q
  <2> QED BY <2>1, <2>2
<1>7. ASSUME setup.fakeIp
      PROVE  FakeRoutes(setup) \subseteq InTun(setup) \cup UNION setup.exclusions
  <2> SUFFICES ASSUME NEW x \in FakeRoutes(setup), x \notin UNION setup.exclusions
               PROVE  x \in InTun(setup)
    OBVIOUS
  <2>1. x \in {"fake", "fake6"} BY DEF FakeRoutes
  <2>2. x \notin UNION Resolved(setup) BY <1>1, <2>1, ResolvedElements
  <2>3. x \notin RouteExcluded(setup) BY <2>1, <2>2 DEF RouteExcluded
  <2>4. x \in RouteAddress(setup)
    BY <1>7, <2>1 DEF RouteAddress, Everything, Destination
  <2> QED BY <2>3, <2>4 DEF InTun
<1> QED BY <1>5, <1>6, <1>7 DEF DesktopDnsRight

LEMMA InterceptInvHolds == InterceptInv => InterceptionSound
<1> SUFFICES ASSUME InterceptInv PROVE InterceptionSound
  OBVIOUS
<1>1. OwnersKept BY DEF InterceptInv, OwnersStay, TakingDown, OwnersKept
<1> QED BY <1>1, PacketsServed, PacketsNotAstray, PlansRight, QueriesRight DEF InterceptionSound

\* Whatever fails or dies between the check for other owners and the last command of a cleanup,
\* what another program has put up stays; a packet is only marked for a route that is there,
\* unless tables could not be removed; what is served is served as wanted; exactly what has to be
\* spared is; and a desktop's query neither comes back to the frontend nor misses the core.
THEOREM InterceptionCorrect == InterceptSpec => []InterceptionSound
<1>1. InterceptInv /\ [InterceptNext]_interceptVars => InterceptInv' BY InterceptKept
<1> QED BY <1>1, InterceptStarts, InterceptInvHolds, PTL DEF InterceptSpec

(***************************************************************************)
(* GatewayCapture.  A job knows what it has done so far; a reload that is  *)
(* not late has read the script that is there; and what has been applied   *)
(* or withdrawn stays, but for what is amiss.                              *)
(***************************************************************************)
RuleText == [port : Port, list : Nat, offload : BOOLEAN] \cup {NoRules}
CaptureConfigs == [port : Port, enabled : BOOLEAN]
CaptureRouters == [up : BOOLEAN, flowtables : BOOLEAN, taken : BOOLEAN]
ProxyCores == [port : Port, listens : BOOLEAN, enabled : BOOLEAN]
CaptureSteps ==
    {"rest", "build", "route", "rule", "load", "script", "include", "files", "table", "end"}
CaptureJobs ==
    [doing : {"none", "sync", "refresh", "withdraw"}, step : CaptureSteps, text : RuleText,
     before : Nat \cup {NoRules}, failed : BOOLEAN]
Policies == [route : BOOLEAN, rule : BOOLEAN]
Reapplying ==
    [step : {"rest", "read", "route", "rule", "load"}, text : RuleText, late : BOOLEAN]

CaptureTyped ==
    /\ config \in CaptureConfigs /\ router \in CaptureRouters
    /\ proxy \in ProxyCores \cup {NoRules} /\ captureJob \in CaptureJobs
    /\ held \in {"kept", "applied", "withdrawn"}
    /\ script \in RuleText /\ ruleset \in RuleText
    /\ markPolicy \in Policies
    /\ list \in Nat /\ include \in BOOLEAN
    /\ reapply \in Reapplying
    /\ amiss \subseteq {"stale", "lost", "script", "policy"}

\* Rules are put up for the core that is there.
Putting == captureJob.doing \in {"sync", "refresh"}
Taking == captureJob.doing = "withdraw"
Reading == reapply.step \in {"route", "rule", "load"}
JobKnown ==
    /\ ~Working => captureJob = NoJob
    /\ Working => held # "withdrawn"
    /\ Putting =>
         /\ proxy # NoRules
         /\ captureJob.step \in {"build", "route", "rule", "load", "script", "include"}
         /\ captureJob.step # "build" =>
              captureJob.text # NoRules /\ captureJob.text.port = proxy.port
    /\ captureJob.doing = "refresh" => captureJob.before \in Nat
    /\ Taking => captureJob.step \in {"files", "table", "rule", "route", "end"} /\ held = "kept"

\* A text that was replaced or removed since a reload has read it makes the reload late.
ReadKnown ==
    /\ reapply.step = "rest" => reapply = Resting
    /\ Reading => reapply.text # NoRules
    /\ Reading /\ ~reapply.late => reapply.text = script

\* Only a withdrawal takes the policy away, and a reload it meets is late.
PolicyKnown ==
    /\ Putting =>
         /\ captureJob.step \in {"rule", "load", "script", "include"} => markPolicy.route
         /\ captureJob.step \in {"load", "script", "include"} => markPolicy.rule
    /\ reapply.step \in {"rule", "load"} /\ ~reapply.late => markPolicy.route
    /\ reapply.step = "load" /\ ~reapply.late => markPolicy.rule
    /\ ruleset # NoRules /\ "stale" \notin amiss => markPolicy.route /\ markPolicy.rule

Intact == "stale" \notin amiss /\ "lost" \notin amiss
RulesKnown ==
    /\ Putting /\ captureJob.step = "include" => script = captureJob.text
    /\ Putting /\ captureJob.step \in {"script", "include"} /\ Intact /\ reapply = Resting =>
         ruleset = captureJob.text
    /\ held = "applied" /\ proxy # NoRules =>
         /\ script # NoRules /\ script.port = proxy.port /\ include
         /\ markPolicy.route /\ markPolicy.rule
         /\ Intact /\ reapply = Resting => ruleset # NoRules /\ ruleset.port = proxy.port

\* What the steps of a withdrawal have left behind, up to its end and then.
Past(steps) == Taking /\ captureJob.step \in steps
WithdrawalKnown ==
    /\ held = "withdrawn" \/ Past({"table", "rule", "route", "end"}) =>
         /\ "script" \in amiss \/ script = NoRules
         /\ Reading => reapply.late \/ "script" \in amiss
    /\ Past({"rule", "route", "end"}) => "stale" \in amiss \/ ruleset = NoRules
    /\ Past({"route", "end"}) => "policy" \in amiss \/ ~markPolicy.rule
    /\ Past({"end"}) => "policy" \in amiss \/ ~markPolicy.route
    /\ held = "withdrawn" =>
         /\ "script" \in amiss \/ "stale" \in amiss \/ ruleset = NoRules
         /\ "script" \in amiss \/ "policy" \in amiss \/ (~markPolicy.route /\ ~markPolicy.rule)

CaptureInv ==
    CaptureTyped /\ JobKnown /\ ReadKnown /\ PolicyKnown /\ RulesKnown /\ WithdrawalKnown

LEMMA CaptureStarts == CaptureInit => CaptureInv
<1> SUFFICES ASSUME CaptureInit PROVE CaptureInv
  OBVIOUS
<1>1. CaptureTyped
  <2>1. captureJob \in CaptureJobs BY DEF CaptureInit, NoJob, CaptureJobs, CaptureSteps, RuleText
  <2>2. reapply \in Reapplying BY DEF CaptureInit, Resting, Reapplying, RuleText
  <2>3. markPolicy \in Policies BY DEF CaptureInit, NoPolicy, Policies
  <2> QED BY <2>1, <2>2, <2>3 DEF CaptureInit, CaptureTyped, CaptureConfigs, CaptureRouters, RuleText
<1>2. JobKnown /\ ReadKnown /\ PolicyKnown /\ RulesKnown /\ WithdrawalKnown
  BY DEF CaptureInit, NoJob, Resting, JobKnown, ReadKnown, PolicyKnown, RulesKnown,
     WithdrawalKnown, Putting, Taking, Past, Reading, Working
<1> QED BY <1>1, <1>2 DEF CaptureInv

LEMMA JobBegins ==
    ASSUME CaptureTyped, NEW doing \in {"sync", "withdraw"}, NEW step \in CaptureSteps,
           BeginJob(doing, step)
    PROVE  captureJob' \in CaptureJobs /\ captureJob'.doing = doing /\ captureJob'.step = step
BY DEF BeginJob, NoJob, CaptureJobs, CaptureSteps, RuleText, CaptureTyped

LEMMA RestsBetween == NoJob \in CaptureJobs /\ NoJob.doing = "none"
BY DEF NoJob, CaptureJobs, CaptureSteps, RuleText

LEMMA OvertakesTyped ==
    ASSUME CaptureTyped, Overtakes
    PROVE  /\ reapply' \in Reapplying
           /\ reapply'.step = reapply.step /\ reapply'.text = reapply.text
           /\ reapply # Resting => reapply'.late
           /\ reapply = Resting <=> reapply' = Resting
BY DEF Overtakes, CaptureTyped, Reapplying, Resting

LEMMA RulesetIsText == CaptureTyped /\ proxy # NoRules => Ruleset \in RuleText \ {NoRules} /\ Ruleset.port = proxy.port
<1> SUFFICES ASSUME CaptureTyped, proxy # NoRules
             PROVE  Ruleset \in RuleText \ {NoRules} /\ Ruleset.port = proxy.port
  OBVIOUS
<1>1. proxy.port \in Port /\ router.flowtables \in BOOLEAN /\ list \in Nat
  BY DEF CaptureTyped, ProxyCores, CaptureRouters
<1>2. PICK r : r = Ruleset OBVIOUS
<1>3. r \in [port : Port, list : Nat, offload : BOOLEAN] /\ r.port = proxy.port
  BY <1>1, <1>2 DEF Ruleset
<1> QED BY <1>2, <1>3, CaptureAssumption DEF RuleText

LEMMA StartProxyKept == CaptureInv /\ StartProxy => CaptureInv'
<1> SUFFICES ASSUME CaptureInv, StartProxy PROVE CaptureInv'
  OBVIOUS
<1> USE CaptureAssumption, JobBegins DEF StartProxy, HostAlone, CaptureInv, Working,
      Resting, Putting, Taking, Past, Reading
<1>1. CaptureTyped'
  <2> USE DEF CaptureTyped, JobKnown
  <2>1. proxy' \in ProxyCores \cup {NoRules}
    BY DEF ProxyCores, CaptureConfigs
  <2>2. captureJob' \in CaptureJobs
    BY DEF CaptureJobs, CaptureSteps
  <2>3. held' \in {"kept", "applied", "withdrawn"} OBVIOUS
  <2> QED BY <2>1, <2>2, <2>3
<1>p. proxy' \in ProxyCores /\ NoRules \notin ProxyCores
  BY DEF CaptureTyped, ProxyCores, CaptureConfigs
<1>2. JobKnown' BY <1>p DEF CaptureTyped, JobKnown, CaptureJobs, ProxyCores,
      CaptureConfigs, Policies, Reapplying, RuleText, CaptureSteps
<1>3. ReadKnown' BY DEF CaptureTyped, JobKnown, ReadKnown, CaptureJobs, ProxyCores,
      CaptureConfigs, Policies, Reapplying, RuleText, CaptureSteps
<1>4. PolicyKnown' BY DEF CaptureTyped, JobKnown, ReadKnown, PolicyKnown,
      WithdrawalKnown, CaptureJobs, ProxyCores, CaptureConfigs, Policies, Reapplying,
      RuleText, CaptureSteps
<1>5. RulesKnown' BY DEF CaptureTyped, JobKnown, ReadKnown, PolicyKnown, RulesKnown,
      Intact, CaptureJobs, ProxyCores, CaptureConfigs, Policies, Reapplying, RuleText,
      CaptureSteps
<1>6. WithdrawalKnown' BY DEF CaptureTyped, JobKnown, ReadKnown, WithdrawalKnown,
      NoPolicy, CaptureJobs, ProxyCores, CaptureConfigs, Policies, Reapplying, RuleText,
      CaptureSteps
<1> QED BY <1>1, <1>2, <1>3, <1>4, <1>5, <1>6

LEMMA ListenKept == CaptureInv /\ Listen => CaptureInv'
<1> SUFFICES ASSUME CaptureInv, Listen PROVE CaptureInv'
  OBVIOUS
<1> USE CaptureAssumption DEF Listen, HostAlone, CaptureInv, Working, Resting, Putting,
      Taking, Past, Reading
<1>1. CaptureTyped'
  <2> USE DEF CaptureTyped, JobKnown
  <2>1. proxy' \in ProxyCores \cup {NoRules}
    BY DEF ProxyCores, CaptureConfigs
  <2> QED BY <2>1
<1>2. JobKnown' BY DEF CaptureTyped, JobKnown, CaptureJobs, ProxyCores, CaptureConfigs,
      Policies, Reapplying, RuleText, CaptureSteps
<1>3. ReadKnown' BY DEF CaptureTyped, JobKnown, ReadKnown, CaptureJobs, ProxyCores,
      CaptureConfigs, Policies, Reapplying, RuleText, CaptureSteps
<1>4. PolicyKnown' BY DEF CaptureTyped, JobKnown, ReadKnown, PolicyKnown,
      WithdrawalKnown, CaptureJobs, ProxyCores, CaptureConfigs, Policies, Reapplying,
      RuleText, CaptureSteps
<1>5. RulesKnown' BY DEF CaptureTyped, JobKnown, ReadKnown, PolicyKnown, RulesKnown,
      Intact, CaptureJobs, ProxyCores, CaptureConfigs, Policies, Reapplying, RuleText,
      CaptureSteps
<1>6. WithdrawalKnown' BY DEF CaptureTyped, JobKnown, ReadKnown, WithdrawalKnown,
      NoPolicy, CaptureJobs, ProxyCores, CaptureConfigs, Policies, Reapplying, RuleText,
      CaptureSteps
<1> QED BY <1>1, <1>2, <1>3, <1>4, <1>5, <1>6

LEMMA RefreshListKept == CaptureInv /\ RefreshList => CaptureInv'
<1> SUFFICES ASSUME CaptureInv, RefreshList PROVE CaptureInv'
  OBVIOUS
<1> USE CaptureAssumption, RestsBetween DEF RefreshList, World, CaptureInv, Working,
      Resting, Putting, Taking, Past, Reading
<1>1. CaptureTyped'
  <2> USE DEF CaptureTyped, JobKnown
  <2>1. captureJob' \in CaptureJobs
    BY DEF CaptureJobs, CaptureSteps
  <2>2. list' \in Nat
    BY DEF CaptureJobs
  <2> QED BY <2>1, <2>2
<1>2. JobKnown' BY DEF CaptureTyped, JobKnown, CaptureJobs, ProxyCores, CaptureConfigs,
      Policies, Reapplying, RuleText, CaptureSteps
<1>3. ReadKnown' BY DEF CaptureTyped, JobKnown, ReadKnown, CaptureJobs, ProxyCores,
      CaptureConfigs, Policies, Reapplying, RuleText, CaptureSteps
<1>4. PolicyKnown' BY DEF CaptureTyped, JobKnown, ReadKnown, PolicyKnown,
      WithdrawalKnown, CaptureJobs, ProxyCores, CaptureConfigs, Policies, Reapplying,
      RuleText, CaptureSteps
<1>5. RulesKnown' BY DEF CaptureTyped, JobKnown, ReadKnown, PolicyKnown, RulesKnown,
      Intact, CaptureJobs, ProxyCores, CaptureConfigs, Policies, Reapplying, RuleText,
      CaptureSteps
<1>6. WithdrawalKnown' BY DEF CaptureTyped, JobKnown, ReadKnown, WithdrawalKnown,
      NoPolicy, CaptureJobs, ProxyCores, CaptureConfigs, Policies, Reapplying, RuleText,
      CaptureSteps
<1> QED BY <1>1, <1>2, <1>3, <1>4, <1>5, <1>6

LEMMA BuildRulesKept == CaptureInv /\ BuildRules => CaptureInv'
<1> SUFFICES ASSUME CaptureInv, BuildRules PROVE CaptureInv'
  OBVIOUS
<1> USE CaptureAssumption, RulesetIsText DEF BuildRules, HostAlone, World, CaptureInv,
      Working, Resting, Putting, Taking, Past, Reading
<1>1. CaptureTyped'
  <2> USE DEF CaptureTyped, JobKnown
  <2>1. captureJob' \in CaptureJobs
    BY DEF CaptureJobs, CaptureSteps
  <2> QED BY <2>1
<1>2. JobKnown' BY DEF CaptureTyped, JobKnown, CaptureJobs, ProxyCores, CaptureConfigs,
      Policies, Reapplying, RuleText, CaptureSteps
<1>3. ReadKnown' BY DEF CaptureTyped, JobKnown, ReadKnown, CaptureJobs, ProxyCores,
      CaptureConfigs, Policies, Reapplying, RuleText, CaptureSteps
<1>4. PolicyKnown' BY DEF CaptureTyped, JobKnown, ReadKnown, PolicyKnown,
      WithdrawalKnown, CaptureJobs, ProxyCores, CaptureConfigs, Policies, Reapplying,
      RuleText, CaptureSteps
<1>5. RulesKnown' BY DEF CaptureTyped, JobKnown, ReadKnown, PolicyKnown, RulesKnown,
      Intact, CaptureJobs, ProxyCores, CaptureConfigs, Policies, Reapplying, RuleText,
      CaptureSteps
<1>6. WithdrawalKnown' BY DEF CaptureTyped, JobKnown, ReadKnown, WithdrawalKnown,
      NoPolicy, CaptureJobs, ProxyCores, CaptureConfigs, Policies, Reapplying, RuleText,
      CaptureSteps
<1> QED BY <1>1, <1>2, <1>3, <1>4, <1>5, <1>6

LEMMA EnsureRouteKept == CaptureInv /\ EnsureRoute => CaptureInv'
<1> SUFFICES ASSUME CaptureInv, EnsureRoute PROVE CaptureInv'
  OBVIOUS
<1> USE CaptureAssumption DEF EnsureRoute, Advance, World, CaptureInv, Working, Resting,
      Putting, Taking, Past, Reading
<1>1. CaptureTyped'
  <2> USE DEF CaptureTyped, JobKnown
  <2>1. captureJob' \in CaptureJobs
    BY DEF CaptureJobs, CaptureSteps
  <2>2. markPolicy' \in Policies
    BY DEF Policies, NoPolicy
  <2> QED BY <2>1, <2>2
<1>2. JobKnown' BY DEF CaptureTyped, JobKnown, CaptureJobs, ProxyCores, CaptureConfigs,
      Policies, Reapplying, RuleText, CaptureSteps
<1>3. ReadKnown' BY DEF CaptureTyped, JobKnown, ReadKnown, CaptureJobs, ProxyCores,
      CaptureConfigs, Policies, Reapplying, RuleText, CaptureSteps
<1>4. PolicyKnown' BY DEF CaptureTyped, JobKnown, ReadKnown, PolicyKnown,
      WithdrawalKnown, CaptureJobs, ProxyCores, CaptureConfigs, Policies, Reapplying,
      RuleText, CaptureSteps
<1>5. RulesKnown' BY DEF CaptureTyped, JobKnown, ReadKnown, PolicyKnown, RulesKnown,
      Intact, CaptureJobs, ProxyCores, CaptureConfigs, Policies, Reapplying, RuleText,
      CaptureSteps
<1>6. WithdrawalKnown' BY DEF CaptureTyped, JobKnown, ReadKnown, WithdrawalKnown,
      NoPolicy, CaptureJobs, ProxyCores, CaptureConfigs, Policies, Reapplying, RuleText,
      CaptureSteps
<1> QED BY <1>1, <1>2, <1>3, <1>4, <1>5, <1>6

LEMMA EnsureRuleKept == CaptureInv /\ EnsureRule => CaptureInv'
<1> SUFFICES ASSUME CaptureInv, EnsureRule PROVE CaptureInv'
  OBVIOUS
<1> USE CaptureAssumption DEF EnsureRule, Advance, World, CaptureInv, Working, Resting,
      Putting, Taking, Past, Reading
<1>1. CaptureTyped'
  <2> USE DEF CaptureTyped, JobKnown
  <2>1. captureJob' \in CaptureJobs
    BY DEF CaptureJobs, CaptureSteps
  <2>2. markPolicy' \in Policies
    BY DEF Policies, NoPolicy
  <2> QED BY <2>1, <2>2
<1>2. JobKnown' BY DEF CaptureTyped, JobKnown, CaptureJobs, ProxyCores, CaptureConfigs,
      Policies, Reapplying, RuleText, CaptureSteps
<1>3. ReadKnown' BY DEF CaptureTyped, JobKnown, ReadKnown, CaptureJobs, ProxyCores,
      CaptureConfigs, Policies, Reapplying, RuleText, CaptureSteps
<1>4. PolicyKnown' BY DEF CaptureTyped, JobKnown, ReadKnown, PolicyKnown,
      WithdrawalKnown, CaptureJobs, ProxyCores, CaptureConfigs, Policies, Reapplying,
      RuleText, CaptureSteps
<1>5. RulesKnown' BY DEF CaptureTyped, JobKnown, ReadKnown, PolicyKnown, RulesKnown,
      Intact, CaptureJobs, ProxyCores, CaptureConfigs, Policies, Reapplying, RuleText,
      CaptureSteps
<1>6. WithdrawalKnown' BY DEF CaptureTyped, JobKnown, ReadKnown, WithdrawalKnown,
      NoPolicy, CaptureJobs, ProxyCores, CaptureConfigs, Policies, Reapplying, RuleText,
      CaptureSteps
<1> QED BY <1>1, <1>2, <1>3, <1>4, <1>5, <1>6

LEMMA LoadRulesetKept == CaptureInv /\ LoadRuleset => CaptureInv'
<1> SUFFICES ASSUME CaptureInv, LoadRuleset PROVE CaptureInv'
  OBVIOUS
<1> USE CaptureAssumption DEF LoadRuleset, Advance, World, CaptureInv, Working, Resting,
      Putting, Taking, Past, Reading
<1>1. CaptureTyped'
  <2> USE DEF CaptureTyped, JobKnown
  <2>1. captureJob' \in CaptureJobs
    BY DEF CaptureJobs, CaptureSteps
  <2>2. ruleset' \in RuleText
    BY DEF RuleText, CaptureJobs, Reapplying
  <2>3. amiss' \subseteq {"stale", "lost", "script", "policy"} OBVIOUS
  <2> QED BY <2>1, <2>2, <2>3
<1>2. JobKnown' BY DEF CaptureTyped, JobKnown, CaptureJobs, ProxyCores, CaptureConfigs,
      Policies, Reapplying, RuleText, CaptureSteps
<1>3. ReadKnown' BY DEF CaptureTyped, JobKnown, ReadKnown, CaptureJobs, ProxyCores,
      CaptureConfigs, Policies, Reapplying, RuleText, CaptureSteps
<1>4. PolicyKnown' BY DEF CaptureTyped, JobKnown, ReadKnown, PolicyKnown,
      WithdrawalKnown, CaptureJobs, ProxyCores, CaptureConfigs, Policies, Reapplying,
      RuleText, CaptureSteps
<1>5. RulesKnown' BY DEF CaptureTyped, JobKnown, ReadKnown, PolicyKnown, RulesKnown,
      Intact, CaptureJobs, ProxyCores, CaptureConfigs, Policies, Reapplying, RuleText,
      CaptureSteps
<1>6. WithdrawalKnown' BY DEF CaptureTyped, JobKnown, ReadKnown, WithdrawalKnown,
      NoPolicy, CaptureJobs, ProxyCores, CaptureConfigs, Policies, Reapplying, RuleText,
      CaptureSteps
<1> QED BY <1>1, <1>2, <1>3, <1>4, <1>5, <1>6

LEMMA WriteScriptKept == CaptureInv /\ WriteScript => CaptureInv'
<1> SUFFICES ASSUME CaptureInv, WriteScript PROVE CaptureInv'
  OBVIOUS
<1> USE CaptureAssumption, OvertakesTyped DEF WriteScript, Advance, World, CaptureInv,
      Working, Resting, Putting, Taking, Past, Reading
<1>1. CaptureTyped'
  <2> USE DEF CaptureTyped, JobKnown
  <2>1. captureJob' \in CaptureJobs
    BY DEF CaptureJobs, CaptureSteps
  <2>2. script' \in RuleText
    BY DEF RuleText, CaptureJobs
  <2>3. amiss' \subseteq {"stale", "lost", "script", "policy"} OBVIOUS
  <2>4. reapply' \in Reapplying
    BY DEF Reapplying, RuleText, Resting
  <2> QED BY <2>1, <2>2, <2>3, <2>4
<1>2. JobKnown' BY DEF CaptureTyped, JobKnown, CaptureJobs, ProxyCores, CaptureConfigs,
      Policies, Reapplying, RuleText, CaptureSteps
<1>3. ReadKnown' BY DEF CaptureTyped, JobKnown, ReadKnown, CaptureJobs, ProxyCores,
      CaptureConfigs, Policies, Reapplying, RuleText, CaptureSteps
<1>4. PolicyKnown' BY DEF CaptureTyped, JobKnown, ReadKnown, PolicyKnown,
      WithdrawalKnown, CaptureJobs, ProxyCores, CaptureConfigs, Policies, Reapplying,
      RuleText, CaptureSteps
<1>5. RulesKnown' BY DEF CaptureTyped, JobKnown, ReadKnown, PolicyKnown, RulesKnown,
      Intact, CaptureJobs, ProxyCores, CaptureConfigs, Policies, Reapplying, RuleText,
      CaptureSteps
<1>6. WithdrawalKnown' BY DEF CaptureTyped, JobKnown, ReadKnown, WithdrawalKnown,
      NoPolicy, CaptureJobs, ProxyCores, CaptureConfigs, Policies, Reapplying, RuleText,
      CaptureSteps
<1> QED BY <1>1, <1>2, <1>3, <1>4, <1>5, <1>6

LEMMA RegisterIncludeKept == CaptureInv /\ RegisterInclude => CaptureInv'
<1> SUFFICES ASSUME CaptureInv, RegisterInclude PROVE CaptureInv'
  OBVIOUS
<1> USE CaptureAssumption, RestsBetween DEF RegisterInclude, EndJob, World, CaptureInv,
      Working, Resting, Putting, Taking, Past, Reading
<1>1. CaptureTyped'
  <2> USE DEF CaptureTyped, JobKnown
  <2>1. captureJob' \in CaptureJobs
    BY DEF CaptureJobs, CaptureSteps
  <2>2. held' \in {"kept", "applied", "withdrawn"} OBVIOUS
  <2>3. include' \in BOOLEAN OBVIOUS
  <2> QED BY <2>1, <2>2, <2>3
<1>2. JobKnown' BY DEF CaptureTyped, JobKnown, CaptureJobs, ProxyCores, CaptureConfigs,
      Policies, Reapplying, RuleText, CaptureSteps
<1>3. ReadKnown' BY DEF CaptureTyped, JobKnown, ReadKnown, CaptureJobs, ProxyCores,
      CaptureConfigs, Policies, Reapplying, RuleText, CaptureSteps
<1>4. PolicyKnown' BY DEF CaptureTyped, JobKnown, ReadKnown, PolicyKnown,
      WithdrawalKnown, CaptureJobs, ProxyCores, CaptureConfigs, Policies, Reapplying,
      RuleText, CaptureSteps
<1>5. RulesKnown' BY DEF CaptureTyped, JobKnown, ReadKnown, PolicyKnown, RulesKnown,
      Intact, CaptureJobs, ProxyCores, CaptureConfigs, Policies, Reapplying, RuleText,
      CaptureSteps
<1>6. WithdrawalKnown' BY DEF CaptureTyped, JobKnown, ReadKnown, WithdrawalKnown,
      NoPolicy, CaptureJobs, ProxyCores, CaptureConfigs, Policies, Reapplying, RuleText,
      CaptureSteps
<1> QED BY <1>1, <1>2, <1>3, <1>4, <1>5, <1>6

LEMMA SyncFailsKept == CaptureInv /\ SyncFails => CaptureInv'
<1> SUFFICES ASSUME CaptureInv, SyncFails PROVE CaptureInv'
  OBVIOUS
<1> USE CaptureAssumption, RestsBetween DEF SyncFails, EndJob, HostAlone, CaptureFault,
      CaptureInv, Working, Resting, Putting, Taking, Past, Reading
<1>1. CaptureTyped'
  <2> USE DEF CaptureTyped, JobKnown
  <2>1. proxy' \in ProxyCores \cup {NoRules}
    BY DEF ProxyCores, CaptureConfigs
  <2>2. captureJob' \in CaptureJobs
    BY DEF CaptureJobs, CaptureSteps
  <2>3. held' \in {"kept", "applied", "withdrawn"} OBVIOUS
  <2> QED BY <2>1, <2>2, <2>3
<1>2. JobKnown' BY DEF CaptureTyped, JobKnown, CaptureJobs, ProxyCores, CaptureConfigs,
      Policies, Reapplying, RuleText, CaptureSteps
<1>3. ReadKnown' BY DEF CaptureTyped, JobKnown, ReadKnown, CaptureJobs, ProxyCores,
      CaptureConfigs, Policies, Reapplying, RuleText, CaptureSteps
<1>4. PolicyKnown' BY DEF CaptureTyped, JobKnown, ReadKnown, PolicyKnown,
      WithdrawalKnown, CaptureJobs, ProxyCores, CaptureConfigs, Policies, Reapplying,
      RuleText, CaptureSteps
<1>5. RulesKnown' BY DEF CaptureTyped, JobKnown, ReadKnown, PolicyKnown, RulesKnown,
      Intact, CaptureJobs, ProxyCores, CaptureConfigs, Policies, Reapplying, RuleText,
      CaptureSteps
<1>6. WithdrawalKnown' BY DEF CaptureTyped, JobKnown, ReadKnown, WithdrawalKnown,
      NoPolicy, CaptureJobs, ProxyCores, CaptureConfigs, Policies, Reapplying, RuleText,
      CaptureSteps
<1> QED BY <1>1, <1>2, <1>3, <1>4, <1>5, <1>6

LEMMA ListRefreshFailsKept == CaptureInv /\ ListRefreshFails => CaptureInv'
<1> SUFFICES ASSUME CaptureInv, ListRefreshFails PROVE CaptureInv'
  OBVIOUS
<1> USE CaptureAssumption, RestsBetween DEF ListRefreshFails, CaptureFault, CaptureInv,
      Working, Resting, Putting, Taking, Past, Reading
<1>1. CaptureTyped'
  <2> USE DEF CaptureTyped, JobKnown
  <2>1. captureJob' \in CaptureJobs
    BY DEF CaptureJobs, CaptureSteps
  <2>2. list' \in Nat
    BY DEF CaptureJobs
  <2> QED BY <2>1, <2>2
<1>2. JobKnown' BY DEF CaptureTyped, JobKnown, CaptureJobs, ProxyCores, CaptureConfigs,
      Policies, Reapplying, RuleText, CaptureSteps
<1>3. ReadKnown' BY DEF CaptureTyped, JobKnown, ReadKnown, CaptureJobs, ProxyCores,
      CaptureConfigs, Policies, Reapplying, RuleText, CaptureSteps
<1>4. PolicyKnown' BY DEF CaptureTyped, JobKnown, ReadKnown, PolicyKnown,
      WithdrawalKnown, CaptureJobs, ProxyCores, CaptureConfigs, Policies, Reapplying,
      RuleText, CaptureSteps
<1>5. RulesKnown' BY DEF CaptureTyped, JobKnown, ReadKnown, PolicyKnown, RulesKnown,
      Intact, CaptureJobs, ProxyCores, CaptureConfigs, Policies, Reapplying, RuleText,
      CaptureSteps
<1>6. WithdrawalKnown' BY DEF CaptureTyped, JobKnown, ReadKnown, WithdrawalKnown,
      NoPolicy, CaptureJobs, ProxyCores, CaptureConfigs, Policies, Reapplying, RuleText,
      CaptureSteps
<1> QED BY <1>1, <1>2, <1>3, <1>4, <1>5, <1>6

LEMMA ProxyEndsKept == CaptureInv /\ ProxyEnds => CaptureInv'
<1> SUFFICES ASSUME CaptureInv, ProxyEnds PROVE CaptureInv'
  OBVIOUS
<1> USE CaptureAssumption, RestsBetween DEF ProxyEnds, EndJob, HostAlone, CaptureInv,
      Working, Resting, Putting, Taking, Past, Reading
<1>1. CaptureTyped'
  <2> USE DEF CaptureTyped, JobKnown
  <2>1. proxy' \in ProxyCores \cup {NoRules}
    BY DEF ProxyCores, CaptureConfigs
  <2>2. captureJob' \in CaptureJobs
    BY DEF CaptureJobs, CaptureSteps
  <2>3. held' \in {"kept", "applied", "withdrawn"} OBVIOUS
  <2> QED BY <2>1, <2>2, <2>3
<1>2. JobKnown' BY DEF CaptureTyped, JobKnown, CaptureJobs, ProxyCores, CaptureConfigs,
      Policies, Reapplying, RuleText, CaptureSteps
<1>3. ReadKnown' BY DEF CaptureTyped, JobKnown, ReadKnown, CaptureJobs, ProxyCores,
      CaptureConfigs, Policies, Reapplying, RuleText, CaptureSteps
<1>4. PolicyKnown' BY DEF CaptureTyped, JobKnown, ReadKnown, PolicyKnown,
      WithdrawalKnown, CaptureJobs, ProxyCores, CaptureConfigs, Policies, Reapplying,
      RuleText, CaptureSteps
<1>5. RulesKnown' BY DEF CaptureTyped, JobKnown, ReadKnown, PolicyKnown, RulesKnown,
      Intact, CaptureJobs, ProxyCores, CaptureConfigs, Policies, Reapplying, RuleText,
      CaptureSteps
<1>6. WithdrawalKnown' BY DEF CaptureTyped, JobKnown, ReadKnown, WithdrawalKnown,
      NoPolicy, CaptureJobs, ProxyCores, CaptureConfigs, Policies, Reapplying, RuleText,
      CaptureSteps
<1> QED BY <1>1, <1>2, <1>3, <1>4, <1>5, <1>6

LEMMA ReleaseKept == CaptureInv /\ Release => CaptureInv'
<1> SUFFICES ASSUME CaptureInv, Release PROVE CaptureInv'
  OBVIOUS
<1> USE CaptureAssumption, JobBegins DEF Release, HostAlone, CaptureInv, Working,
      Resting, Putting, Taking, Past, Reading
<1>1. CaptureTyped'
  <2> USE DEF CaptureTyped, JobKnown
  <2>1. proxy' \in ProxyCores \cup {NoRules}
    BY DEF ProxyCores, CaptureConfigs
  <2>2. captureJob' \in CaptureJobs
    BY DEF CaptureJobs, CaptureSteps
  <2>3. held' \in {"kept", "applied", "withdrawn"} OBVIOUS
  <2> QED BY <2>1, <2>2, <2>3
<1>2. JobKnown' BY DEF CaptureTyped, JobKnown, CaptureJobs, ProxyCores, CaptureConfigs,
      Policies, Reapplying, RuleText, CaptureSteps
<1>3. ReadKnown' BY DEF CaptureTyped, JobKnown, ReadKnown, CaptureJobs, ProxyCores,
      CaptureConfigs, Policies, Reapplying, RuleText, CaptureSteps
<1>4. PolicyKnown' BY DEF CaptureTyped, JobKnown, ReadKnown, PolicyKnown,
      WithdrawalKnown, CaptureJobs, ProxyCores, CaptureConfigs, Policies, Reapplying,
      RuleText, CaptureSteps
<1>5. RulesKnown' BY DEF CaptureTyped, JobKnown, ReadKnown, PolicyKnown, RulesKnown,
      Intact, CaptureJobs, ProxyCores, CaptureConfigs, Policies, Reapplying, RuleText,
      CaptureSteps
<1>6. WithdrawalKnown' BY DEF CaptureTyped, JobKnown, ReadKnown, WithdrawalKnown,
      NoPolicy, CaptureJobs, ProxyCores, CaptureConfigs, Policies, Reapplying, RuleText,
      CaptureSteps
<1> QED BY <1>1, <1>2, <1>3, <1>4, <1>5, <1>6

LEMMA RemoveFilesKept == CaptureInv /\ RemoveFiles => CaptureInv'
<1> SUFFICES ASSUME CaptureInv, RemoveFiles PROVE CaptureInv'
  OBVIOUS
<1> USE CaptureAssumption, OvertakesTyped DEF RemoveFiles, Withdraw, World, CaptureInv,
      Working, Resting, Putting, Taking, Past, Reading
<1>1. CaptureTyped'
  <2> USE DEF CaptureTyped, JobKnown
  <2>1. captureJob' \in CaptureJobs
    BY DEF CaptureJobs, CaptureSteps
  <2>2. script' \in RuleText
    BY DEF RuleText, CaptureJobs
  <2>3. amiss' \subseteq {"stale", "lost", "script", "policy"} OBVIOUS
  <2>4. reapply' \in Reapplying
    BY DEF Reapplying, RuleText, Resting
  <2> QED BY <2>1, <2>2, <2>3, <2>4
<1>p. /\ captureJob'.doing = "withdraw" /\ captureJob'.step = "table"
      /\ reapply'.step = reapply.step /\ reapply'.text = reapply.text
      /\ reapply # Resting => reapply'.late
  BY DEF CaptureTyped, CaptureJobs
<1>2. JobKnown' BY DEF CaptureTyped, JobKnown, CaptureJobs, ProxyCores, CaptureConfigs,
      Policies, Reapplying, RuleText, CaptureSteps
<1>3. ReadKnown' BY DEF CaptureTyped, JobKnown, ReadKnown, CaptureJobs, ProxyCores,
      CaptureConfigs, Policies, Reapplying, RuleText, CaptureSteps
<1>4. PolicyKnown' BY DEF CaptureTyped, JobKnown, ReadKnown, PolicyKnown,
      WithdrawalKnown, CaptureJobs, ProxyCores, CaptureConfigs, Policies, Reapplying,
      RuleText, CaptureSteps
<1>5. RulesKnown' BY DEF CaptureTyped, JobKnown, ReadKnown, PolicyKnown, RulesKnown,
      Intact, CaptureJobs, ProxyCores, CaptureConfigs, Policies, Reapplying, RuleText,
      CaptureSteps
<1>6. WithdrawalKnown' BY <1>p DEF CaptureTyped, JobKnown, ReadKnown, WithdrawalKnown,
      NoPolicy, CaptureJobs, ProxyCores, CaptureConfigs, Policies, Reapplying, RuleText,
      CaptureSteps
<1> QED BY <1>1, <1>2, <1>3, <1>4, <1>5, <1>6

LEMMA RemoveTableKept == CaptureInv /\ RemoveTable => CaptureInv'
<1> SUFFICES ASSUME CaptureInv, RemoveTable PROVE CaptureInv'
  OBVIOUS
<1> USE CaptureAssumption, OvertakesTyped DEF RemoveTable, Withdraw, World, CaptureInv,
      Working, Resting, Putting, Taking, Past, Reading
<1>1. CaptureTyped'
  <2> USE DEF CaptureTyped, JobKnown
  <2>1. captureJob' \in CaptureJobs
    BY DEF CaptureJobs, CaptureSteps
  <2>2. ruleset' \in RuleText
    BY DEF RuleText, CaptureJobs, Reapplying
  <2>3. amiss' \subseteq {"stale", "lost", "script", "policy"} OBVIOUS
  <2>4. reapply' \in Reapplying
    BY DEF Reapplying, RuleText, Resting
  <2> QED BY <2>1, <2>2, <2>3, <2>4
<1>2. JobKnown' BY DEF CaptureTyped, JobKnown, CaptureJobs, ProxyCores, CaptureConfigs,
      Policies, Reapplying, RuleText, CaptureSteps
<1>3. ReadKnown' BY DEF CaptureTyped, JobKnown, ReadKnown, CaptureJobs, ProxyCores,
      CaptureConfigs, Policies, Reapplying, RuleText, CaptureSteps
<1>4. PolicyKnown' BY DEF CaptureTyped, JobKnown, ReadKnown, PolicyKnown,
      WithdrawalKnown, CaptureJobs, ProxyCores, CaptureConfigs, Policies, Reapplying,
      RuleText, CaptureSteps
<1>5. RulesKnown' BY DEF CaptureTyped, JobKnown, ReadKnown, PolicyKnown, RulesKnown,
      Intact, CaptureJobs, ProxyCores, CaptureConfigs, Policies, Reapplying, RuleText,
      CaptureSteps
<1>6. WithdrawalKnown' BY DEF CaptureTyped, JobKnown, ReadKnown, WithdrawalKnown,
      NoPolicy, CaptureJobs, ProxyCores, CaptureConfigs, Policies, Reapplying, RuleText,
      CaptureSteps
<1> QED BY <1>1, <1>2, <1>3, <1>4, <1>5, <1>6

LEMMA RemoveRuleKept == CaptureInv /\ RemoveRule => CaptureInv'
<1> SUFFICES ASSUME CaptureInv, RemoveRule PROVE CaptureInv'
  OBVIOUS
<1> USE CaptureAssumption, OvertakesTyped DEF RemoveRule, Withdraw, World, CaptureInv,
      Working, Resting, Putting, Taking, Past, Reading
<1>1. CaptureTyped'
  <2> USE DEF CaptureTyped, JobKnown
  <2>1. captureJob' \in CaptureJobs
    BY DEF CaptureJobs, CaptureSteps
  <2>2. markPolicy' \in Policies
    BY DEF Policies, NoPolicy
  <2>3. amiss' \subseteq {"stale", "lost", "script", "policy"} OBVIOUS
  <2>4. reapply' \in Reapplying
    BY DEF Reapplying, RuleText, Resting
  <2> QED BY <2>1, <2>2, <2>3, <2>4
<1>p. /\ captureJob'.doing = "withdraw" /\ captureJob'.step = "route"
      /\ reapply'.step = reapply.step /\ reapply'.text = reapply.text
      /\ reapply # Resting => reapply'.late
  BY DEF CaptureTyped, CaptureJobs
<1>2. JobKnown' BY DEF CaptureTyped, JobKnown, CaptureJobs, ProxyCores, CaptureConfigs,
      Policies, Reapplying, RuleText, CaptureSteps
<1>3. ReadKnown' BY DEF CaptureTyped, JobKnown, ReadKnown, CaptureJobs, ProxyCores,
      CaptureConfigs, Policies, Reapplying, RuleText, CaptureSteps
<1>4. PolicyKnown' BY <1>p DEF CaptureTyped, JobKnown, ReadKnown, PolicyKnown,
      WithdrawalKnown, CaptureJobs, ProxyCores, CaptureConfigs, Policies, Reapplying,
      RuleText, CaptureSteps
<1>5. RulesKnown' BY DEF CaptureTyped, JobKnown, ReadKnown, PolicyKnown, RulesKnown,
      Intact, CaptureJobs, ProxyCores, CaptureConfigs, Policies, Reapplying, RuleText,
      CaptureSteps
<1>6. WithdrawalKnown' BY DEF CaptureTyped, JobKnown, ReadKnown, WithdrawalKnown,
      NoPolicy, CaptureJobs, ProxyCores, CaptureConfigs, Policies, Reapplying, RuleText,
      CaptureSteps
<1> QED BY <1>1, <1>2, <1>3, <1>4, <1>5, <1>6

LEMMA RemoveRouteKept == CaptureInv /\ RemoveRoute => CaptureInv'
<1> SUFFICES ASSUME CaptureInv, RemoveRoute PROVE CaptureInv'
  OBVIOUS
<1> USE CaptureAssumption, OvertakesTyped DEF RemoveRoute, Withdraw, World, CaptureInv,
      Working, Resting, Putting, Taking, Past, Reading
<1>1. CaptureTyped'
  <2> USE DEF CaptureTyped, JobKnown
  <2>1. captureJob' \in CaptureJobs
    BY DEF CaptureJobs, CaptureSteps
  <2>2. markPolicy' \in Policies
    BY DEF Policies, NoPolicy
  <2>3. amiss' \subseteq {"stale", "lost", "script", "policy"} OBVIOUS
  <2>4. reapply' \in Reapplying
    BY DEF Reapplying, RuleText, Resting
  <2> QED BY <2>1, <2>2, <2>3, <2>4
<1>p. /\ captureJob'.doing = "withdraw" /\ captureJob'.step = "end"
      /\ reapply'.step = reapply.step /\ reapply'.text = reapply.text
      /\ reapply # Resting => reapply'.late
  BY DEF CaptureTyped, CaptureJobs
<1>2. JobKnown' BY DEF CaptureTyped, JobKnown, CaptureJobs, ProxyCores, CaptureConfigs,
      Policies, Reapplying, RuleText, CaptureSteps
<1>3. ReadKnown' BY DEF CaptureTyped, JobKnown, ReadKnown, CaptureJobs, ProxyCores,
      CaptureConfigs, Policies, Reapplying, RuleText, CaptureSteps
<1>4. PolicyKnown' BY <1>p DEF CaptureTyped, JobKnown, ReadKnown, PolicyKnown,
      WithdrawalKnown, CaptureJobs, ProxyCores, CaptureConfigs, Policies, Reapplying,
      RuleText, CaptureSteps
<1>5. RulesKnown' BY DEF CaptureTyped, JobKnown, ReadKnown, PolicyKnown, RulesKnown,
      Intact, CaptureJobs, ProxyCores, CaptureConfigs, Policies, Reapplying, RuleText,
      CaptureSteps
<1>6. WithdrawalKnown' BY DEF CaptureTyped, JobKnown, ReadKnown, WithdrawalKnown,
      NoPolicy, CaptureJobs, ProxyCores, CaptureConfigs, Policies, Reapplying, RuleText,
      CaptureSteps
<1> QED BY <1>1, <1>2, <1>3, <1>4, <1>5, <1>6

LEMMA EndWithdrawalKept == CaptureInv /\ EndWithdrawal => CaptureInv'
<1> SUFFICES ASSUME CaptureInv, EndWithdrawal PROVE CaptureInv'
  OBVIOUS
<1> USE CaptureAssumption, RestsBetween DEF EndWithdrawal, EndJob, HostAlone,
      CaptureInv, Working, Resting, Putting, Taking, Past, Reading
<1>1. CaptureTyped'
  <2> USE DEF CaptureTyped, JobKnown
  <2>1. proxy' \in ProxyCores \cup {NoRules}
    BY DEF ProxyCores, CaptureConfigs
  <2>2. captureJob' \in CaptureJobs
    BY DEF CaptureJobs, CaptureSteps
  <2>3. held' \in {"kept", "applied", "withdrawn"} OBVIOUS
  <2> QED BY <2>1, <2>2, <2>3
<1>2. JobKnown' BY DEF CaptureTyped, JobKnown, CaptureJobs, ProxyCores, CaptureConfigs,
      Policies, Reapplying, RuleText, CaptureSteps
<1>3. ReadKnown' BY DEF CaptureTyped, JobKnown, ReadKnown, CaptureJobs, ProxyCores,
      CaptureConfigs, Policies, Reapplying, RuleText, CaptureSteps
<1>4. PolicyKnown' BY DEF CaptureTyped, JobKnown, ReadKnown, PolicyKnown,
      WithdrawalKnown, CaptureJobs, ProxyCores, CaptureConfigs, Policies, Reapplying,
      RuleText, CaptureSteps
<1>5. RulesKnown' BY DEF CaptureTyped, JobKnown, ReadKnown, PolicyKnown, RulesKnown,
      Intact, CaptureJobs, ProxyCores, CaptureConfigs, Policies, Reapplying, RuleText,
      CaptureSteps
<1>6. WithdrawalKnown' BY DEF CaptureTyped, JobKnown, ReadKnown, WithdrawalKnown,
      NoPolicy, CaptureJobs, ProxyCores, CaptureConfigs, Policies, Reapplying, RuleText,
      CaptureSteps
<1> QED BY <1>1, <1>2, <1>3, <1>4, <1>5, <1>6

LEMMA UnregisterKept == CaptureInv /\ Unregister => CaptureInv'
<1> SUFFICES ASSUME CaptureInv, Unregister PROVE CaptureInv'
  OBVIOUS
<1> USE CaptureAssumption DEF Unregister, World, CaptureInv, Working, Resting, Putting,
      Taking, Past, Reading
<1>1. CaptureTyped'
  <2> USE DEF CaptureTyped, JobKnown
  <2>1. include' \in BOOLEAN OBVIOUS
  <2> QED BY <2>1
<1>2. JobKnown' BY DEF CaptureTyped, JobKnown, CaptureJobs, ProxyCores, CaptureConfigs,
      Policies, Reapplying, RuleText, CaptureSteps
<1>3. ReadKnown' BY DEF CaptureTyped, JobKnown, ReadKnown, CaptureJobs, ProxyCores,
      CaptureConfigs, Policies, Reapplying, RuleText, CaptureSteps
<1>4. PolicyKnown' BY DEF CaptureTyped, JobKnown, ReadKnown, PolicyKnown,
      WithdrawalKnown, CaptureJobs, ProxyCores, CaptureConfigs, Policies, Reapplying,
      RuleText, CaptureSteps
<1>5. RulesKnown' BY DEF CaptureTyped, JobKnown, ReadKnown, PolicyKnown, RulesKnown,
      Intact, CaptureJobs, ProxyCores, CaptureConfigs, Policies, Reapplying, RuleText,
      CaptureSteps
<1>6. WithdrawalKnown' BY DEF CaptureTyped, JobKnown, ReadKnown, WithdrawalKnown,
      NoPolicy, CaptureJobs, ProxyCores, CaptureConfigs, Policies, Reapplying, RuleText,
      CaptureSteps
<1> QED BY <1>1, <1>2, <1>3, <1>4, <1>5, <1>6

LEMMA KillRouterDaemonKept == CaptureInv /\ KillRouterDaemon => CaptureInv'
<1> SUFFICES ASSUME CaptureInv, KillRouterDaemon PROVE CaptureInv'
  OBVIOUS
<1> USE CaptureAssumption, RestsBetween DEF KillRouterDaemon, HostAlone, CaptureInv,
      Working, Resting, Putting, Taking, Past, Reading
<1>1. CaptureTyped'
  <2> USE DEF CaptureTyped, JobKnown
  <2>1. router' \in CaptureRouters
    BY DEF CaptureRouters
  <2>2. proxy' \in ProxyCores \cup {NoRules}
    BY DEF ProxyCores, CaptureConfigs
  <2>3. captureJob' \in CaptureJobs
    BY DEF CaptureJobs, CaptureSteps
  <2>4. held' \in {"kept", "applied", "withdrawn"} OBVIOUS
  <2> QED BY <2>1, <2>2, <2>3, <2>4
<1>2. JobKnown' BY DEF CaptureTyped, JobKnown, CaptureJobs, ProxyCores, CaptureConfigs,
      Policies, Reapplying, RuleText, CaptureSteps
<1>3. ReadKnown' BY DEF CaptureTyped, JobKnown, ReadKnown, CaptureJobs, ProxyCores,
      CaptureConfigs, Policies, Reapplying, RuleText, CaptureSteps
<1>4. PolicyKnown' BY DEF CaptureTyped, JobKnown, ReadKnown, PolicyKnown,
      WithdrawalKnown, CaptureJobs, ProxyCores, CaptureConfigs, Policies, Reapplying,
      RuleText, CaptureSteps
<1>5. RulesKnown' BY DEF CaptureTyped, JobKnown, ReadKnown, PolicyKnown, RulesKnown,
      Intact, CaptureJobs, ProxyCores, CaptureConfigs, Policies, Reapplying, RuleText,
      CaptureSteps
<1>6. WithdrawalKnown' BY DEF CaptureTyped, JobKnown, ReadKnown, WithdrawalKnown,
      NoPolicy, CaptureJobs, ProxyCores, CaptureConfigs, Policies, Reapplying, RuleText,
      CaptureSteps
<1> QED BY <1>1, <1>2, <1>3, <1>4, <1>5, <1>6

LEMMA RouterDaemonStartsKept == CaptureInv /\ RouterDaemonStarts => CaptureInv'
<1> SUFFICES ASSUME CaptureInv, RouterDaemonStarts PROVE CaptureInv'
  OBVIOUS
<1> USE CaptureAssumption DEF RouterDaemonStarts, HostAlone, CaptureInv, Working,
      Resting, Putting, Taking, Past, Reading
<1>1. CaptureTyped'
  <2> USE DEF CaptureTyped, JobKnown
  <2>1. router' \in CaptureRouters
    BY DEF CaptureRouters
  <2> QED BY <2>1
<1>2. JobKnown' BY DEF CaptureTyped, JobKnown, CaptureJobs, ProxyCores, CaptureConfigs,
      Policies, Reapplying, RuleText, CaptureSteps
<1>3. ReadKnown' BY DEF CaptureTyped, JobKnown, ReadKnown, CaptureJobs, ProxyCores,
      CaptureConfigs, Policies, Reapplying, RuleText, CaptureSteps
<1>4. PolicyKnown' BY DEF CaptureTyped, JobKnown, ReadKnown, PolicyKnown,
      WithdrawalKnown, CaptureJobs, ProxyCores, CaptureConfigs, Policies, Reapplying,
      RuleText, CaptureSteps
<1>5. RulesKnown' BY DEF CaptureTyped, JobKnown, ReadKnown, PolicyKnown, RulesKnown,
      Intact, CaptureJobs, ProxyCores, CaptureConfigs, Policies, Reapplying, RuleText,
      CaptureSteps
<1>6. WithdrawalKnown' BY DEF CaptureTyped, JobKnown, ReadKnown, WithdrawalKnown,
      NoPolicy, CaptureJobs, ProxyCores, CaptureConfigs, Policies, Reapplying, RuleText,
      CaptureSteps
<1> QED BY <1>1, <1>2, <1>3, <1>4, <1>5, <1>6

LEMMA RebootKept == CaptureInv /\ Reboot => CaptureInv'
<1> SUFFICES ASSUME CaptureInv, Reboot PROVE CaptureInv'
  OBVIOUS
<1> USE CaptureAssumption, RestsBetween DEF Reboot, CaptureInv, Working, Resting,
      Putting, Taking, Past, Reading
<1>1. CaptureTyped'
  <2> USE DEF CaptureTyped, JobKnown
  <2>1. router' \in CaptureRouters
    BY DEF CaptureRouters
  <2>2. proxy' \in ProxyCores \cup {NoRules}
    BY DEF ProxyCores, CaptureConfigs
  <2>3. captureJob' \in CaptureJobs
    BY DEF CaptureJobs, CaptureSteps
  <2>4. script' \in RuleText
    BY DEF RuleText, CaptureJobs
  <2>5. ruleset' \in RuleText
    BY DEF RuleText, CaptureJobs, Reapplying
  <2>6. markPolicy' \in Policies
    BY DEF Policies, NoPolicy
  <2>7. reapply' \in Reapplying
    BY DEF Reapplying, RuleText, Resting
  <2>8. held' \in {"kept", "applied", "withdrawn"} OBVIOUS
  <2>9. amiss' \subseteq {"stale", "lost", "script", "policy"} OBVIOUS
  <2> QED BY <2>1, <2>2, <2>3, <2>4, <2>5, <2>6, <2>7, <2>8, <2>9
<1>2. JobKnown' BY DEF CaptureTyped, JobKnown, CaptureJobs, ProxyCores, CaptureConfigs,
      Policies, Reapplying, RuleText, CaptureSteps
<1>3. ReadKnown' BY DEF CaptureTyped, JobKnown, ReadKnown, CaptureJobs, ProxyCores,
      CaptureConfigs, Policies, Reapplying, RuleText, CaptureSteps
<1>4. PolicyKnown' BY DEF CaptureTyped, JobKnown, ReadKnown, PolicyKnown,
      WithdrawalKnown, CaptureJobs, ProxyCores, CaptureConfigs, Policies, Reapplying,
      RuleText, CaptureSteps
<1>5. RulesKnown' BY DEF CaptureTyped, JobKnown, ReadKnown, PolicyKnown, RulesKnown,
      Intact, CaptureJobs, ProxyCores, CaptureConfigs, Policies, Reapplying, RuleText,
      CaptureSteps
<1>6. WithdrawalKnown' BY DEF CaptureTyped, JobKnown, ReadKnown, WithdrawalKnown,
      NoPolicy, CaptureJobs, ProxyCores, CaptureConfigs, Policies, Reapplying, RuleText,
      CaptureSteps
<1> QED BY <1>1, <1>2, <1>3, <1>4, <1>5, <1>6

LEMMA RecompileKept == CaptureInv /\ Recompile => CaptureInv'
<1> SUFFICES ASSUME CaptureInv, Recompile PROVE CaptureInv'
  OBVIOUS
<1> USE CaptureAssumption DEF Recompile, HostAlone, CaptureInv, Working, Resting,
      Putting, Taking, Past, Reading
<1>1. CaptureTyped'
  <2> USE DEF CaptureTyped, JobKnown
  <2>1. config' \in CaptureConfigs
    BY DEF CaptureConfigs
  <2> QED BY <2>1
<1>2. JobKnown' BY DEF CaptureTyped, JobKnown, CaptureJobs, ProxyCores, CaptureConfigs,
      Policies, Reapplying, RuleText, CaptureSteps
<1>3. ReadKnown' BY DEF CaptureTyped, JobKnown, ReadKnown, CaptureJobs, ProxyCores,
      CaptureConfigs, Policies, Reapplying, RuleText, CaptureSteps
<1>4. PolicyKnown' BY DEF CaptureTyped, JobKnown, ReadKnown, PolicyKnown,
      WithdrawalKnown, CaptureJobs, ProxyCores, CaptureConfigs, Policies, Reapplying,
      RuleText, CaptureSteps
<1>5. RulesKnown' BY DEF CaptureTyped, JobKnown, ReadKnown, PolicyKnown, RulesKnown,
      Intact, CaptureJobs, ProxyCores, CaptureConfigs, Policies, Reapplying, RuleText,
      CaptureSteps
<1>6. WithdrawalKnown' BY DEF CaptureTyped, JobKnown, ReadKnown, WithdrawalKnown,
      NoPolicy, CaptureJobs, ProxyCores, CaptureConfigs, Policies, Reapplying, RuleText,
      CaptureSteps
<1> QED BY <1>1, <1>2, <1>3, <1>4, <1>5, <1>6

LEMMA FirewallReloadKept == CaptureInv /\ FirewallReload => CaptureInv'
<1> SUFFICES ASSUME CaptureInv, FirewallReload PROVE CaptureInv'
  OBVIOUS
<1> USE CaptureAssumption DEF FirewallReload, CaptureInv, Working, Resting, Putting,
      Taking, Past, Reading
<1>1. CaptureTyped'
  <2> USE DEF CaptureTyped, JobKnown
  <2>1. ruleset' \in RuleText
    BY DEF RuleText, CaptureJobs, Reapplying
  <2>2. reapply' \in Reapplying
    BY DEF Reapplying, RuleText, Resting
  <2>3. amiss' \subseteq {"stale", "lost", "script", "policy"} OBVIOUS
  <2> QED BY <2>1, <2>2, <2>3
<1>2. JobKnown' BY DEF CaptureTyped, JobKnown, CaptureJobs, ProxyCores, CaptureConfigs,
      Policies, Reapplying, RuleText, CaptureSteps
<1>3. ReadKnown' BY DEF CaptureTyped, JobKnown, ReadKnown, CaptureJobs, ProxyCores,
      CaptureConfigs, Policies, Reapplying, RuleText, CaptureSteps
<1>4. PolicyKnown' BY DEF CaptureTyped, JobKnown, ReadKnown, PolicyKnown,
      WithdrawalKnown, CaptureJobs, ProxyCores, CaptureConfigs, Policies, Reapplying,
      RuleText, CaptureSteps
<1>5. RulesKnown' BY DEF CaptureTyped, JobKnown, ReadKnown, PolicyKnown, RulesKnown,
      Intact, CaptureJobs, ProxyCores, CaptureConfigs, Policies, Reapplying, RuleText,
      CaptureSteps
<1>6. WithdrawalKnown' BY DEF CaptureTyped, JobKnown, ReadKnown, WithdrawalKnown,
      NoPolicy, CaptureJobs, ProxyCores, CaptureConfigs, Policies, Reapplying, RuleText,
      CaptureSteps
<1> QED BY <1>1, <1>2, <1>3, <1>4, <1>5, <1>6

LEMMA ReadScriptKept == CaptureInv /\ ReadScript => CaptureInv'
<1> SUFFICES ASSUME CaptureInv, ReadScript PROVE CaptureInv'
  OBVIOUS
<1> USE CaptureAssumption DEF ReadScript, DaemonAlone, CaptureInv, Working, Resting,
      Putting, Taking, Past, Reading
<1>1. CaptureTyped'
  <2> USE DEF CaptureTyped, JobKnown
  <2>1. reapply' \in Reapplying
    BY DEF Reapplying, RuleText, Resting
  <2>2. amiss' \subseteq {"stale", "lost", "script", "policy"} OBVIOUS
  <2> QED BY <2>1, <2>2
<1>2. JobKnown' BY DEF CaptureTyped, JobKnown, CaptureJobs, ProxyCores, CaptureConfigs,
      Policies, Reapplying, RuleText, CaptureSteps
<1>3. ReadKnown' BY DEF CaptureTyped, JobKnown, ReadKnown, CaptureJobs, ProxyCores,
      CaptureConfigs, Policies, Reapplying, RuleText, CaptureSteps
<1>4. PolicyKnown' BY DEF CaptureTyped, JobKnown, ReadKnown, PolicyKnown,
      WithdrawalKnown, CaptureJobs, ProxyCores, CaptureConfigs, Policies, Reapplying,
      RuleText, CaptureSteps
<1>5. RulesKnown' BY DEF CaptureTyped, JobKnown, ReadKnown, PolicyKnown, RulesKnown,
      Intact, CaptureJobs, ProxyCores, CaptureConfigs, Policies, Reapplying, RuleText,
      CaptureSteps
<1>6. WithdrawalKnown' BY DEF CaptureTyped, JobKnown, ReadKnown, WithdrawalKnown,
      NoPolicy, CaptureJobs, ProxyCores, CaptureConfigs, Policies, Reapplying, RuleText,
      CaptureSteps
<1> QED BY <1>1, <1>2, <1>3, <1>4, <1>5, <1>6

LEMMA ReapplyRouteKept == CaptureInv /\ ReapplyRoute => CaptureInv'
<1> SUFFICES ASSUME CaptureInv, ReapplyRoute PROVE CaptureInv'
  OBVIOUS
<1> USE CaptureAssumption DEF ReapplyRoute, ReapplyPolicy, DaemonAlone, Overtaken,
      CaptureInv, Working, Resting, Putting, Taking, Past, Reading
<1>1. CaptureTyped'
  <2> USE DEF CaptureTyped, JobKnown
  <2>1. markPolicy' \in Policies
    BY DEF Policies, NoPolicy
  <2>2. reapply' \in Reapplying
    BY DEF Reapplying, RuleText, Resting
  <2>3. amiss' \subseteq {"stale", "lost", "script", "policy"} OBVIOUS
  <2> QED BY <2>1, <2>2, <2>3
<1>2. JobKnown' BY DEF CaptureTyped, JobKnown, CaptureJobs, ProxyCores, CaptureConfigs,
      Policies, Reapplying, RuleText, CaptureSteps
<1>3. ReadKnown' BY DEF CaptureTyped, JobKnown, ReadKnown, CaptureJobs, ProxyCores,
      CaptureConfigs, Policies, Reapplying, RuleText, CaptureSteps
<1>4. PolicyKnown' BY DEF CaptureTyped, JobKnown, ReadKnown, PolicyKnown,
      WithdrawalKnown, CaptureJobs, ProxyCores, CaptureConfigs, Policies, Reapplying,
      RuleText, CaptureSteps
<1>5. RulesKnown' BY DEF CaptureTyped, JobKnown, ReadKnown, PolicyKnown, RulesKnown,
      Intact, CaptureJobs, ProxyCores, CaptureConfigs, Policies, Reapplying, RuleText,
      CaptureSteps
<1>6. WithdrawalKnown' BY DEF CaptureTyped, JobKnown, ReadKnown, WithdrawalKnown,
      NoPolicy, CaptureJobs, ProxyCores, CaptureConfigs, Policies, Reapplying, RuleText,
      CaptureSteps
<1> QED BY <1>1, <1>2, <1>3, <1>4, <1>5, <1>6

LEMMA ReapplyRuleKept == CaptureInv /\ ReapplyRule => CaptureInv'
<1> SUFFICES ASSUME CaptureInv, ReapplyRule PROVE CaptureInv'
  OBVIOUS
<1> USE CaptureAssumption DEF ReapplyRule, ReapplyPolicy, DaemonAlone, Overtaken,
      CaptureInv, Working, Resting, Putting, Taking, Past, Reading
<1>1. CaptureTyped'
  <2> USE DEF CaptureTyped, JobKnown
  <2>1. markPolicy' \in Policies
    BY DEF Policies, NoPolicy
  <2>2. reapply' \in Reapplying
    BY DEF Reapplying, RuleText, Resting
  <2>3. amiss' \subseteq {"stale", "lost", "script", "policy"} OBVIOUS
  <2> QED BY <2>1, <2>2, <2>3
<1>2. JobKnown' BY DEF CaptureTyped, JobKnown, CaptureJobs, ProxyCores, CaptureConfigs,
      Policies, Reapplying, RuleText, CaptureSteps
<1>3. ReadKnown' BY DEF CaptureTyped, JobKnown, ReadKnown, CaptureJobs, ProxyCores,
      CaptureConfigs, Policies, Reapplying, RuleText, CaptureSteps
<1>4. PolicyKnown' BY DEF CaptureTyped, JobKnown, ReadKnown, PolicyKnown,
      WithdrawalKnown, CaptureJobs, ProxyCores, CaptureConfigs, Policies, Reapplying,
      RuleText, CaptureSteps
<1>5. RulesKnown' BY DEF CaptureTyped, JobKnown, ReadKnown, PolicyKnown, RulesKnown,
      Intact, CaptureJobs, ProxyCores, CaptureConfigs, Policies, Reapplying, RuleText,
      CaptureSteps
<1>6. WithdrawalKnown' BY DEF CaptureTyped, JobKnown, ReadKnown, WithdrawalKnown,
      NoPolicy, CaptureJobs, ProxyCores, CaptureConfigs, Policies, Reapplying, RuleText,
      CaptureSteps
<1> QED BY <1>1, <1>2, <1>3, <1>4, <1>5, <1>6

LEMMA ReloadScriptKept == CaptureInv /\ ReloadScript => CaptureInv'
<1> SUFFICES ASSUME CaptureInv, ReloadScript PROVE CaptureInv'
  OBVIOUS
<1> USE CaptureAssumption DEF ReloadScript, DaemonAlone, Overtaken, CaptureInv, Working,
      Resting, Putting, Taking, Past, Reading
<1>1. CaptureTyped'
  <2> USE DEF CaptureTyped, JobKnown
  <2>1. ruleset' \in RuleText
    BY DEF RuleText, CaptureJobs, Reapplying
  <2>2. reapply' \in Reapplying
    BY DEF Reapplying, RuleText, Resting
  <2>3. amiss' \subseteq {"stale", "lost", "script", "policy"} OBVIOUS
  <2> QED BY <2>1, <2>2, <2>3
<1>2. JobKnown' BY DEF CaptureTyped, JobKnown, CaptureJobs, ProxyCores, CaptureConfigs,
      Policies, Reapplying, RuleText, CaptureSteps
<1>3. ReadKnown' BY DEF CaptureTyped, JobKnown, ReadKnown, CaptureJobs, ProxyCores,
      CaptureConfigs, Policies, Reapplying, RuleText, CaptureSteps
<1>4. PolicyKnown' BY DEF CaptureTyped, JobKnown, ReadKnown, PolicyKnown,
      WithdrawalKnown, CaptureJobs, ProxyCores, CaptureConfigs, Policies, Reapplying,
      RuleText, CaptureSteps
<1>5. RulesKnown' BY DEF CaptureTyped, JobKnown, ReadKnown, PolicyKnown, RulesKnown,
      Intact, CaptureJobs, ProxyCores, CaptureConfigs, Policies, Reapplying, RuleText,
      CaptureSteps
<1>6. WithdrawalKnown' BY DEF CaptureTyped, JobKnown, ReadKnown, WithdrawalKnown,
      NoPolicy, CaptureJobs, ProxyCores, CaptureConfigs, Policies, Reapplying, RuleText,
      CaptureSteps
<1> QED BY <1>1, <1>2, <1>3, <1>4, <1>5, <1>6

LEMMA ReapplyFailsKept == CaptureInv /\ ReapplyFails => CaptureInv'
<1> SUFFICES ASSUME CaptureInv, ReapplyFails PROVE CaptureInv'
  OBVIOUS
<1> USE CaptureAssumption DEF ReapplyFails, DaemonAlone, CaptureInv, Working, Resting,
      Putting, Taking, Past, Reading
<1>1. CaptureTyped'
  <2> USE DEF CaptureTyped, JobKnown
  <2>1. reapply' \in Reapplying
    BY DEF Reapplying, RuleText, Resting
  <2>2. amiss' \subseteq {"stale", "lost", "script", "policy"} OBVIOUS
  <2> QED BY <2>1, <2>2
<1>2. JobKnown' BY DEF CaptureTyped, JobKnown, CaptureJobs, ProxyCores, CaptureConfigs,
      Policies, Reapplying, RuleText, CaptureSteps
<1>3. ReadKnown' BY DEF CaptureTyped, JobKnown, ReadKnown, CaptureJobs, ProxyCores,
      CaptureConfigs, Policies, Reapplying, RuleText, CaptureSteps
<1>4. PolicyKnown' BY DEF CaptureTyped, JobKnown, ReadKnown, PolicyKnown,
      WithdrawalKnown, CaptureJobs, ProxyCores, CaptureConfigs, Policies, Reapplying,
      RuleText, CaptureSteps
<1>5. RulesKnown' BY DEF CaptureTyped, JobKnown, ReadKnown, PolicyKnown, RulesKnown,
      Intact, CaptureJobs, ProxyCores, CaptureConfigs, Policies, Reapplying, RuleText,
      CaptureSteps
<1>6. WithdrawalKnown' BY DEF CaptureTyped, JobKnown, ReadKnown, WithdrawalKnown,
      NoPolicy, CaptureJobs, ProxyCores, CaptureConfigs, Policies, Reapplying, RuleText,
      CaptureSteps
<1> QED BY <1>1, <1>2, <1>3, <1>4, <1>5, <1>6

LEMMA CaptureAside == CaptureInv /\ UNCHANGED captureVars => CaptureInv'
BY DEF captureVars, CaptureInv, CaptureTyped, JobKnown, ReadKnown, PolicyKnown, RulesKnown, Intact,
   WithdrawalKnown, Putting, Taking, Past, Reading, Working

LEMMA CaptureKept == CaptureInv /\ [CaptureNext]_captureVars => CaptureInv'
BY Zenon, CaptureAside, StartProxyKept, ListenKept, RefreshListKept, BuildRulesKept,
      EnsureRouteKept, EnsureRuleKept, LoadRulesetKept, WriteScriptKept,
      RegisterIncludeKept, SyncFailsKept, ListRefreshFailsKept, ProxyEndsKept,
      ReleaseKept, RemoveFilesKept, RemoveTableKept, RemoveRuleKept, RemoveRouteKept,
      EndWithdrawalKept, UnregisterKept, KillRouterDaemonKept, RouterDaemonStartsKept,
      RebootKept, RecompileKept, FirewallReloadKept, ReadScriptKept, ReapplyRouteKept,
      ReapplyRuleKept, ReloadScriptKept, ReapplyFailsKept
   DEF CaptureNext

\* What is accelerated is to an address that is not to be proxied, or bypasses the proxy.
LEMMA OffloadIsDirect == OffloadOnlyDirect
BY DEF OffloadOnlyDirect, Accelerated, Proxied, Flow

LEMMA CaptureInvHolds == CaptureInv => CaptureHolds
<1> SUFFICES ASSUME CaptureInv PROVE CaptureHolds
  OBVIOUS
<1>1. RulesLeadToCore
  BY DEF CaptureInv, RulesKnown, Intact, RulesLeadToCore, CaptureSettled, Spoiled
<1>2. WithdrawnStays
  <2> SUFFICES ASSUME CaptureSettled, held = "withdrawn" PROVE
         /\ ~Spoiled({"script"}) => script = NoRules
         /\ ~Spoiled({"script", "stale"}) => ruleset = NoRules
         /\ ~Spoiled({"script", "policy"}) => markPolicy = NoPolicy
    BY DEF WithdrawnStays
  <2>1. ~markPolicy.route /\ ~markPolicy.rule => markPolicy = NoPolicy
    BY DEF CaptureInv, CaptureTyped, Policies, NoPolicy
  <2> QED BY <2>1 DEF CaptureInv, WithdrawalKnown, Spoiled
<1>3. PolicyBeforeRules
  BY DEF CaptureInv, PolicyKnown, PolicyBeforeRules, Spoiled
<1> QED BY <1>1, <1>2, <1>3, OffloadIsDirect DEF CaptureHolds

\* Jobs and reloads of the firewall overlap as they like, and any command of either may fail.
\* While a core serves, the rules lead to its port and a policy route is there, unless the last
\* reload failed, came before the first script or put back a text that a job had replaced.  After
\* a withdrawal no later reload brings anything back, unless a command of it failed; a reload
\* that had read the script before does.  A packet is marked only for a policy that is there,
\* unless a withdrawal could not remove the table or such a reload put it back.  And, in any
\* case, what is accelerated was not to be proxied.
THEOREM CaptureCorrect == CaptureSpec => []CaptureHolds
<1>1. CaptureInv /\ [CaptureNext]_captureVars => CaptureInv' BY CaptureKept
<1> QED BY <1>1, CaptureStarts, CaptureInvHolds, PTL DEF CaptureSpec

(***************************************************************************)
(* What an induction over a number, or over the length of a list, rests    *)
(* on: it is stated of a least counterexample.                             *)
(***************************************************************************)
\* Every set of natural numbers has a least one: that of the segments below them which is
\* minimal for inclusion ends there.
LEMMA LeastNatural ==
    ASSUME NEW numbers, numbers \subseteq Nat, numbers # {}
    PROVE  \E m \in numbers : \A k \in numbers : m <= k
<1> DEFINE below == {0..k : k \in numbers}
<1>1. below \subseteq FiniteSubsetsOf(Nat)
  <2>1. \A k \in Nat : 0..k \subseteq Nat /\ IsFiniteSet(0..k)
    BY FS_Interval
  <2> QED BY <2>1 DEF FiniteSubsetsOf
<1>2. IsWellFoundedOn(StrictSubsetOrdering(Nat), FiniteSubsetsOf(Nat))
  BY FS_StrictSubsetOrderingWellFounded
<1>3. below # {} OBVIOUS
<1>4. PICK x \in below : \A y \in below : ~(<<y, x>> \in StrictSubsetOrdering(Nat))
  <2> HIDE DEF below
  <2> QED BY <1>1, <1>2, <1>3, WFMin
<1>5. PICK m \in numbers : x = 0..m BY <1>4
<1>6. ASSUME NEW k \in numbers, k < m PROVE FALSE
  <2>1. 0..k \in below OBVIOUS
  <2>2. 0..k \subseteq 0..m /\ m \notin 0..k /\ m \in 0..m BY <1>6
  <2>3. <<0..k, 0..m>> \in StrictSubsetOrdering(Nat)
    <3>1. 0..k \in SUBSET Nat /\ 0..m \in SUBSET Nat OBVIOUS
    <3>2. 0..k # 0..m BY <2>2
    <3> HIDE DEF below
    <3> QED BY <2>2, <3>1, <3>2 DEF StrictSubsetOrdering
  <2> QED BY <1>4, <1>5, <2>1, <2>3
<1> QED BY <1>6

(***************************************************************************)
(* Traffic.  A total is a fold over a finite domain.  Its partial sums     *)
(* take the elements of a set in the order CHOOSE gives them; what a sum   *)
(* is does not show it.                                                    *)
(***************************************************************************)
Some(s) == CHOOSE x \in s : TRUE
SumUp(g, f) ==
    g = [s \in SUBSET DOMAIN f |-> IF s = {} THEN 0 ELSE f[Some(s)] + g[s \ {Some(s)}]]
Sums(f) == CHOOSE g : SumUp(g, f)

LEMMA TotalIsLast == ASSUME NEW f PROVE Total(f) = Sums(f)[DOMAIN f]
BY DEF Total, Sums, SumUp, Some, FoldFunction, FoldFunctionOnSet, MapThenFoldSet

LEMMA SomeIsIn == ASSUME NEW s, s # {} PROVE Some(s) \in s
BY DEF Some

\* A set of subsets has one that no removal of an element leaves in the set.
LEMMA SmallestSubset ==
    ASSUME NEW S, IsFiniteSet(S), NEW bad \in SUBSET SUBSET S, bad # {}
    PROVE  \E s \in bad : \A x \in s : s \ {x} \notin bad
<1> DEFINE sizes == {Cardinality(s) : s \in bad}
<1>1. \A s \in SUBSET S : IsFiniteSet(s) /\ Cardinality(s) \in Nat
  BY FS_Subset, FS_CardinalityType
<1>2. sizes \subseteq Nat /\ sizes # {} BY <1>1
<1>3. PICK n \in sizes : \A k \in sizes : n <= k
  <2> HIDE DEF sizes
  <2> QED BY <1>2, LeastNatural
<1>4. PICK s \in bad : Cardinality(s) = n BY <1>3
<1>5. ASSUME NEW x \in s, s \ {x} \in bad PROVE FALSE
  <2>1. Cardinality(s \ {x}) = n - 1 BY <1>1, <1>4, FS_RemoveElement
  <2>2. n - 1 \in sizes /\ n \in Nat BY <1>2, <1>5, <2>1
  <2> HIDE DEF sizes
  <2> QED BY <1>3, <2>2
<1> QED BY <1>4, <1>5

LEMMA SumsExist ==
    ASSUME NEW S, IsFiniteSet(S), NEW f \in [S -> Nat]
    PROVE  \E g : SumUp(g, f)
<1> DEFINE Small(n) == {s \in SUBSET S : Cardinality(s) <= n}
           Follows(g, n) == g = [s \in Small(n) |->
                                   IF s = {} THEN 0 ELSE f[Some(s)] + g[s \ {Some(s)}]]
           short == {n \in Nat : ~\E g : Follows(g, n)}
<1>1. \A s \in SUBSET S : IsFiniteSet(s) /\ Cardinality(s) \in Nat
  BY FS_Subset, FS_CardinalityType
<1>2. \E g : Follows(g, 0)
  <2>1. \A s \in Small(0) : s = {} BY <1>1, FS_EmptySet
  <2>2. Follows([s \in Small(0) |-> 0], 0) BY <2>1
  <2> HIDE DEF Follows
  <2> QED BY <2>2
<1>3. ASSUME NEW n \in Nat, \E g : Follows(g, n) PROVE \E g : Follows(g, n + 1)
  <2>1. PICK g : Follows(g, n) BY <1>3
  <2> DEFINE h == [s \in Small(n + 1) |->
                     IF s = {} THEN 0 ELSE f[Some(s)] + g[s \ {Some(s)}]]
  <2>2. ASSUME NEW s \in Small(n + 1), s # {} PROVE s \ {Some(s)} \in Small(n)
    <3>1. Some(s) \in s /\ IsFiniteSet(s) /\ Cardinality(s) \in Nat
      BY <1>1, <2>2, SomeIsIn
    <3>2. Cardinality(s \ {Some(s)}) = Cardinality(s) - 1 BY <3>1, FS_RemoveElement
    <3> QED BY <3>1, <3>2
  <2>3. ASSUME NEW s \in Small(n) PROVE h[s] = g[s]
    <3>1. s \in Small(n + 1) BY <1>1, <2>3
    <3>2. g[s] = IF s = {} THEN 0 ELSE f[Some(s)] + g[s \ {Some(s)}] BY <2>1
    <3> QED BY <3>1, <3>2
  <2>4. ASSUME NEW s \in Small(n + 1)
        PROVE  h[s] = IF s = {} THEN 0 ELSE f[Some(s)] + h[s \ {Some(s)}]
    <3>1. h[s] = IF s = {} THEN 0 ELSE f[Some(s)] + g[s \ {Some(s)}] OBVIOUS
    <3> HIDE DEF h, Small
    <3> QED BY <2>2, <2>3, <3>1
  <2>5. h = [s \in Small(n + 1) |-> h[s]] OBVIOUS
  <2>6. Follows(h, n + 1)
    <3> HIDE DEF h, Small
    <3> QED BY <2>4, <2>5
  <2> HIDE DEF Follows
  <2> QED BY <2>6
<1>4. short = {}
  <2>1. short \subseteq Nat OBVIOUS
  <2> SUFFICES ASSUME short # {} PROVE FALSE OBVIOUS
  <2>2. PICK m \in short : \A k \in short : m <= k
    <3> HIDE DEF short
    <3> QED BY <2>1, LeastNatural
  <2>3. m # 0
    <3> HIDE DEF Follows
    <3> QED BY <1>2
  <2>4. m - 1 \in Nat /\ m - 1 \notin short
    <3> HIDE DEF short
    <3> QED BY <2>1, <2>2, <2>3
  <2>5. \E g : Follows(g, m - 1)
    <3> HIDE DEF Follows
    <3> QED BY <2>4
  <2>6. \E g : Follows(g, (m - 1) + 1)
    <3> HIDE DEF Follows
    <3> QED BY <1>3, <2>4, <2>5
  <2>7. (m - 1) + 1 = m BY <2>4
  <2> HIDE DEF Follows
  <2> QED BY <2>6, <2>7
<1>5. \A s \in SUBSET S : Cardinality(s) <= Cardinality(S) BY FS_Subset
<1>6. Small(Cardinality(S)) = SUBSET S BY <1>5
<1>7. \E g : Follows(g, Cardinality(S))
  <2>1. Cardinality(S) \in Nat BY <1>1
  <2> HIDE DEF Follows
  <2> QED BY <1>4, <2>1
<1>8. DOMAIN f = S OBVIOUS
<1> HIDE DEF Small
<1> QED BY <1>6, <1>7, <1>8 DEF SumUp

LEMMA SumsAre ==
    ASSUME NEW S, IsFiniteSet(S), NEW f \in [S -> Nat]
    PROVE  /\ Sums(f)[{}] = 0
           /\ \A s \in SUBSET S :
                s # {} => /\ Some(s) \in s /\ s \ {Some(s)} \in SUBSET S
                          /\ f[Some(s)] \in Nat
                          /\ Sums(f)[s] = f[Some(s)] + Sums(f)[s \ {Some(s)}]
<1>1. \E g : SumUp(g, f) BY SumsExist
<1>2. SumUp(Sums(f), f) BY <1>1 DEF Sums
<1>4. \A s \in SUBSET S : s # {} => Some(s) \in s BY SomeIsIn
<1>5. ASSUME NEW s \in SUBSET S
      PROVE  Sums(f)[s] = IF s = {} THEN 0 ELSE f[Some(s)] + Sums(f)[s \ {Some(s)}]
  <2> DEFINE g == Sums(f)
  <2>1. SumUp(g, f) /\ DOMAIN f = S BY <1>2
  <2> HIDE DEF g
  <2>2. g[s] = IF s = {} THEN 0 ELSE f[Some(s)] + g[s \ {Some(s)}] BY <2>1 DEF SumUp
  <2> QED BY <2>2 DEF g
<1>6. Sums(f)[{}] = 0 BY <1>5
<1>7. ASSUME NEW s \in SUBSET S, s # {}
      PROVE  /\ Some(s) \in s /\ s \ {Some(s)} \in SUBSET S
             /\ f[Some(s)] \in Nat
             /\ Sums(f)[s] = f[Some(s)] + Sums(f)[s \ {Some(s)}]
  <2>1. Some(s) \in s BY <1>4, <1>7
  <2>2. f[Some(s)] \in Nat BY <2>1
  <2> QED BY <1>5, <1>7, <2>1, <2>2
<1> QED BY <1>6, <1>7

LEMMA SumsNatural ==
    ASSUME NEW S, IsFiniteSet(S), NEW f \in [S -> Nat], NEW s \in SUBSET S
    PROVE  Sums(f)[s] \in Nat
<1> DEFINE bad == {r \in SUBSET S : Sums(f)[r] \notin Nat}
<1> SUFFICES ASSUME bad # {} PROVE FALSE OBVIOUS
<1>1. PICK r \in bad : \A x \in r : r \ {x} \notin bad
  <2>1. bad \in SUBSET SUBSET S OBVIOUS
  <2> HIDE DEF bad
  <2> QED BY <2>1, SmallestSubset
<1>2. r # {}
  <2>1. Sums(f)[{}] = 0 BY SumsAre
  <2> QED BY <2>1
<1>3. /\ Some(r) \in r /\ r \ {Some(r)} \in SUBSET S /\ f[Some(r)] \in Nat
      /\ Sums(f)[r] = f[Some(r)] + Sums(f)[r \ {Some(r)}]
  BY <1>2, SumsAre
<1>4. Sums(f)[r \ {Some(r)}] \in Nat BY <1>1, <1>3
<1>5. Sums(f)[r] \in Nat BY <1>3, <1>4
<1> QED BY <1>5

LEMMA SumsGrow ==
    ASSUME NEW S, IsFiniteSet(S), NEW f \in [S -> Nat], NEW g \in [S -> Nat],
           \A x \in S : f[x] <= g[x], NEW s \in SUBSET S
    PROVE  Sums(f)[s] <= Sums(g)[s]
<1> DEFINE bad == {r \in SUBSET S : ~(Sums(f)[r] <= Sums(g)[r])}
<1> SUFFICES ASSUME bad # {} PROVE FALSE OBVIOUS
<1>1. PICK r \in bad : \A x \in r : r \ {x} \notin bad
  <2>1. bad \in SUBSET SUBSET S OBVIOUS
  <2> HIDE DEF bad
  <2> QED BY <2>1, SmallestSubset
<1>2. r # {}
  <2>1. Sums(f)[{}] = 0 /\ Sums(g)[{}] = 0 BY SumsAre
  <2> QED BY <2>1
<1>3. /\ Some(r) \in r /\ r \ {Some(r)} \in SUBSET S
      /\ f[Some(r)] \in Nat /\ Sums(f)[r] = f[Some(r)] + Sums(f)[r \ {Some(r)}]
  BY <1>2, SumsAre
<1>4. g[Some(r)] \in Nat /\ Sums(g)[r] = g[Some(r)] + Sums(g)[r \ {Some(r)}]
  BY <1>2, SumsAre
<1>5. /\ Sums(f)[r \ {Some(r)}] \in Nat /\ Sums(g)[r \ {Some(r)}] \in Nat
  BY <1>3, SumsNatural
<1>6. Sums(f)[r \ {Some(r)}] <= Sums(g)[r \ {Some(r)}] BY <1>1, <1>3
<1>7. f[Some(r)] <= g[Some(r)] BY <1>3
<1>8. Sums(f)[r] <= Sums(g)[r] BY <1>3, <1>4, <1>5, <1>6, <1>7
<1> QED BY <1>8

LEMMA SumsAdd ==
    ASSUME NEW S, IsFiniteSet(S), NEW f \in [S -> Nat], NEW g \in [S -> Nat],
           NEW h \in [S -> Nat], \A x \in S : h[x] = f[x] + g[x], NEW s \in SUBSET S
    PROVE  Sums(h)[s] = Sums(f)[s] + Sums(g)[s]
<1> DEFINE bad == {r \in SUBSET S : Sums(h)[r] # Sums(f)[r] + Sums(g)[r]}
<1> SUFFICES ASSUME bad # {} PROVE FALSE OBVIOUS
<1>1. PICK r \in bad : \A x \in r : r \ {x} \notin bad
  <2>1. bad \in SUBSET SUBSET S OBVIOUS
  <2> HIDE DEF bad
  <2> QED BY <2>1, SmallestSubset
<1>2. r # {}
  <2>1. Sums(f)[{}] = 0 /\ Sums(g)[{}] = 0 /\ Sums(h)[{}] = 0 BY SumsAre
  <2> QED BY <2>1
<1>3. /\ Some(r) \in r /\ r \ {Some(r)} \in SUBSET S
      /\ f[Some(r)] \in Nat /\ Sums(f)[r] = f[Some(r)] + Sums(f)[r \ {Some(r)}]
  BY <1>2, SumsAre
<1>4. g[Some(r)] \in Nat /\ Sums(g)[r] = g[Some(r)] + Sums(g)[r \ {Some(r)}]
  BY <1>2, SumsAre
<1>5. h[Some(r)] \in Nat /\ Sums(h)[r] = h[Some(r)] + Sums(h)[r \ {Some(r)}]
  BY <1>2, SumsAre
<1>6. /\ Sums(f)[r \ {Some(r)}] \in Nat /\ Sums(g)[r \ {Some(r)}] \in Nat
      /\ Sums(h)[r \ {Some(r)}] \in Nat
  BY <1>3, SumsNatural
<1>7. Sums(h)[r \ {Some(r)}] = Sums(f)[r \ {Some(r)}] + Sums(g)[r \ {Some(r)}]
  BY <1>1, <1>3
<1>8. h[Some(r)] = f[Some(r)] + g[Some(r)] BY <1>3
<1>9. Sums(h)[r] = Sums(f)[r] + Sums(g)[r] BY <1>3, <1>4, <1>5, <1>6, <1>7, <1>8
<1> QED BY <1>9

LEMMA SumsOne ==
    ASSUME NEW S, IsFiniteSet(S), NEW f \in [S -> Nat], NEW b \in S,
           \A x \in S \ {b} : f[x] = 0, NEW s \in SUBSET S
    PROVE  Sums(f)[s] = IF b \in s THEN f[b] ELSE 0
<1> DEFINE bad == {r \in SUBSET S : Sums(f)[r] # IF b \in r THEN f[b] ELSE 0}
<1> SUFFICES ASSUME bad # {} PROVE FALSE OBVIOUS
<1>1. PICK r \in bad : \A x \in r : r \ {x} \notin bad
  <2>1. bad \in SUBSET SUBSET S OBVIOUS
  <2> HIDE DEF bad
  <2> QED BY <2>1, SmallestSubset
<1>2. r # {}
  <2>1. Sums(f)[{}] = 0 BY SumsAre
  <2> QED BY <2>1
<1>3. /\ Some(r) \in r /\ r \ {Some(r)} \in SUBSET S
      /\ f[Some(r)] \in Nat /\ Sums(f)[r] = f[Some(r)] + Sums(f)[r \ {Some(r)}]
  BY <1>2, SumsAre
<1>4. Sums(f)[r \ {Some(r)}] = IF b \in r \ {Some(r)} THEN f[b] ELSE 0 BY <1>1, <1>3
<1>5. f[b] \in Nat /\ (Some(r) # b => f[Some(r)] = 0) BY <1>3
<1>6. Sums(f)[r] = IF b \in r THEN f[b] ELSE 0
  <2>1. CASE Some(r) = b BY <1>3, <1>4, <1>5, <2>1
  <2>2. CASE Some(r) # b BY <1>3, <1>4, <1>5, <2>2
  <2> QED BY <2>1, <2>2
<1> QED BY <1>6

\* What is added to one bucket is added to the total.
LEMMA TotalAfter ==
    ASSUME NEW S, IsFiniteSet(S), NEW f \in [S -> Nat], NEW b \in S, NEW d \in Nat
    PROVE  Total([f EXCEPT ![b] = @ + d]) = Total(f) + d
<1> DEFINE one == [x \in S |-> IF x = b THEN d ELSE 0]
           h == [f EXCEPT ![b] = @ + d]
<1>1. one \in [S -> Nat] /\ \A x \in S \ {b} : one[x] = 0 OBVIOUS
<1>2. one[b] = d /\ DOMAIN one = S OBVIOUS
<1>3. h \in [S -> Nat] /\ DOMAIN h = S OBVIOUS
<1>4. \A x \in S : h[x] = f[x] + one[x] OBVIOUS
<1> HIDE DEF one, h
<1>5. Sums(one)[S] = d BY <1>1, <1>2, SumsOne
<1>6. Sums(h)[S] = Sums(f)[S] + Sums(one)[S] BY <1>1, <1>3, <1>4, SumsAdd
<1>7. Total(h) = Sums(h)[S] /\ Total(f) = Sums(f)[S] BY <1>3, TotalIsLast
<1> QED BY <1>5, <1>6, <1>7 DEF h

LEMMA TotalNatural ==
    ASSUME NEW S, IsFiniteSet(S), NEW f \in [S -> Nat] PROVE Total(f) \in Nat
BY TotalIsLast, SumsNatural

LEMMA TotalGrows ==
    ASSUME NEW S, IsFiniteSet(S), NEW f \in [S -> Nat], NEW g \in [S -> Nat],
           \A x \in S : f[x] <= g[x]
    PROVE  Total(f) <= Total(g)
<1>1. Sums(f)[S] <= Sums(g)[S] BY SumsGrow
<1> QED BY <1>1, TotalIsLast

LEMMA TotalAdd ==
    ASSUME NEW S, IsFiniteSet(S), NEW f \in [S -> Nat], NEW g \in [S -> Nat],
           NEW h \in [S -> Nat], \A x \in S : h[x] = f[x] + g[x]
    PROVE  Total(h) = Total(f) + Total(g)
<1>1. Sums(h)[S] = Sums(f)[S] + Sums(g)[S] BY SumsAdd
<1> QED BY <1>1, TotalIsLast

LEMMA TotalOfNone ==
    ASSUME NEW S, IsFiniteSet(S) PROVE Total([x \in S |-> 0]) = 0
<1> DEFINE f == [x \in S |-> 0]
<1>1. f \in [S -> Nat] /\ \A x \in S : f[x] = 0 + 0 /\ f[x] = f[x] + f[x] OBVIOUS
<1> HIDE DEF f
<1>2. Total(f) = Total(f) + Total(f) /\ Total(f) \in Nat BY <1>1, TotalAdd, TotalNatural
<1> QED BY <1>2 DEF f

(***************************************************************************)
(* What the collector has read of a connection, and when a difference to   *)
(* it may be taken from zero.  A connection that no snapshot has shown was *)
(* not read, and one that is over comes in no later snapshot.              *)
(***************************************************************************)
Counters == [Conn -> Nat \cup {Absent}]
Histories == [Buckets -> Nat]
TrafficTyped ==
    /\ carried \in Counters /\ closed \subseteq Conn
    /\ snapshot \in Counters /\ previous \in Counters
    /\ initialized \in BOOLEAN /\ dirty \in BOOLEAN /\ running \in BOOLEAN
    /\ now \in Buckets /\ kept \in Retention
    /\ history \in Histories
    /\ document \in [kept : Retention, records : Histories]
    /\ read \in [Conn -> Nat] /\ trafficFaults \in Nat

ReadOf(c) ==
    /\ c \in closed => carried[c] = Absent
    /\ snapshot[c] # Absent =>
         (carried[c] # Absent \/ c \in closed) /\ snapshot[c] >= read[c]
    /\ carried[c] # Absent => carried[c] >= read[c] /\ carried[c] >= snapshot[c]
    /\ carried[c] = Absent /\ c \notin closed => read[c] = 0
    /\ snapshot # NoneSent /\ snapshot[c] = Absent /\ c \notin closed => read[c] = 0
    /\ previous[c] # Absent => read[c] = previous[c]
    /\ initialized /\ previous[c] = Absent /\ (c \notin closed \/ snapshot[c] # Absent) =>
         read[c] = 0
ReadInOrder == \A c \in Conn : ReadOf(c)

\* What is clean was written, and no stop without a failure leaves anything dirty.
Flushed ==
    /\ trafficFaults = 0 /\ ~dirty => document.records = history
    /\ ~running /\ trafficFaults = 0 => ~dirty

HistoryInv == NeverOvercounted /\ Flushed
TrafficInv == TrafficTyped /\ ReadInOrder /\ HistoryInv

LEMMA BucketsAre == IsFiniteSet(Conn) /\ IsFiniteSet(Buckets)
BY TrafficAssumption, FS_Interval DEF Buckets

LEMMA TrafficBegins == TrafficInit => TrafficInv
<1> SUFFICES ASSUME TrafficInit PROVE TrafficInv OBVIOUS
<1>1. Empty \in Histories /\ 0 \in Buckets /\ Unseen \in Counters
  BY TrafficAssumption DEF Empty, Histories, Buckets, Unseen, Counters
<1>5. TrafficTyped
  <2>1. document \in [kept : Retention, records : Histories] BY <1>1 DEF TrafficInit
  <2>2. read \in [Conn -> Nat] BY DEF TrafficInit
  <2> QED BY <1>1, <2>1, <2>2 DEF TrafficInit, TrafficTyped, NoneSent
<1>2. ReadInOrder
  BY DEF TrafficInit, ReadInOrder, ReadOf, Unseen, NoneSent, Absent
<1>3. Total(history) = 0 /\ Total(read) = 0
  BY BucketsAre, TotalOfNone DEF TrafficInit, Empty
<1>4. document.records = history BY DEF TrafficInit
<1> QED
  BY <1>2, <1>3, <1>4, <1>5
  DEF TrafficInv, HistoryInv, NeverOvercounted, Flushed, TrafficInit

\* Steps that leave the history alone, and what was read.
LEMMA HistoryLeft ==
    ASSUME HistoryInv,
           UNCHANGED <<history, document, dirty, running, read, trafficFaults>>
    PROVE  HistoryInv'
BY DEF HistoryInv, NeverOvercounted, Flushed

LEMMA FaultsLeft ==
    ASSUME HistoryInv, TrafficTyped, UNCHANGED <<history, document, dirty, read>>, TrafficFault
    PROVE  HistoryInv' /\ trafficFaults' \in Nat
BY DEF HistoryInv, NeverOvercounted, Flushed, TrafficFault, TrafficTyped

LEMMA CarryKeeps == TrafficInv /\ Carry => TrafficInv'
<1> SUFFICES ASSUME TrafficInv, Carry PROVE TrafficInv' OBVIOUS
<1>0. TrafficTyped /\ ReadInOrder /\ HistoryInv BY DEF TrafficInv
<1>1. HistoryInv' BY <1>0, HistoryLeft DEF Carry, historyVars
<1>2. PICK d \in Conn \ closed :
        carried' = [carried EXCEPT ![d] = IF @ = Absent THEN 1 ELSE @ + 1]
  BY DEF Carry
<1>3. UNCHANGED <<closed, collectorVars, historyVars, running, read, trafficFaults>> BY DEF Carry
<1>4. carried' \in Counters /\ \A c \in Conn : c # d => carried'[c] = carried[c]
  BY <1>0, <1>2 DEF TrafficTyped, Counters, Absent
<1>5. carried'[d] = IF carried[d] = Absent THEN 1 ELSE carried[d] + 1
  BY <1>0, <1>2 DEF TrafficTyped, Counters
<1>6. TrafficTyped'
  BY <1>0, <1>3, <1>4 DEF TrafficTyped, collectorVars, historyVars
<1>7. ASSUME NEW c \in Conn PROVE ReadOf(c)'
  <2>1. ReadOf(c) BY <1>0 DEF ReadInOrder
  <2>2. UNCHANGED <<closed, snapshot, previous, initialized, read>>
    BY <1>3 DEF collectorVars
  <2>3. CASE c # d BY <1>4, <2>1, <2>2, <2>3 DEF ReadOf, NoneSent, Unseen
  <2>4. CASE c = d
    <3>1. carried[d] \in Nat \cup {Absent} /\ snapshot[d] \in Nat \cup {Absent} /\ read[d] \in Nat
      BY <1>0, <2>4 DEF TrafficTyped, Counters
    <3>2. d \notin closed BY <1>2
    <3>3. carried'[d] # Absent BY <1>5, <3>1 DEF Absent
    <3>4. carried'[d] >= read[d] /\ carried'[d] >= snapshot[d]
      BY <1>5, <2>1, <2>4, <3>1, <3>2 DEF ReadOf, Absent
    <3> QED BY <2>1, <2>2, <2>4, <3>2, <3>3, <3>4 DEF ReadOf, NoneSent, Unseen
  <2> QED BY <2>3, <2>4
<1> QED BY <1>1, <1>6, <1>7 DEF TrafficInv, ReadInOrder

LEMMA CloseKeeps ==
    ASSUME TrafficTyped, NEW S \in SUBSET Open, Close(S), NEW c \in Conn, ReadOf(c),
           UNCHANGED <<previous, initialized, read>>,
           snapshot' = snapshot \/ snapshot' = NoneSent
    PROVE  ReadOf(c)'
<1>1. carried' = [d \in Conn |-> IF d \in S THEN Absent ELSE carried[d]]
      /\ closed' = closed \cup S
  BY DEF Close
<1>2. c \in S => carried[c] # Absent /\ carried'[c] = Absent /\ c \in closed'
  BY <1>1 DEF Open
<1>3. c \notin S => carried'[c] = carried[c] /\ (c \in closed' <=> c \in closed) BY <1>1
<1>4. CASE snapshot' = snapshot
  <2>1. CASE c \in S BY <1>2, <1>4, <2>1 DEF ReadOf, NoneSent, Unseen
  <2>2. CASE c \notin S BY <1>3, <1>4, <2>2 DEF ReadOf, NoneSent, Unseen
  <2> QED BY <2>1, <2>2
<1>5. CASE snapshot' = NoneSent
  <2>1. snapshot'[c] = Absent BY <1>5 DEF NoneSent, Unseen
  <2>2. carried[c] \in Nat \cup {Absent} BY DEF TrafficTyped, Counters
  <2>3. carried[c] # Absent => carried[c] >= Absent BY <2>2 DEF Absent
  <2>4. CASE c \in S BY <1>2, <1>5, <2>1, <2>4 DEF ReadOf, NoneSent, Unseen
  <2>5. CASE c \notin S BY <1>3, <1>5, <2>1, <2>3, <2>5 DEF ReadOf, NoneSent, Unseen
  <2> QED BY <2>4, <2>5
<1> QED BY <1>4, <1>5

LEMMA ClosedTyped ==
    ASSUME TrafficTyped, NEW S \in SUBSET Open, Close(S)
    PROVE  carried' \in Counters /\ closed' \subseteq Conn
BY DEF TrafficTyped, Close, Counters, Open

LEMMA CloseConnectionKeeps == TrafficInv /\ CloseConnection => TrafficInv'
<1> SUFFICES ASSUME TrafficInv, CloseConnection PROVE TrafficInv' OBVIOUS
<1>0. TrafficTyped /\ ReadInOrder /\ HistoryInv BY DEF TrafficInv
<1>1. HistoryInv' BY <1>0, HistoryLeft DEF CloseConnection, historyVars
<1>2. PICK c \in Open : Close({c}) BY DEF CloseConnection
<1>3. UNCHANGED <<collectorVars, historyVars, running, read, trafficFaults>>
  BY DEF CloseConnection
<1>4. TrafficTyped'
  BY <1>0, <1>2, <1>3, ClosedTyped DEF TrafficTyped, collectorVars, historyVars
<1>5. ReadInOrder'
  <2>1. \A d \in Conn : ReadOf(d) BY <1>0 DEF ReadInOrder
  <2>2. {c} \in SUBSET Open BY <1>2
  <2>3. UNCHANGED <<previous, initialized, read>> /\ snapshot' = snapshot
    BY <1>3 DEF collectorVars
  <2>4. \A d \in Conn : ReadOf(d)' BY <1>0, <1>2, <2>1, <2>2, <2>3, CloseKeeps
  <2> QED BY <2>4 DEF ReadInOrder
<1> QED BY <1>1, <1>4, <1>5 DEF TrafficInv

LEMMA NoneIsCounters == NoneSent \in Counters /\ Unseen \in Counters
BY DEF NoneSent, Unseen, Counters

LEMMA RestartCoreKeeps == TrafficInv /\ RestartCore => TrafficInv'
<1> SUFFICES ASSUME TrafficInv, RestartCore PROVE TrafficInv' OBVIOUS
<1>0. TrafficTyped /\ ReadInOrder /\ HistoryInv BY DEF TrafficInv
<1>1. HistoryInv' BY <1>0, HistoryLeft DEF RestartCore, historyVars
<1>2. /\ Close(Open) /\ snapshot' = NoneSent
      /\ UNCHANGED <<previous, initialized, historyVars, running, read, trafficFaults>>
  BY DEF RestartCore
<1>3. TrafficTyped'
  BY <1>0, <1>2, ClosedTyped, NoneIsCounters DEF TrafficTyped, historyVars
<1>4. ReadInOrder'
  <2>1. \A d \in Conn : ReadOf(d) BY <1>0 DEF ReadInOrder
  <2>2. Open \in SUBSET Open OBVIOUS
  <2>3. \A d \in Conn : ReadOf(d)' BY <1>0, <1>2, <2>1, <2>2, CloseKeeps
  <2> QED BY <2>3 DEF ReadInOrder
<1> QED BY <1>1, <1>3, <1>4 DEF TrafficInv

LEMMA SendSnapshotKeeps == TrafficInv /\ SendSnapshot => TrafficInv'
<1> SUFFICES ASSUME TrafficInv, SendSnapshot PROVE TrafficInv' OBVIOUS
<1>0. TrafficTyped /\ ReadInOrder /\ HistoryInv BY DEF TrafficInv
<1>1. HistoryInv' BY <1>0, HistoryLeft DEF SendSnapshot, historyVars
<1>2. /\ snapshot' = carried
      /\ UNCHANGED <<coreVars, previous, initialized, historyVars, running, read, trafficFaults>>
  BY DEF SendSnapshot
<1>3. TrafficTyped' BY <1>0, <1>2 DEF TrafficTyped, coreVars, historyVars
<1>4. ASSUME NEW c \in Conn PROVE ReadOf(c)'
  <2>1. ReadOf(c) BY <1>0 DEF ReadInOrder
  <2>2. carried[c] \in Nat \cup {Absent} BY <1>0 DEF TrafficTyped, Counters
  <2>3. carried[c] >= carried[c] BY <2>2 DEF Absent
  <2> QED BY <1>2, <2>1, <2>3 DEF ReadOf, coreVars
<1> QED BY <1>1, <1>3, <1>4 DEF TrafficInv, ReadInOrder

LEMMA StreamKeeps == TrafficInv /\ (Connect \/ BreakStream) => TrafficInv'
<1> SUFFICES ASSUME TrafficInv, Connect \/ BreakStream PROVE TrafficInv' OBVIOUS
<1>0. TrafficTyped /\ ReadInOrder /\ HistoryInv BY DEF TrafficInv
<1>1. /\ UNCHANGED <<coreVars, previous, initialized, historyVars, running, read>>
      /\ snapshot' = snapshot \/ snapshot' = NoneSent
  BY DEF Connect, BreakStream
<1>2. HistoryInv' /\ trafficFaults' \in Nat
  <2>1. CASE Connect
    BY <1>0, <2>1, HistoryLeft DEF Connect, historyVars, TrafficTyped
  <2>2. CASE BreakStream
    BY <1>0, <2>2, FaultsLeft DEF BreakStream, historyVars
  <2> QED BY <2>1, <2>2
<1>3. TrafficTyped'
  BY <1>0, <1>1, <1>2, NoneIsCounters DEF TrafficTyped, coreVars, historyVars
<1>4. ASSUME NEW c \in Conn PROVE ReadOf(c)'
  <2>1. ReadOf(c) BY <1>0 DEF ReadInOrder
  <2>2. carried[c] \in Nat \cup {Absent} BY <1>0 DEF TrafficTyped, Counters
  <2>3. carried[c] >= Absent BY <2>2 DEF Absent
  <2>4. CASE snapshot' = snapshot
    BY <1>1, <2>1, <2>4 DEF ReadOf, coreVars, NoneSent, Unseen
  <2>5. CASE snapshot' = NoneSent
    <3>1. snapshot'[c] = Absent BY <2>5 DEF NoneSent, Unseen
    <3> QED BY <1>1, <2>1, <2>3, <2>5, <3>1 DEF ReadOf, coreVars, NoneSent, Unseen
  <2> QED BY <1>1, <2>4, <2>5
<1> QED BY <1>2, <1>3, <1>4 DEF TrafficInv, ReadInOrder

(***************************************************************************)
(* A difference is what a connection carried since it was read.            *)
(***************************************************************************)
LEMMA MaxWithNone == ASSUME NEW n \in Int PROVE Max({n, 0}) = IF n >= 0 THEN n ELSE 0
<1>1. CASE n >= 0
  <2>1. n \in {n, 0} /\ \A y \in {n, 0} : n >= y BY <1>1
  <2>2. \A x \in {n, 0} : (\A y \in {n, 0} : x >= y) => x = n BY <1>1
  <2> QED BY <1>1, <2>1, <2>2 DEF Max
<1>2. CASE ~(n >= 0)
  <2>1. \A y \in {n, 0} : 0 >= y BY <1>2
  <2>2. \A x \in {n, 0} : (\A y \in {n, 0} : x >= y) => x = 0 BY <1>2
  <2> QED BY <1>2, <2>1, <2>2 DEF Max
<1> QED BY <1>1, <1>2

LEMMA DifferenceIs ==
    ASSUME TrafficTyped, NEW c \in Conn, ReadOf(c)
    PROVE  /\ Difference(c) \in Nat
           /\ snapshot[c] = Absent => Difference(c) = 0
           /\ snapshot[c] # Absent => read[c] + Difference(c) <= snapshot[c]
<1>1. /\ snapshot[c] \in Nat \cup {Absent} /\ previous[c] \in Nat \cup {Absent}
      /\ read[c] \in Nat
  BY DEF TrafficTyped, Counters
<1>2. CASE snapshot[c] = Absent BY <1>2 DEF Difference
<1>3. CASE snapshot[c] # Absent
  <2>1. snapshot[c] \in Nat /\ snapshot[c] >= read[c] BY <1>1, <1>3 DEF ReadOf
  <2>2. Base(c) = read[c] \/ Base(c) = snapshot[c]
    BY <1>3 DEF Base, ReadOf
  <2>3. snapshot[c] - Base(c) \in Int /\ snapshot[c] - Base(c) >= 0 BY <1>1, <2>1, <2>2
  <2>4. Difference(c) = snapshot[c] - Base(c) BY <1>3, <2>3, MaxWithNone DEF Difference
  <2> QED BY <1>1, <1>3, <2>1, <2>2, <2>4
<1> QED BY <1>2, <1>3

\* What the history gains is no more than what was read of all connections anew.
LEMMA DeltasAre ==
    ASSUME TrafficTyped, ReadInOrder, Accumulate
    PROVE  /\ read' \in [Conn -> Nat] /\ Deltas \in Nat
           /\ Total(read) + Deltas <= Total(read')
           /\ Total(read) \in Nat /\ Total(read') \in Nat
<1> DEFINE add == [c \in Conn |-> Difference(c)]
           sum == [c \in Conn |-> read[c] + Difference(c)]
<1>1. \A c \in Conn : ReadOf(c) BY DEF ReadInOrder
<1>2. \A c \in Conn :
        /\ Difference(c) \in Nat
        /\ snapshot[c] = Absent => Difference(c) = 0
        /\ snapshot[c] # Absent => read[c] + Difference(c) <= snapshot[c]
  BY <1>1, DifferenceIs
<1>3. read' = [c \in Conn |-> IF snapshot[c] = Absent THEN read[c] ELSE snapshot[c]]
  BY DEF Accumulate
<1>4. \A c \in Conn : read[c] \in Nat /\ snapshot[c] \in Nat \cup {Absent}
  BY DEF TrafficTyped, Counters
<1>5. read \in [Conn -> Nat] /\ read' \in [Conn -> Nat]
  BY <1>3, <1>4 DEF TrafficTyped
<1>6. add \in [Conn -> Nat] /\ sum \in [Conn -> Nat] BY <1>2, <1>4
<1>7. \A c \in Conn : sum[c] = read[c] + add[c] OBVIOUS
<1>8. \A c \in Conn : sum[c] <= read'[c] BY <1>2, <1>3, <1>4
<1>9. Deltas = Total(add) BY DEF Deltas
<1> HIDE DEF add, sum
<1>10. Total(sum) = Total(read) + Total(add)
  BY <1>5, <1>6, <1>7, BucketsAre, TotalAdd
<1>11. Total(sum) <= Total(read') BY <1>5, <1>6, <1>8, BucketsAre, TotalGrows
<1>12. Total(read) \in Nat /\ Total(read') \in Nat /\ Total(add) \in Nat
  BY <1>5, <1>6, BucketsAre, TotalNatural
<1> QED BY <1>5, <1>9, <1>10, <1>11, <1>12

\* What is cut off has an older end only.
Trimmed(f, g) ==
    /\ f \in Histories
    /\ \A b \in Buckets : f[b] <= g[b]
    /\ \A a, b \in Buckets : a < b /\ f[a] > 0 => f[b] = g[b]

LEMMA RecentIs ==
    ASSUME NEW f \in Histories, NEW time \in Nat, NEW hours \in Nat
    PROVE  Trimmed(Recent(f, time, hours), f)
<1> DEFINE r == Recent(f, time, hours)
<1>1. \A b \in Buckets : f[b] \in Nat /\ b \in Int BY DEF Histories, Buckets
<1>2. \A b \in Buckets : r[b] = IF hours # 0 /\ b < time - hours THEN 0 ELSE f[b]
  BY DEF Recent
<1>3. r \in Histories BY <1>1 DEF Recent, Histories
<1> HIDE DEF r
<1>4. \A b \in Buckets : r[b] <= f[b] BY <1>1, <1>2
<1>5. ASSUME NEW a \in Buckets, NEW b \in Buckets, a < b, r[a] > 0 PROVE r[b] = f[b]
  <2>1. ~(hours # 0 /\ a < time - hours) BY <1>2, <1>5
  <2>2. ~(hours # 0 /\ b < time - hours) BY <1>1, <1>5, <2>1
  <2> QED BY <1>2, <2>2
<1>6. Trimmed(r, f) BY <1>3, <1>4, <1>5 DEF Trimmed
<1> QED BY <1>6 DEF r

LEMMA GreatestBucket ==
    ASSUME NEW S \in SUBSET Buckets, S # {}
    PROVE  \E m \in S : \A b \in S : b <= m
<1> DEFINE left == {MaxTime - b : b \in S}
<1>1. \A b \in S : b \in Int /\ b <= MaxTime /\ MaxTime \in Nat
  BY TrafficAssumption DEF Buckets
<1>2. left \subseteq Nat /\ left # {} BY <1>1
<1>3. PICK n \in left : \A k \in left : n <= k
  <2> HIDE DEF left
  <2> QED BY <1>2, LeastNatural
<1>4. PICK m \in S : n = MaxTime - m BY <1>3
<1>5. ASSUME NEW b \in S PROVE b <= m
  <2>1. MaxTime - b \in left OBVIOUS
  <2>2. MaxTime - m <= MaxTime - b BY <1>3, <1>4, <2>1
  <2> QED BY <1>1, <2>2
<1> QED BY <1>5

LEMMA UsedIs ==
    ASSUME NEW f \in Histories
    PROVE  /\ Used(f) \subseteq Buckets /\ IsFiniteSet(Used(f))
           /\ Cardinality(Used(f)) \in Nat
<1>1. Used(f) \subseteq Buckets BY DEF Used
<1> QED BY <1>1, BucketsAre, FS_Subset, FS_CardinalityType

\* More than the limit is used, so that the newest of all is past the excess.
LEMMA CutoffIs ==
    ASSUME NEW f \in Histories, ~(Cardinality(Used(f)) <= Limit)
    PROVE  Cutoff(f) \in Buckets
<1> DEFINE excess == Cardinality(Used(f)) - Limit
           past == {b \in Used(f) : Cardinality({a \in Used(f) : a <= b}) > excess}
<1>1. Used(f) \subseteq Buckets /\ Cardinality(Used(f)) \in Nat /\ IsFiniteSet(Used(f))
  BY UsedIs
<1>2. Limit \in Nat /\ Limit > 0 BY TrafficAssumption
<1>3. Used(f) # {} BY <1>1, <1>2, FS_EmptySet
<1>4. PICK m \in Used(f) : \A b \in Used(f) : b <= m BY <1>1, <1>3, GreatestBucket
<1>5. {a \in Used(f) : a <= m} = Used(f) BY <1>4
<1>6. m \in past BY <1>1, <1>2, <1>4, <1>5
<1>7. past \subseteq Nat /\ past \subseteq Buckets BY <1>1 DEF Buckets
<1>8. Cutoff(f) = Min(past) BY DEF Cutoff
<1> HIDE DEF past
<1>9. \E x \in past : \A y \in past : x <= y BY <1>6, <1>7, LeastNatural
<1>10. Min(past) \in past BY <1>9 DEF Min
<1> QED BY <1>7, <1>8, <1>10

LEMMA EvictedIs == ASSUME NEW f \in Histories PROVE Trimmed(Evicted(f), f)
<1> DEFINE r == Evicted(f)
<1>1. \A b \in Buckets : f[b] \in Nat /\ b \in Int BY DEF Histories, Buckets
<1>2. CASE Cardinality(Used(f)) <= Limit
  <2>1. r = f BY <1>2 DEF Evicted
  <2>2. Trimmed(f, f) BY <1>1 DEF Trimmed
  <2> QED BY <2>1, <2>2
<1>3. CASE ~(Cardinality(Used(f)) <= Limit)
  <2>1. Cutoff(f) \in Int BY <1>3, CutoffIs DEF Buckets
  <2>2. r = [b \in Buckets |-> IF b <= Cutoff(f) THEN 0 ELSE f[b]] BY <1>3 DEF Evicted
  <2> HIDE DEF r
  <2>3. r \in Histories BY <1>1, <2>2 DEF Histories
  <2>4. \A b \in Buckets : r[b] <= f[b] BY <1>1, <2>2
  <2>5. ASSUME NEW a \in Buckets, NEW b \in Buckets, a < b, r[a] > 0 PROVE r[b] = f[b]
    <3>1. ~(a <= Cutoff(f)) BY <2>2, <2>5
    <3>2. ~(b <= Cutoff(f)) BY <1>1, <2>1, <2>5, <3>1
    <3> QED BY <2>2, <3>2
  <2>6. Trimmed(r, f) BY <2>3, <2>4, <2>5 DEF Trimmed
  <2> QED BY <2>6 DEF r
<1> QED BY <1>2, <1>3

LEMMA EvictedEmpty == Evicted(Empty) = Empty /\ Empty \in Histories
<1>1. Used(Empty) = {} BY DEF Used, Empty
<1>2. Cardinality(Used(Empty)) <= Limit BY <1>1, FS_EmptySet, TrafficAssumption
<1> QED BY <1>2 DEF Evicted, Empty, Histories

LEMMA TailOfTail ==
    ASSUME NEW f \in Histories, NEW g \in Histories, NEW h, Trimmed(f, g), Trimmed(h, f)
    PROVE  Trimmed(h, g)
<1>1. \A b \in Buckets : f[b] \in Nat /\ g[b] \in Nat BY DEF Histories
<1>2. h \in Histories /\ \A b \in Buckets : h[b] \in Nat BY DEF Trimmed, Histories
<1>3. \A b \in Buckets : h[b] <= g[b] BY <1>1, <1>2 DEF Trimmed
<1>4. ASSUME NEW a \in Buckets, NEW b \in Buckets, a < b, h[a] > 0 PROVE h[b] = g[b]
  <2>1. h[b] = f[b] /\ h[a] <= f[a] BY <1>4 DEF Trimmed
  <2>2. f[a] > 0 BY <1>1, <1>2, <1>4, <2>1
  <2> QED BY <1>4, <2>1, <2>2 DEF Trimmed
<1> QED BY <1>2, <1>3, <1>4 DEF Trimmed

LEMMA TailTotal ==
    ASSUME NEW f \in Histories, NEW g \in Histories, Trimmed(f, g)
    PROVE  Total(f) <= Total(g) /\ Total(f) \in Nat /\ Total(g) \in Nat
BY BucketsAre, TotalGrows, TotalNatural DEF Trimmed, Histories

(***************************************************************************)
(* The steps that change the history.                                      *)
(***************************************************************************)
LEMMA OldestOfTail ==
    ASSUME TrafficTyped, Trimmed(history', history) PROVE OldestGoFirst
<1>1. \A b \in Buckets : history[b] \in Nat BY DEF TrafficTyped, Histories
<1> QED BY <1>1 DEF Trimmed, OldestGoFirst

LEMMA TotalsAre ==
    ASSUME TrafficTyped
    PROVE  Total(history) \in Nat /\ Total(read) \in Nat /\ Total(document.records) \in Nat
BY BucketsAre, TotalNatural DEF TrafficTyped, Histories

LEMMA PersistIs ==
    ASSUME TrafficTyped, HistoryInv, NEW f \in Histories, NEW period \in Retention,
           Total(f) <= Total(read), PersistHistory(f, period), read' = read
    PROVE  /\ HistoryInv' /\ Trimmed(history', f)
           /\ history' \in Histories /\ kept' \in Retention /\ dirty' \in BOOLEAN
           /\ document' \in [kept : Retention, records : Histories] /\ trafficFaults' \in Nat
<1>1. history' = Evicted(f) /\ kept' = period BY DEF PersistHistory
<1>2. Trimmed(history', f) BY <1>1, EvictedIs
<1>3. history' \in Histories BY <1>2 DEF Trimmed
<1>4. Total(history') <= Total(f) /\ Total(history') \in Nat /\ Total(f) \in Nat
  BY <1>2, <1>3, TailTotal
<1>5. Total(read) \in Nat BY TotalsAre
<1>6. Total(history') <= Total(read') BY <1>4, <1>5
<1>7. trafficFaults \in Nat BY DEF TrafficTyped
<1>8. CASE /\ document' = [kept |-> kept', records |-> history'] /\ dirty' = FALSE
           /\ UNCHANGED trafficFaults
  <2>1. document'.records = history' BY <1>8
  <2>2. document' \in [kept : Retention, records : Histories] BY <1>1, <1>3, <1>8
  <2>3. HistoryInv' BY <1>6, <1>8, <2>1 DEF HistoryInv, NeverOvercounted, Flushed
  <2> QED BY <1>1, <1>2, <1>3, <1>7, <1>8, <2>2, <2>3
<1>9. CASE TrafficFault /\ dirty' = TRUE /\ UNCHANGED document
  <2>1. trafficFaults' = trafficFaults + 1 BY <1>9 DEF TrafficFault
  <2>2. trafficFaults' \in Nat /\ trafficFaults' # 0 BY <1>7, <2>1
  <2>3. document' \in [kept : Retention, records : Histories] BY <1>9 DEF TrafficTyped
  <2>4. Total(document'.records) <= Total(read')
    BY <1>9 DEF HistoryInv, NeverOvercounted
  <2>5. HistoryInv' BY <1>6, <2>2, <2>4 DEF HistoryInv, NeverOvercounted, Flushed
  <2> QED BY <1>1, <1>2, <1>3, <1>9, <2>2, <2>3, <2>5
<1> QED BY <1>8, <1>9 DEF PersistHistory

LEMMA ReadLeft ==
    ASSUME ReadInOrder, UNCHANGED <<coreVars, snapshot, previous, initialized, read>>
    PROVE  ReadInOrder'
BY DEF ReadInOrder, ReadOf, coreVars, NoneSent, Unseen

LEMMA RotatedIs ==
    ASSUME TrafficTyped, HistoryInv, NEW period \in Retention
    PROVE  LET f == Recent(history, now, period) IN
           f \in Histories /\ Trimmed(f, history) /\ Total(f) <= Total(read)
<1> DEFINE f == Recent(history, now, period)
<1>1. period \in Nat /\ now \in Nat /\ history \in Histories
  BY TrafficAssumption DEF TrafficTyped, Buckets
<1>2. Trimmed(f, history) BY <1>1, RecentIs
<1> HIDE DEF f
<1>3. f \in Histories BY <1>2 DEF Trimmed
<1>4. Total(f) <= Total(history) /\ Total(f) \in Nat /\ Total(history) \in Nat
  BY <1>1, <1>2, <1>3, TailTotal
<1>5. Total(history) <= Total(read) /\ Total(read) \in Nat
  BY TotalsAre DEF HistoryInv, NeverOvercounted
<1>6. Total(f) <= Total(read) BY <1>4, <1>5
<1>7. f \in Histories /\ Trimmed(f, history) /\ Total(f) <= Total(read) BY <1>2, <1>3, <1>6
<1> QED BY <1>7 DEF f

LEMMA AccumulateKeeps == TrafficInv /\ Accumulate => TrafficInv' /\ OldestGoFirst
<1> SUFFICES ASSUME TrafficInv, Accumulate PROVE TrafficInv' /\ OldestGoFirst OBVIOUS
<1>0. TrafficTyped /\ ReadInOrder /\ HistoryInv BY DEF TrafficInv
<1>1. /\ previous' = snapshot /\ initialized' = TRUE /\ snapshot' = NoneSent
      /\ snapshot # NoneSent
      /\ read' = [c \in Conn |-> IF snapshot[c] = Absent THEN read[c] ELSE snapshot[c]]
      /\ UNCHANGED <<coreVars, now, kept, document, running, trafficFaults>>
      /\ running
  BY DEF Accumulate
<1>2. /\ read' \in [Conn -> Nat] /\ Deltas \in Nat
      /\ Total(read) + Deltas <= Total(read')
      /\ Total(read) \in Nat /\ Total(read') \in Nat
  BY <1>0, DeltasAre
<1>3. Total(document'.records) <= Total(read')
  <2>1. Total(document.records) <= Total(read) /\ Total(document.records) \in Nat
    BY <1>0, TotalsAre DEF HistoryInv, NeverOvercounted
  <2> QED BY <1>1, <1>2, <2>1
<1>4. /\ history' \in Histories /\ dirty' \in BOOLEAN /\ Total(history') <= Total(read')
      /\ OldestGoFirst
      /\ (history' = history /\ dirty' = dirty) \/ dirty' = TRUE
  <2>1. CASE Deltas = 0
    <3>1. history' = history /\ dirty' = dirty BY <2>1 DEF Accumulate
    <3>2. Total(history) <= Total(read) /\ Total(history) \in Nat
      BY <1>0, TotalsAre DEF HistoryInv, NeverOvercounted
    <3>3. \A b \in Buckets : history[b] >= history[b]
      BY <1>0 DEF TrafficTyped, Histories
    <3>4. OldestGoFirst BY <3>1, <3>3 DEF OldestGoFirst
    <3>5. Total(history') <= Total(read') BY <1>2, <2>1, <3>1, <3>2
    <3> QED BY <1>0, <3>1, <3>4, <3>5 DEF TrafficTyped
  <2>2. CASE Deltas # 0
    <3> DEFINE h == [history EXCEPT ![now] = @ + Deltas]
    <3>1. history' = Recent(h, now, kept) /\ dirty' = TRUE BY <2>2 DEF Accumulate
    <3>2. history \in [Buckets -> Nat] /\ now \in Buckets /\ now \in Nat /\ kept \in Nat
      BY <1>0, TrafficAssumption DEF TrafficTyped, Histories, Buckets
    <3>3. h \in Histories /\ \A b \in Buckets : h[b] >= history[b]
      BY <1>2, <3>2 DEF Histories
    <3>4. Total(h) = Total(history) + Deltas BY <1>2, <3>2, BucketsAre, TotalAfter
    <3> HIDE DEF h
    <3>5. Trimmed(history', h) BY <3>1, <3>2, <3>3, RecentIs
    <3>6. history' \in Histories BY <3>5 DEF Trimmed
    <3>7. Total(history') <= Total(h) /\ Total(history') \in Nat /\ Total(h) \in Nat
      BY <3>3, <3>5, <3>6, TailTotal
    <3>8. Total(history) <= Total(read) /\ Total(history) \in Nat
      BY <1>0, TotalsAre DEF HistoryInv, NeverOvercounted
    <3>9. Total(history') <= Total(read') BY <1>2, <3>4, <3>7, <3>8
    <3>10. OldestGoFirst
      <4>1. ASSUME NEW a \in Buckets, NEW b \in Buckets, a < b, history'[a] > 0
            PROVE  history'[b] >= history[b]
        BY <3>3, <3>5, <4>1 DEF Trimmed
      <4> QED BY <4>1 DEF OldestGoFirst
    <3> QED BY <3>1, <3>6, <3>9, <3>10
  <2> QED BY <2>1, <2>2
<1>5. TrafficTyped'
  BY <1>0, <1>1, <1>2, <1>4, NoneIsCounters DEF TrafficTyped, coreVars
<1>6. HistoryInv'
  BY <1>0, <1>1, <1>3, <1>4 DEF HistoryInv, NeverOvercounted, Flushed
<1>7. ASSUME NEW c \in Conn PROVE ReadOf(c)'
  <2>1. ReadOf(c) BY <1>0 DEF ReadInOrder
  <2>2. /\ snapshot[c] \in Nat \cup {Absent} /\ carried[c] \in Nat \cup {Absent}
        /\ read[c] \in Nat
    BY <1>0 DEF TrafficTyped, Counters
  <2>3. carried' = carried /\ closed' = closed BY <1>1 DEF coreVars
  <2>4. read'[c] = IF snapshot[c] = Absent THEN read[c] ELSE snapshot[c] BY <1>1
  <2>5. previous'[c] = snapshot[c] /\ snapshot'[c] = Absent
    BY <1>1 DEF NoneSent, Unseen
  <2>6. carried'[c] # Absent => carried'[c] >= snapshot'[c]
    BY <2>2, <2>3, <2>5 DEF Absent
  <2>7. carried'[c] # Absent => carried'[c] >= read'[c]
    BY <2>1, <2>2, <2>3, <2>4 DEF ReadOf
  <2>8. carried'[c] = Absent /\ c \notin closed' => read'[c] = 0
    BY <2>1, <2>3, <2>4 DEF ReadOf
  <2>9. previous'[c] # Absent => read'[c] = previous'[c] BY <2>4, <2>5
  <2>10. previous'[c] = Absent /\ c \notin closed' => read'[c] = 0
    BY <1>1, <2>1, <2>3, <2>4, <2>5 DEF ReadOf
  <2>11. snapshot' = NoneSent' BY <1>1 DEF NoneSent, Unseen
  <2> QED
    BY <2>1, <2>3, <2>5, <2>6, <2>7, <2>8, <2>9, <2>10, <2>11 DEF ReadOf
<1> QED BY <1>4, <1>5, <1>6, <1>7 DEF TrafficInv, ReadInOrder

LEMMA MaintainKeeps == TrafficInv /\ Maintain => TrafficInv' /\ OldestGoFirst
<1> SUFFICES ASSUME TrafficInv, Maintain PROVE TrafficInv' /\ OldestGoFirst OBVIOUS
<1>0. TrafficTyped /\ ReadInOrder /\ HistoryInv BY DEF TrafficInv
<1> DEFINE f == Recent(history, now, kept)
           changed == dirty \/ f # history
<1>1. kept \in Retention /\ history \in Histories /\ dirty \in BOOLEAN
  BY <1>0 DEF TrafficTyped
<1>2. f \in Histories /\ Trimmed(f, history) /\ Total(f) <= Total(read)
  BY <1>0, <1>1, RotatedIs
<1>3. /\ \/ changed /\ PersistHistory(f, kept)
         \/ /\ history' = f /\ dirty' = changed
            /\ UNCHANGED <<kept, document, trafficFaults>>
      /\ UNCHANGED <<coreVars, collectorVars, now, running, read>> /\ running
  BY DEF Maintain
<1> HIDE DEF f
<1>4. /\ HistoryInv' /\ Trimmed(history', history)
      /\ history' \in Histories /\ kept' \in Retention /\ dirty' \in BOOLEAN
      /\ document' \in [kept : Retention, records : Histories] /\ trafficFaults' \in Nat
  <2>1. CASE PersistHistory(f, kept)
    <3>1. read' = read BY <1>3
    <3>2. /\ HistoryInv' /\ Trimmed(history', f)
          /\ history' \in Histories /\ kept' \in Retention /\ dirty' \in BOOLEAN
          /\ document' \in [kept : Retention, records : Histories] /\ trafficFaults' \in Nat
      BY <1>0, <1>1, <1>2, <2>1, <3>1, PersistIs
    <3> QED BY <1>1, <1>2, <3>2, TailOfTail
  <2>2. CASE history' = f /\ dirty' = changed /\ UNCHANGED <<kept, document, trafficFaults>>
    <3>1. ~dirty' => ~dirty /\ history' = history BY <2>2
    <3>2. dirty' \in BOOLEAN BY <2>2
    <3>3. HistoryInv'
      BY <1>0, <1>2, <1>3, <2>2, <3>1 DEF HistoryInv, NeverOvercounted, Flushed
    <3> QED BY <1>0, <1>1, <1>2, <2>2, <3>2, <3>3 DEF TrafficTyped
  <2> QED BY <1>3, <2>1, <2>2
<1>5. ReadInOrder' BY <1>0, <1>3, ReadLeft DEF collectorVars
<1>6. TrafficTyped' BY <1>0, <1>3, <1>4 DEF TrafficTyped, coreVars, collectorVars
<1>7. OldestGoFirst BY <1>0, <1>4, OldestOfTail
<1> QED BY <1>4, <1>5, <1>6, <1>7 DEF TrafficInv

LEMMA SetRetentionKeeps == TrafficInv /\ SetRetention => TrafficInv' /\ OldestGoFirst
<1> SUFFICES ASSUME TrafficInv, SetRetention PROVE TrafficInv' /\ OldestGoFirst OBVIOUS
<1>0. TrafficTyped /\ ReadInOrder /\ HistoryInv BY DEF TrafficInv
<1>1. PICK period \in Retention : PersistHistory(Recent(history, now, period), period)
  BY DEF SetRetention
<1> DEFINE f == Recent(history, now, period)
<1>2. f \in Histories /\ Trimmed(f, history) /\ Total(f) <= Total(read)
  BY <1>0, RotatedIs
<1>3. PersistHistory(f, period) BY <1>1
<1>4. UNCHANGED <<coreVars, collectorVars, now, running, read>> BY DEF SetRetention
<1> HIDE DEF f
<1>5. /\ HistoryInv' /\ Trimmed(history', f)
      /\ history' \in Histories /\ kept' \in Retention /\ dirty' \in BOOLEAN
      /\ document' \in [kept : Retention, records : Histories] /\ trafficFaults' \in Nat
  BY <1>0, <1>2, <1>3, <1>4, PersistIs
<1>6. Trimmed(history', history)
  BY <1>0, <1>2, <1>5, TailOfTail DEF TrafficTyped
<1>7. ReadInOrder' BY <1>0, <1>4, ReadLeft DEF collectorVars
<1>8. TrafficTyped' BY <1>0, <1>4, <1>5 DEF TrafficTyped, coreVars, collectorVars
<1>9. OldestGoFirst BY <1>0, <1>6, OldestOfTail
<1> QED BY <1>5, <1>7, <1>8, <1>9 DEF TrafficInv

LEMMA ClearKeeps == TrafficInv /\ Clear => TrafficInv' /\ OldestGoFirst
<1> SUFFICES ASSUME TrafficInv, Clear PROVE TrafficInv' /\ OldestGoFirst OBVIOUS
<1>0. TrafficTyped /\ ReadInOrder /\ HistoryInv BY DEF TrafficInv
<1>1. PersistHistory(Empty, kept) /\ UNCHANGED <<coreVars, collectorVars, now, running, read>>
  BY DEF Clear
<1>2. Empty \in Histories BY EvictedEmpty
<1>3. Total(Empty) <= Total(read)
  <2>1. Total(Empty) = 0 BY BucketsAre, TotalOfNone DEF Empty
  <2>2. Total(read) \in Nat BY <1>0, TotalsAre
  <2> QED BY <2>1, <2>2
<1>4. /\ HistoryInv' /\ history' \in Histories /\ kept' \in Retention /\ dirty' \in BOOLEAN
      /\ document' \in [kept : Retention, records : Histories] /\ trafficFaults' \in Nat
  <2>1. kept \in Retention /\ read' = read BY <1>0, <1>1 DEF TrafficTyped
  <2> QED BY <1>0, <1>1, <1>2, <1>3, <2>1, PersistIs
<1>5. history' = Empty BY <1>1, EvictedEmpty DEF PersistHistory
<1>6. ReadInOrder' BY <1>0, <1>1, ReadLeft DEF collectorVars
<1>7. TrafficTyped' BY <1>0, <1>1, <1>4 DEF TrafficTyped, coreVars, collectorVars
<1> QED BY <1>4, <1>5, <1>6, <1>7 DEF TrafficInv, OldestGoFirst

\* The daemon stops: what was shown of a connection is forgotten, what was read is not.
LEMMA LeaveKeeps ==
    ASSUME TrafficTyped, ReadInOrder, Leave, UNCHANGED <<coreVars, read>>
    PROVE  /\ ReadInOrder'
           /\ running' = FALSE /\ snapshot' \in Counters /\ previous' \in Counters
           /\ initialized' \in BOOLEAN
<1>1. /\ running' = FALSE /\ snapshot' = NoneSent /\ previous' = Unseen
      /\ initialized' = FALSE
  BY DEF Leave
<1>2. ASSUME NEW c \in Conn PROVE ReadOf(c)'
  <2>1. ReadOf(c) BY DEF ReadInOrder
  <2>2. snapshot'[c] = Absent /\ previous'[c] = Absent /\ snapshot' = NoneSent'
    BY <1>1 DEF NoneSent, Unseen
  <2>3. carried[c] \in Nat \cup {Absent} BY DEF TrafficTyped, Counters
  <2>4. carried[c] >= Absent BY <2>3 DEF Absent
  <2> QED BY <1>1, <2>1, <2>2, <2>4 DEF ReadOf, coreVars
<1> QED BY <1>1, <1>2, NoneIsCounters DEF ReadInOrder

LEMMA ShutdownKeeps == TrafficInv /\ Shutdown => TrafficInv' /\ OldestGoFirst
<1> SUFFICES ASSUME TrafficInv, Shutdown PROVE TrafficInv' /\ OldestGoFirst OBVIOUS
<1>0. TrafficTyped /\ ReadInOrder /\ HistoryInv BY DEF TrafficInv
<1>1. Leave /\ Flush /\ UNCHANGED <<coreVars, now, read>> BY DEF Shutdown
<1>2. /\ ReadInOrder' /\ running' = FALSE /\ snapshot' \in Counters
      /\ previous' \in Counters /\ initialized' \in BOOLEAN
  BY <1>0, <1>1, LeaveKeeps
<1>3. history \in Histories /\ kept \in Retention BY <1>0 DEF TrafficTyped
<1>4. /\ HistoryInv' /\ Trimmed(history', history)
      /\ history' \in Histories /\ kept' \in Retention /\ dirty' \in BOOLEAN
      /\ document' \in [kept : Retention, records : Histories] /\ trafficFaults' \in Nat
  <2>1. CASE dirty
    <3>1. PersistHistory(history, kept) BY <1>1, <2>1 DEF Flush
    <3>2. Total(history) <= Total(read) BY <1>0 DEF HistoryInv, NeverOvercounted
    <3> QED BY <1>0, <1>1, <1>3, <3>1, <3>2, PersistIs
  <2>2. CASE ~dirty
    <3>1. UNCHANGED <<history, kept, dirty, document, trafficFaults>>
      BY <1>1, <2>2 DEF Flush
    <3>2. HistoryInv'
      BY <1>0, <1>1, <2>2, <3>1 DEF HistoryInv, NeverOvercounted, Flushed
    <3>3. \A b \in Buckets : history[b] \in Nat BY <1>3 DEF Histories
    <3>4. Trimmed(history, history) BY <1>3, <3>3 DEF Trimmed
    <3> QED BY <1>0, <3>1, <3>2, <3>4 DEF TrafficTyped
  <2> QED BY <2>1, <2>2
<1>5. TrafficTyped' BY <1>0, <1>1, <1>2, <1>4 DEF TrafficTyped, coreVars
<1>6. OldestGoFirst BY <1>0, <1>4, OldestOfTail
<1> QED BY <1>2, <1>4, <1>5, <1>6 DEF TrafficInv

LEMMA HistoryStays ==
    ASSUME TrafficTyped, history' = history PROVE OldestGoFirst
<1>1. \A b \in Buckets : history[b] >= history[b] BY DEF TrafficTyped, Histories
<1> QED BY <1>1 DEF OldestGoFirst

LEMMA KillDaemonKeeps == TrafficInv /\ KillDaemon => TrafficInv' /\ OldestGoFirst
<1> SUFFICES ASSUME TrafficInv, KillDaemon PROVE TrafficInv' /\ OldestGoFirst OBVIOUS
<1>0. TrafficTyped /\ ReadInOrder /\ HistoryInv BY DEF TrafficInv
<1>1. TrafficFault /\ Leave /\ UNCHANGED <<coreVars, historyVars, read>> BY DEF KillDaemon
<1>2. /\ ReadInOrder' /\ running' = FALSE /\ snapshot' \in Counters
      /\ previous' \in Counters /\ initialized' \in BOOLEAN
  BY <1>0, <1>1, LeaveKeeps
<1>3. HistoryInv' /\ trafficFaults' \in Nat BY <1>0, <1>1, FaultsLeft DEF historyVars
<1>4. TrafficTyped' BY <1>0, <1>1, <1>2, <1>3 DEF TrafficTyped, coreVars, historyVars
<1>5. OldestGoFirst BY <1>0, <1>1, HistoryStays DEF historyVars
<1> QED BY <1>2, <1>3, <1>4, <1>5 DEF TrafficInv

LEMMA StartDaemonKeeps == TrafficInv /\ StartDaemon => TrafficInv' /\ OldestGoFirst
<1> SUFFICES ASSUME TrafficInv, StartDaemon PROVE TrafficInv' /\ OldestGoFirst OBVIOUS
<1>0. TrafficTyped /\ ReadInOrder /\ HistoryInv BY DEF TrafficInv
<1>1. /\ ~running /\ running' = TRUE
      /\ history' = document.records /\ kept' = document.kept /\ dirty' = FALSE
      /\ UNCHANGED <<coreVars, collectorVars, now, document, read, trafficFaults>>
  BY DEF StartDaemon
<1>2. document.records \in Histories /\ document.kept \in Retention
  BY <1>0 DEF TrafficTyped
<1>3. HistoryInv' BY <1>0, <1>1 DEF HistoryInv, NeverOvercounted, Flushed
<1>4. ReadInOrder' BY <1>0, <1>1, ReadLeft DEF collectorVars
<1>5. TrafficTyped' BY <1>0, <1>1, <1>2 DEF TrafficTyped, coreVars, collectorVars
<1> QED BY <1>1, <1>3, <1>4, <1>5 DEF TrafficInv, OldestGoFirst

LEMMA PassKeeps == TrafficInv /\ Pass => TrafficInv' /\ OldestGoFirst
<1> SUFFICES ASSUME TrafficInv, Pass PROVE TrafficInv' /\ OldestGoFirst OBVIOUS
<1>0. TrafficTyped /\ ReadInOrder /\ HistoryInv BY DEF TrafficInv
<1>1. /\ now < MaxTime /\ now' = now + 1
      /\ UNCHANGED <<coreVars, collectorVars, kept, history, dirty, document, running, read,
                     trafficFaults>>
  BY DEF Pass
<1>2. now' \in Buckets
  BY <1>0, <1>1, TrafficAssumption DEF TrafficTyped, Buckets
<1>3. HistoryInv' BY <1>0, <1>1, HistoryLeft
<1>4. ReadInOrder' BY <1>0, <1>1, ReadLeft DEF collectorVars
<1>5. TrafficTyped' BY <1>0, <1>1, <1>2 DEF TrafficTyped, coreVars, collectorVars
<1>6. OldestGoFirst BY <1>0, <1>1, HistoryStays
<1> QED BY <1>3, <1>4, <1>5, <1>6 DEF TrafficInv

LEMMA TrafficStep == TrafficInv /\ TrafficNext => TrafficInv' /\ OldestGoFirst
<1> SUFFICES ASSUME TrafficInv, TrafficNext PROVE TrafficInv' /\ OldestGoFirst OBVIOUS
<1>0. TrafficTyped BY DEF TrafficInv
<1>1. CASE Carry BY <1>0, <1>1, CarryKeeps, HistoryStays DEF Carry, historyVars
<1>2. CASE CloseConnection
  BY <1>0, <1>2, CloseConnectionKeeps, HistoryStays DEF CloseConnection, historyVars
<1>3. CASE RestartCore
  BY <1>0, <1>3, RestartCoreKeeps, HistoryStays DEF RestartCore, historyVars
<1>4. CASE SendSnapshot
  BY <1>0, <1>4, SendSnapshotKeeps, HistoryStays DEF SendSnapshot, historyVars
<1>5. CASE Connect BY <1>0, <1>5, StreamKeeps, HistoryStays DEF Connect, historyVars
<1>6. CASE BreakStream BY <1>0, <1>6, StreamKeeps, HistoryStays DEF BreakStream, historyVars
<1>7. CASE Accumulate BY <1>7, AccumulateKeeps
<1>8. CASE Maintain BY <1>8, MaintainKeeps
<1>9. CASE SetRetention BY <1>9, SetRetentionKeeps
<1>10. CASE Clear BY <1>10, ClearKeeps
<1>11. CASE Shutdown BY <1>11, ShutdownKeeps
<1>12. CASE KillDaemon BY <1>12, KillDaemonKeeps
<1>13. CASE StartDaemon BY <1>13, StartDaemonKeeps
<1>14. CASE Pass BY <1>14, PassKeeps
<1> QED
  BY <1>1, <1>2, <1>3, <1>4, <1>5, <1>6, <1>7, <1>8, <1>9, <1>10, <1>11, <1>12, <1>13, <1>14
  DEF TrafficNext

LEMMA TrafficStays == TrafficInv /\ UNCHANGED trafficVars => TrafficInv'
<1> SUFFICES ASSUME TrafficInv, UNCHANGED trafficVars PROVE TrafficInv' OBVIOUS
<1>0. TrafficTyped /\ ReadInOrder /\ HistoryInv BY DEF TrafficInv
<1>1. UNCHANGED <<coreVars, collectorVars, historyVars, running, read, trafficFaults>>
  BY DEF trafficVars
<1>2. HistoryInv' BY <1>0, <1>1, HistoryLeft DEF historyVars
<1>3. ReadInOrder' BY <1>0, <1>1, ReadLeft DEF collectorVars
<1>4. TrafficTyped' BY <1>0, <1>1 DEF TrafficTyped, coreVars, collectorVars, historyVars
<1> QED BY <1>2, <1>3, <1>4 DEF TrafficInv

LEMMA TrafficHonest == TrafficInv => HistoryHonest
BY DEF TrafficInv, HistoryInv, Flushed, HistoryHonest, StopLosesNothing

\* A byte is counted once at most, whichever of the stream, the core and the daemon restart
\* between two snapshots; an orderly stop loses nothing; and what goes is the oldest.
THEOREM HistoryAlwaysHonest == TrafficSpec => TrafficKept
<1>1. TrafficInv /\ [TrafficNext]_trafficVars => TrafficInv' BY TrafficStep, TrafficStays
<1>2. TrafficInv /\ [TrafficNext]_trafficVars => [HistoryHonest' /\ OldestGoFirst]_trafficVars
  <2> SUFFICES ASSUME TrafficInv, TrafficNext PROVE HistoryHonest' /\ OldestGoFirst OBVIOUS
  <2>1. TrafficInv' /\ OldestGoFirst BY TrafficStep
  <2>2. (TrafficInv => HistoryHonest)' BY TrafficHonest, PTL
  <2> QED BY <2>1, <2>2
<1> QED BY <1>1, <1>2, TrafficBegins, PTL DEF TrafficSpec, TrafficKept
===============================================================================
