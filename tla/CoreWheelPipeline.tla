------------------------- MODULE CoreWheelPipeline -------------------------
(***************************************************************************)
(* The Core wheels of the CI runs (.github/workflows/ci.yml and            *)
(* warm-ci-caches.yml): for every platform a job restores the wheels of    *)
(* the pinned Core revision from a cache that all runs share, or builds    *)
(* them, checks them, uploads them for the tests of its own run and, when  *)
(* it succeeded, saves them for others.  The tests need all of the build   *)
(* jobs, the gate needs every lane.  Runs of one concurrency group follow  *)
(* each other: a newer one replaces the one that waits, and cancels the    *)
(* one at work where the workflow says so, at any point of its jobs.       *)
(*                                                                         *)
(* A wheel is its distribution, Core revision and platform.  The lanes     *)
(* that do not use the wheels touch nothing here: their results are drawn  *)
(* when the gate looks at them.                                            *)
(***************************************************************************)
EXTENDS FiniteSets

CONSTANTS Runs,      (* the runs of both workflows                          *)
          Event,     (* of a run: "pull_request" or "push", which stands    *)
                     (* for merge groups and dispatches too, or "warm"      *)
          Ref,       (* of a run: its branch or pull request                *)
          Revision,  (* of a run: its MARTY_CORE_REVISION                   *)
          Exporting, (* the revisions whose wheels export what is expected  *)
          MainRef,   (* the default branch                                  *)
          Platforms  (* the platforms of the build jobs                     *)

ASSUME PipelineAssumption ==
  /\ \A r \in Runs : Event[r] \in {"pull_request", "push", "warm"}
  /\ "Linux" \in Platforms

VARIABLES
  phase,     (* of a run: "never" or "none" (yet) triggered, "pending",     *)
             (* "replaced", "running" or "cancelled"                        *)
  job,       (* of a run's build job on a platform: the step it is at or    *)
             (* how it ended, whether the cache was hit, core-wheels        *)
  cache,     (* the entries of the cache                                    *)
  artifacts, (* of a run: the wheels uploaded, by platform                  *)
  tests,     (* of a run: result of test-python, "waiting" before           *)
  gate       (* of a run: result of the gate                                *)

vars == <<phase, job, cache, artifacts, tests, gate>>

-----------------------------------------------------------------------------
Ci == {r \in Runs : Event[r] # "warm"}

(* Pull requests are built on one platform only.                           *)
PlatformsOf(r) == IF Event[r] = "pull_request" THEN {"Linux"} ELSE Platforms

Slots == {s \in Runs \X Platforms : s[2] \in PlatformsOf(s[1])}

Dists == {"marty_rs", "marty_verification_py"}

Wheel(d, r, p) == [dist |-> d, revision |-> Revision[r], platform |-> p]
PinnedWheels(r, p) == {Wheel(d, r, p) : d \in Dists}

(* Mutation: the key does not name the revision.                           *)
KeyOfPlatform(r, p) == <<p, "v5">>

Key(r, p) == <<p, Revision[r]>>

Ends == {"success", "failure", "cancelled"}

JobsEnded(r)     == \A p \in PlatformsOf(r) : job[<<r, p>>].step \in Ends
JobsSucceeded(r) == \A p \in PlatformsOf(r) : job[<<r, p>>].step = "success"

At(r, p, step) == job[<<r, p>>].step = step
Goto(r, p, step) == job' = [job EXCEPT ![<<r, p>>].step = step]
(* A job that ends leaves no files behind.                                 *)
Blank(step) == [step |-> step, hit |-> FALSE, wheels |-> {}]
End(r, p, result) == job' = [job EXCEPT ![<<r, p>>] = Blank(result)]

-----------------------------------------------------------------------------
(* Concurrency groups                                                      *)

Rivals(r) == {q \in Runs \ {r} : Ref[q] = Ref[r] /\ (q \in Ci <=> r \in Ci)}

CancelInProgress(r) == Event[r] \in {"pull_request", "warm"}

Over(r) == IF r \in Ci THEN gate[r] # "waiting" ELSE JobsEnded(r)
Active(r) == phase[r] \in {"running", "cancelled"} /\ ~Over(r)

(* A push, a new commit of a pull request or a dispatch starts a workflow. *)
Trigger(r) ==
  /\ phase[r] = "none"
  /\ phase' = [q \in Runs |->
                 CASE q = r -> "pending"
                   [] q \in Rivals(r) /\ phase[q] = "pending" -> "replaced"
                   [] q \in Rivals(r) /\ Active(q) /\ CancelInProgress(r) -> "cancelled"
                   [] OTHER -> phase[q]]
  /\ UNCHANGED <<job, cache, artifacts, tests, gate>>

StartRun(r) ==
  /\ phase[r] = "pending"
  /\ \A q \in Rivals(r) : ~Active(q)
  /\ phase' = [phase EXCEPT ![r] = "running"]
  /\ UNCHANGED <<job, cache, artifacts, tests, gate>>

-----------------------------------------------------------------------------
(* build-core-python-wheels, core-python-wheels                            *)

(* External (actions/cache): an entry is found under its exact key, if it  *)
(* was saved by this branch or pull request or by the default branch.      *)
Visible(e, r, p) == e.key = Key(r, p) /\ e.scope \in {Ref[r], MainRef}

(* A cache that cannot be reached counts as a miss.                        *)
Restore(r, p) ==
  /\ phase[r] = "running" /\ At(r, p, "queued")
  /\ \/ \E e \in {c \in cache : Visible(c, r, p)} :
          job' = [job EXCEPT ![<<r, p>>] = [step |-> "check", hit |-> TRUE, wheels |-> e.wheels]]
     \/ Goto(r, p, "build")
  /\ UNCHANGED <<phase, cache, artifacts, tests, gate>>

(* The two builds are commands of one step.  In ci.yml the step names no   *)
(* shell, and PowerShell, the default on Windows, goes on when the first   *)
(* one fails; only the status of the second ends the step.                 *)
Built(r, p) ==
  {PinnedWheels(r, p)} \cup
  (IF r \in Ci /\ p = "Windows" THEN {{Wheel("marty_verification_py", r, p)}} ELSE {})

Build(r, p) ==
  /\ At(r, p, "build")
  /\ \E w \in Built(r, p) :
       job' = [job EXCEPT ![<<r, p>>] = [step |-> "check", hit |-> FALSE, wheels |-> w]]
  /\ UNCHANGED <<phase, cache, artifacts, tests, gate>>

(* One wheel of each distribution.                                         *)
BothDistributions(w) == \A d \in Dists : Cardinality({x \in w : x.dist = d}) = 1

(* The wheels are uploaded for the tests; the warming workflow has none.   *)
UploadIfTested(r, p) ==
  artifacts' = IF r \notin Ci THEN artifacts
               ELSE [artifacts EXCEPT ![r] =
                       [x \in DOMAIN artifacts[r] \cup {p} |->
                          IF x = p THEN job[<<r, p>>].wheels ELSE artifacts[r][x]]]

ExportsValid(w) == \A x \in w : x.revision \in Exporting

(* Mutation: any number of wheels will do.                                 *)
CheckNothing(r, p) ==
  /\ At(r, p, "check")
  /\ r \in Ci => ExportsValid(job[<<r, p>>].wheels)
  /\ UploadIfTested(r, p)
  /\ Goto(r, p, "save")
  /\ UNCHANGED <<phase, cache, tests, gate>>

(* Mutation: only wheels that were built here are validated.               *)
CheckBuiltOnly(r, p) ==
  /\ At(r, p, "check")
  /\ r \in Ci /\ ~job[<<r, p>>].hit => ExportsValid(job[<<r, p>>].wheels)
  /\ BothDistributions(job[<<r, p>>].wheels)
  /\ UploadIfTested(r, p)
  /\ Goto(r, p, "save")
  /\ UNCHANGED <<phase, cache, tests, gate>>

(* Exports are validated in ci.yml only, of restored wheels too.           *)
Check(r, p) ==
  /\ At(r, p, "check")
  /\ r \in Ci => ExportsValid(job[<<r, p>>].wheels)
  /\ BothDistributions(job[<<r, p>>].wheels)
  /\ UploadIfTested(r, p)
  /\ Goto(r, p, "save")
  /\ UNCHANGED <<phase, cache, tests, gate>>

(* External (actions/cache): after a job's steps succeeded, wheels that    *)
(* were not restored are saved, unless the key is taken in this scope or   *)
(* the cache cannot be reached.                                            *)
Saved(r, p) ==
  [key |-> Key(r, p), scope |-> Ref[r], wheels |-> job[<<r, p>>].wheels]

Save(r, p) ==
  /\ At(r, p, "save")
  /\ \/ UNCHANGED cache
     \/ /\ ~job[<<r, p>>].hit
        /\ \A e \in cache : ~(e.key = Key(r, p) /\ e.scope = Ref[r])
        /\ cache' = cache \cup {Saved(r, p)}
  /\ End(r, p, "success")
  /\ UNCHANGED <<phase, artifacts, tests, gate>>

(* A checkout, a tool, a build, an export that is missing, an upload.      *)
StepFails(r, p) ==
  /\ job[<<r, p>>].step \in {"build", "check"}
  /\ End(r, p, "failure")
  /\ UNCHANGED <<phase, cache, artifacts, tests, gate>>

(* The job hears of the cancellation; until then it goes on.               *)
CancelJob(r, p) ==
  /\ phase[r] = "cancelled" /\ job[<<r, p>>].step \notin Ends
  /\ End(r, p, "cancelled")
  /\ UNCHANGED <<phase, cache, artifacts, tests, gate>>

-----------------------------------------------------------------------------
(* test-python, the other lanes and the gate                               *)

(* Every leg downloads the artifact its run uploaded for its platform, and *)
(* installs exactly two wheels.                                            *)
TestPython(r) ==
  /\ r \in Ci /\ tests[r] = "waiting" /\ JobsSucceeded(r)
  /\ \/ /\ \A p \in PlatformsOf(r) :
             p \in DOMAIN artifacts[r] /\ Cardinality(artifacts[r][p]) = 2
        /\ tests' = [tests EXCEPT ![r] = "success"]
     \/ tests' = [tests EXCEPT ![r] = "failure"]
  /\ UNCHANGED <<phase, job, cache, artifacts, gate>>

(* A job whose needs did not succeed is skipped.                           *)
TestPythonNotRun(r) ==
  /\ r \in Ci /\ tests[r] = "waiting" /\ phase[r] \in {"running", "cancelled"}
  /\ \/ /\ JobsEnded(r) /\ ~JobsSucceeded(r)
        /\ tests' = [tests EXCEPT ![r] = "skipped"]
     \/ /\ phase[r] = "cancelled"
        /\ tests' = [tests EXCEPT ![r] = "cancelled"]
  /\ UNCHANGED <<phase, job, cache, artifacts, gate>>

LanesEnded(r) == JobsEnded(r) /\ tests[r] # "waiting"

(* The results of the other lanes: no lane is cancelled in a run that is   *)
(* not.                                                                    *)
OtherResults(r) == {"success", "failure"} \cup
                   (IF phase[r] = "cancelled" THEN {"cancelled"} ELSE {})

(* Mutation: a lane that failed is refused, one that did not run is not.   *)
CiGateAllowingSkipped(r) ==
  /\ r \in Ci /\ gate[r] = "waiting" /\ LanesEnded(r)
  /\ \E others \in OtherResults(r) :
       gate' = [gate EXCEPT ![r] =
                  IF "failure" \in {tests[r], others} THEN "failure" ELSE "success"]
  /\ UNCHANGED <<phase, job, cache, artifacts, tests>>

(* Mutation: without "if: always()" a gate does not run after a failure.   *)
CiGateWithoutAlways(r) ==
  /\ r \in Ci /\ gate[r] = "waiting" /\ LanesEnded(r)
  /\ JobsSucceeded(r) /\ tests[r] = "success"
  /\ gate' = [gate EXCEPT ![r] = "success"]
  /\ UNCHANGED <<phase, job, cache, artifacts, tests>>

(* Mutation: the gate does not need the build jobs, only their tests.      *)
CiGateNeedingTestsOnly(r) ==
  /\ r \in Ci /\ gate[r] = "waiting" /\ tests[r] # "waiting"
  /\ \E others \in OtherResults(r) :
       gate' = [gate EXCEPT ![r] =
                  IF JobsSucceeded(r) /\ tests[r] = "success" /\ others = "success"
                  THEN "success" ELSE "failure"]
  /\ UNCHANGED <<phase, job, cache, artifacts, tests>>

(* The gate runs whatever became of the lanes, and wants success of all.   *)
CiGate(r) ==
  /\ r \in Ci /\ gate[r] = "waiting" /\ LanesEnded(r)
  /\ \E others \in OtherResults(r) :
       gate' = [gate EXCEPT ![r] =
                  IF JobsSucceeded(r) /\ tests[r] = "success" /\ others = "success"
                  THEN "success" ELSE "failure"]
  /\ UNCHANGED <<phase, job, cache, artifacts, tests>>

(* External: an entry is deleted, for its age, for room, or by             *)
(* cleanup-ci-caches.yml once its pull request is closed.                  *)
Evict ==
  /\ \E e \in cache : cache' = cache \ {e}
  /\ UNCHANGED <<phase, job, artifacts, tests, gate>>

-----------------------------------------------------------------------------
Init ==
  /\ phase \in [Runs -> {"never", "none"}]
  /\ job = [s \in Slots |-> Blank("queued")]
  /\ cache = {}
  /\ artifacts = [r \in Runs |-> [p \in {} |-> {}]]
  /\ tests = [r \in Runs |-> "waiting"]
  /\ gate = [r \in Runs |-> "waiting"]

JobStep(r, p) ==
  \/ Restore(r, p) \/ Build(r, p) \/ Check(r, p) \/ Save(r, p)
  \/ StepFails(r, p) \/ CancelJob(r, p)

(* What the CI service does for a run that was triggered.                  *)
Progress(r) ==
  \/ StartRun(r)
  \/ \E p \in PlatformsOf(r) : JobStep(r, p)
  \/ TestPython(r) \/ TestPythonNotRun(r) \/ CiGate(r)

Next ==
  \/ \E r \in Runs : Trigger(r) \/ Progress(r)
  \/ Evict

Spec == Init /\ [][Next]_vars

(* Runs that were triggered get their runners, and every job ends: the     *)
(* service stops one that does not.                                        *)
Progressing == WF_vars(\E r \in Runs : Progress(r))

FairSpec == Spec /\ Progressing

-----------------------------------------------------------------------------
Wheels == {Wheel(d, r, p) : d \in Dists, r \in Runs, p \in Platforms}
WheelPairs == {w \in SUBSET Wheels : BothDistributions(w)}
Uploads == UNION {[S -> WheelPairs] : S \in SUBSET Platforms}
Results == {"waiting", "success", "failure", "cancelled", "skipped"}

TypeOK ==
  /\ phase \in [Runs -> {"never", "none", "pending", "replaced", "running", "cancelled"}]
  /\ job \in [Slots -> [step : {"queued", "build", "check", "save"} \cup Ends,
                        hit : BOOLEAN, wheels : SUBSET Wheels]]
  /\ \A e \in cache : /\ e = [key |-> e.key, scope |-> e.scope, wheels |-> e.wheels]
                       /\ e.key \in {Key(r, p) : r \in Runs, p \in Platforms}
                       /\ e.scope \in {Ref[r] : r \in Runs}
                       /\ e.wheels \subseteq Wheels
  /\ artifacts \in [Runs -> Uploads]
  /\ tests \in [Runs -> Results] /\ gate \in [Runs -> Results]

(* Whoever saved an entry, and whenever it was cancelled or failed: under  *)
(* a key lie both distributions, built of the revision and for the         *)
(* platform that the key names, for the run that restores them next.       *)
CachedWheelsAreKeyed ==
  \A e \in cache : \A r \in Runs : \A p \in PlatformsOf(r) :
    Visible(e, r, p) => e.wheels = PinnedWheels(r, p)

(* The gate of a run succeeds only when the tests ran, on every platform   *)
(* of the run, and were given both wheels of exactly the revision the run  *)
(* pins; tests that were skipped or cancelled do not pass.                 *)
GateVouchesForPinnedWheels ==
  \A r \in Ci :
    gate[r] = "success" =>
      /\ tests[r] = "success"
      /\ \A p \in PlatformsOf(r) :
           p \in DOMAIN artifacts[r] /\ artifacts[r][p] = PinnedWheels(r, p)

(* The tests are never given wheels without the expected exports, although *)
(* the cache may hold such wheels: the warming run saves what it has not   *)
(* validated.                                                              *)
TestedWheelsExport ==
  \A r \in Runs : \A p \in DOMAIN artifacts[r] : ExportsValid(artifacts[r][p])

(* What a step leaves of what was judged in a run.                         *)
JudgedKept(r) ==
  /\ tests[r] \in {"success", "failure"} =>
       tests'[r] = tests[r] /\ artifacts'[r] = artifacts[r]
  /\ gate[r] # "waiting" =>
       /\ gate'[r] = gate[r] /\ tests'[r] = tests[r] /\ artifacts'[r] = artifacts[r]
       /\ \A p \in PlatformsOf(r) : job'[<<r, p>>] = job[<<r, p>>]

EveryVerdictKept == \A r \in Ci : JudgedKept(r)

(* What was judged stays what it was: no step replaces what the tests were *)
(* given once they ran, and a run that has its verdict, a cancelled one    *)
(* too, has no job left that uploads, saves or ends otherwise.             *)
VerdictsAreFinal == [][EveryVerdictKept]_vars

Promise ==
  INSTANCE WheelPromise WITH Valid <- {r \in Runs : Revision[r] \in Exporting}

(* Whatever the cache holds, whoever saved or evicts it and whichever run  *)
(* cancels which: what is tested and judged is what it would be if every   *)
(* run built its own wheels (the promise of WheelPromise).                 *)
KeepsPromise == Promise!Spec

(* A run that was triggered gets a verdict from its gate, also when lanes  *)
(* fail, are skipped or the run is cancelled, unless a newer run replaced  *)
(* it before it started.                                                   *)
VerdictReached ==
  \A r \in Ci : phase[r] = "pending" ~> (gate[r] # "waiting" \/ phase[r] = "replaced")
=============================================================================
