---------------------- MODULE CoreWheelPipelineProofs ----------------------
(***************************************************************************)
(* Theorems about CoreWheelPipeline for every set of runs, revisions and   *)
(* platforms.  The argument: the wheels a job holds were either built by   *)
(* it or restored under a key that names what they are, so that, once a    *)
(* wheel of each distribution is known to be there, they are the pinned    *)
(* ones.                                                                   *)
(***************************************************************************)
EXTENDS CoreWheelPipeline, FiniteSetTheorems, TLAPS

(* A job's wheels are pinned ones, and all of them once it checked them.   *)
JobWheels ==
  \A r \in Runs : \A p \in PlatformsOf(r) :
    /\ job[<<r, p>>].wheels \subseteq PinnedWheels(r, p)
    /\ job[<<r, p>>].step = "save" => job[<<r, p>>].wheels = PinnedWheels(r, p)

(* What is cached was pinned by a run with the key.                        *)
CacheOrigin ==
  \A e \in cache : \E r \in Runs : \E p \in PlatformsOf(r) :
    e = [key |-> Key(r, p), scope |-> Ref[r], wheels |-> PinnedWheels(r, p)]

(* What is uploaded is pinned, and a job that went past the checks, or     *)
(* succeeded, did upload.                                                  *)
ArtifactsPinned ==
  \A r \in Ci : \A p \in PlatformsOf(r) :
    /\ p \in DOMAIN artifacts[r] => artifacts[r][p] = PinnedWheels(r, p)
    /\ job[<<r, p>>].step \in {"save", "success"} => p \in DOMAIN artifacts[r]

(* A gate that succeeded saw jobs that had succeeded.                      *)
GateSaw ==
  \A r \in Ci : gate[r] = "success" => JobsSucceeded(r) /\ tests[r] = "success"

(* What TypeOK says of a job.                                              *)
JobRecords == [step : {"queued", "build", "check", "save"} \cup Ends,
               hit : BOOLEAN, wheels : SUBSET Wheels]

(* The inductive invariant.                                                *)
IInv == TypeOK /\ JobWheels /\ CacheOrigin /\ ArtifactsPinned /\ TestedWheelsExport
        /\ GateSaw

-----------------------------------------------------------------------------
(* Wheels                                                                  *)

LEMMA PinnedAreWheels ==
  ASSUME NEW r \in Runs, NEW p \in PlatformsOf(r)
  PROVE  /\ p \in Platforms
         /\ PinnedWheels(r, p) \in WheelPairs
<1>1. p \in Platforms
  BY PipelineAssumption DEF PlatformsOf
<1>2. PinnedWheels(r, p) \in SUBSET Wheels
  BY <1>1 DEF PinnedWheels, Wheels
<1>3. ASSUME NEW d \in Dists
      PROVE  Cardinality({x \in PinnedWheels(r, p) : x.dist = d}) = 1
  <2>1. {x \in PinnedWheels(r, p) : x.dist = d} = {Wheel(d, r, p)}
    BY DEF PinnedWheels, Wheel
  <2> QED BY <2>1, FS_Singleton
<1> QED BY <1>1, <1>2, <1>3 DEF WheelPairs, BothDistributions

(* Pinned wheels of both distributions are all of them.                    *)
LEMMA BothAreAll ==
  ASSUME NEW r \in Runs, NEW p, NEW w \in SUBSET PinnedWheels(r, p), BothDistributions(w)
  PROVE  w = PinnedWheels(r, p)
<1>1. ASSUME NEW d \in Dists
      PROVE  Wheel(d, r, p) \in w
  <2>1. {x \in w : x.dist = d} # {}
    BY FS_EmptySet DEF BothDistributions
  <2>2. PICK x \in w : x.dist = d
    BY <2>1
  <2>3. x \in PinnedWheels(r, p)
    OBVIOUS
  <2>4. PICK c \in Dists : x = Wheel(c, r, p)
    BY <2>3 DEF PinnedWheels
  <2>5. c = d
    BY <2>2, <2>4 DEF Wheel
  <2> QED BY <2>4, <2>5
<1> QED BY <1>1 DEF PinnedWheels

(* Runs with the same key pin the same wheels.                             *)
LEMMA KeyNamesWheels ==
  ASSUME NEW r \in Runs, NEW p, NEW q \in Runs, NEW x, Key(r, p) = Key(q, x)
  PROVE  PinnedWheels(r, p) = PinnedWheels(q, x)
BY DEF Key, PinnedWheels, Wheel

(* Every build job of a run has a slot.                                    *)
LEMMA SlotsAreJobs ==
  \A r \in Runs : \A p \in PlatformsOf(r) : <<r, p>> \in Slots
BY PipelineAssumption DEF Slots, PlatformsOf

(* An entry that a run sees holds what the run pins.                       *)
LEMMA VisibleIsPinned ==
  ASSUME CacheOrigin, NEW e \in cache, NEW r \in Runs, NEW p \in PlatformsOf(r),
         Visible(e, r, p)
  PROVE  e.wheels = PinnedWheels(r, p)
<1>1. PICK q \in Runs : \E x \in PlatformsOf(q) :
        e = [key |-> Key(q, x), scope |-> Ref[q], wheels |-> PinnedWheels(q, x)]
  BY DEF CacheOrigin
<1>2. PICK x \in PlatformsOf(q) :
        e = [key |-> Key(q, x), scope |-> Ref[q], wheels |-> PinnedWheels(q, x)]
  BY <1>1
<1>3. Key(q, x) = Key(r, p) /\ e.wheels = PinnedWheels(q, x)
  BY <1>2 DEF Visible
<1> QED BY <1>3, KeyNamesWheels

-----------------------------------------------------------------------------
(* Initially                                                               *)

LEMMA Initially == Init => IInv
<1> SUFFICES ASSUME Init PROVE IInv
  OBVIOUS
<1> USE DEF Init
<1>1. \A r \in Runs : \A p \in PlatformsOf(r) : <<r, p>> \in Slots
  BY SlotsAreJobs
<1>2. TypeOK
  <2>1. job \in [Slots -> [step : {"queued", "build", "check", "save"} \cup Ends,
                           hit : BOOLEAN, wheels : SUBSET Wheels]]
    BY DEF Blank
  <2>2. artifacts \in [Runs -> Uploads]
    <3>1. [p \in {} |-> {}] \in [{} -> WheelPairs]
      OBVIOUS
    <3>2. [p \in {} |-> {}] \in Uploads
      BY <3>1 DEF Uploads
    <3> QED BY <3>2
  <2>3. phase \in [Runs -> {"never", "none", "pending", "replaced", "running", "cancelled"}]
    OBVIOUS
  <2> QED BY <2>1, <2>2, <2>3 DEF TypeOK, Results
<1>3. JobWheels
  BY <1>1 DEF JobWheels, Blank
<1>4. CacheOrigin
  BY DEF CacheOrigin
<1>5. ArtifactsPinned
  BY <1>1 DEF ArtifactsPinned, Blank, Ci
<1>6. GateSaw
  BY DEF GateSaw, Ci
<1>7. TestedWheelsExport
  BY DEF TestedWheelsExport
<1> QED BY <1>2, <1>3, <1>4, <1>5, <1>6, <1>7 DEF IInv

-----------------------------------------------------------------------------
(* Steps of jobs                                                           *)

(* A job that goes on, with wheels that are pinned.                        *)
LEMMA JobMoves ==
  ASSUME IInv, NEW r \in Runs, NEW p \in PlatformsOf(r), NEW rec \in JobRecords,
         job[<<r, p>>].step # "success", job' = [job EXCEPT ![<<r, p>>] = rec],
         rec.wheels \subseteq PinnedWheels(r, p),
         rec.step = "save" => rec.wheels = PinnedWheels(r, p),
         UNCHANGED <<tests, gate>>
  PROVE  /\ job' \in [Slots -> JobRecords]
         /\ \A q \in Runs : \A x \in PlatformsOf(q) :
              job'[<<q, x>>] = IF q = r /\ x = p THEN rec ELSE job[<<q, x>>]
         /\ JobWheels'
         /\ GateSaw'
<1>1. job \in [Slots -> JobRecords]
  BY DEF IInv, TypeOK, JobRecords
<1>2. \A q \in Runs : \A x \in PlatformsOf(q) : <<q, x>> \in Slots
  BY SlotsAreJobs
<1>3. job' \in [Slots -> JobRecords]
  BY <1>1
<1>4. ASSUME NEW q \in Runs, NEW x \in PlatformsOf(q)
      PROVE  job'[<<q, x>>] = IF q = r /\ x = p THEN rec ELSE job[<<q, x>>]
  <2>1. <<q, x>> \in Slots
    BY <1>2
  <2>2. <<q, x>> = <<r, p>> <=> q = r /\ x = p
    OBVIOUS
  <2> QED BY <1>1, <2>1, <2>2
<1>5. JobWheels'
  <2> SUFFICES ASSUME NEW q \in Runs, NEW x \in PlatformsOf(q)
               PROVE  /\ job'[<<q, x>>].wheels \subseteq PinnedWheels(q, x)
                      /\ job'[<<q, x>>].step = "save" => job'[<<q, x>>].wheels = PinnedWheels(q, x)
    BY DEF JobWheels
  <2>1. /\ job[<<q, x>>].wheels \subseteq PinnedWheels(q, x)
        /\ job[<<q, x>>].step = "save" => job[<<q, x>>].wheels = PinnedWheels(q, x)
    BY DEF IInv, JobWheels
  <2> QED BY <1>4, <2>1
<1>6. GateSaw'
  <2>1. ASSUME NEW q \in Ci, gate[q] = "success", NEW x \in PlatformsOf(q)
        PROVE  job'[<<q, x>>].step = "success"
    <3>1. job[<<q, x>>].step = "success" /\ q \in Runs
      BY <2>1 DEF IInv, GateSaw, JobsSucceeded, Ci
    <3> QED BY <1>4, <3>1
  <2>2. \A q \in Ci : gate[q] = "success" => tests[q] = "success"
    BY DEF IInv, GateSaw
  <2> QED BY <2>1, <2>2 DEF GateSaw, JobsSucceeded
<1> QED BY <1>3, <1>4, <1>5, <1>6

(* A job that goes on and uploads nothing.                                 *)
LEMMA JobMovesQuietly ==
  ASSUME IInv, NEW r \in Runs, NEW p \in PlatformsOf(r), NEW rec \in JobRecords,
         job[<<r, p>>].step # "success", job' = [job EXCEPT ![<<r, p>>] = rec],
         rec.wheels \subseteq PinnedWheels(r, p), rec.step # "save",
         rec.step = "success" => job[<<r, p>>].step = "save",
         UNCHANGED <<phase, artifacts, tests, gate>>
  PROVE  /\ job' \in [Slots -> JobRecords]
         /\ JobWheels' /\ ArtifactsPinned' /\ GateSaw'
<1>1. /\ job' \in [Slots -> JobRecords]
      /\ \A q \in Runs : \A x \in PlatformsOf(q) :
           job'[<<q, x>>] = IF q = r /\ x = p THEN rec ELSE job[<<q, x>>]
      /\ JobWheels' /\ GateSaw'
  BY JobMoves
<1>2. ArtifactsPinned'
  <2> SUFFICES ASSUME NEW q \in Ci, NEW x \in PlatformsOf(q)
               PROVE  /\ x \in DOMAIN artifacts[q] => artifacts[q][x] = PinnedWheels(q, x)
                      /\ job'[<<q, x>>].step \in {"save", "success"} => x \in DOMAIN artifacts[q]
    BY DEF ArtifactsPinned
  <2>1. /\ x \in DOMAIN artifacts[q] => artifacts[q][x] = PinnedWheels(q, x)
        /\ job[<<q, x>>].step \in {"save", "success"} => x \in DOMAIN artifacts[q]
    BY DEF IInv, ArtifactsPinned
  <2>2. job'[<<q, x>>] = IF q = r /\ x = p THEN rec ELSE job[<<q, x>>]
    BY <1>1 DEF Ci
  <2> QED BY <2>1, <2>2
<1> QED BY <1>1, <1>2

(* The type of the rest, when the cache stays as it is.                    *)
LEMMA TypeOfJobs ==
  ASSUME TypeOK, job' \in [Slots -> JobRecords],
         UNCHANGED <<phase, cache, artifacts, tests, gate>>
  PROVE  TypeOK'
BY DEF TypeOK, JobRecords

(* Restoring: what the key names is what the run pins.                     *)
LEMMA RestoreStep ==
  ASSUME IInv, NEW r \in Runs, NEW p \in PlatformsOf(r), Restore(r, p)
  PROVE  IInv'
<1>1. job[<<r, p>>] \in JobRecords /\ job \in [Slots -> JobRecords]
  BY SlotsAreJobs DEF IInv, TypeOK, JobRecords
<1>2. job[<<r, p>>].step = "queued"
  BY DEF Restore, At
<1>3. PICK rec \in JobRecords :
        /\ job' = [job EXCEPT ![<<r, p>>] = rec]
        /\ rec.wheels \subseteq PinnedWheels(r, p)
        /\ rec.step \in {"check", "build"}
  <2>1. CASE \E e \in {c \in cache : Visible(c, r, p)} :
               job' = [job EXCEPT ![<<r, p>>] =
                         [step |-> "check", hit |-> TRUE, wheels |-> e.wheels]]
    <3>1. PICK e \in cache :
            /\ Visible(e, r, p)
            /\ job' = [job EXCEPT ![<<r, p>>] =
                         [step |-> "check", hit |-> TRUE, wheels |-> e.wheels]]
      BY <2>1
    <3>2. e.wheels = PinnedWheels(r, p)
      BY <3>1, VisibleIsPinned DEF IInv
    <3>3. [step |-> "check", hit |-> TRUE, wheels |-> e.wheels] \in JobRecords
      BY <3>2, PinnedAreWheels DEF JobRecords, WheelPairs
    <3> QED BY <3>1, <3>2, <3>3
  <2>2. CASE Goto(r, p, "build")
    <3>1. job' = [job EXCEPT ![<<r, p>>] = [job[<<r, p>>] EXCEPT !.step = "build"]]
      BY <2>2 DEF Goto
    <3>2. [job[<<r, p>>] EXCEPT !.step = "build"] \in JobRecords
      BY <1>1 DEF JobRecords
    <3>3. [job[<<r, p>>] EXCEPT !.step = "build"].step = "build"
          /\ [job[<<r, p>>] EXCEPT !.step = "build"].wheels = job[<<r, p>>].wheels
      BY <1>1 DEF JobRecords
    <3>4. job[<<r, p>>].wheels \subseteq PinnedWheels(r, p)
      BY DEF IInv, JobWheels
    <3> QED BY <3>1, <3>2, <3>3, <3>4
  <2> QED BY <2>1, <2>2 DEF Restore
<1>4. UNCHANGED <<phase, cache, artifacts, tests, gate>>
  BY DEF Restore
<1>5. job' \in [Slots -> JobRecords] /\ JobWheels' /\ ArtifactsPinned' /\ GateSaw'
  BY <1>2, <1>3, <1>4, JobMovesQuietly
<1> QED BY <1>4, <1>5, TypeOfJobs DEF IInv, CacheOrigin, TestedWheelsExport

(* Building: pinned wheels, both or on Windows the second only.            *)
LEMMA BuildStep ==
  ASSUME IInv, NEW r \in Runs, NEW p \in PlatformsOf(r), Build(r, p)
  PROVE  IInv'
<1>1. PICK w \in Built(r, p) :
        job' = [job EXCEPT ![<<r, p>>] = [step |-> "check", hit |-> FALSE, wheels |-> w]]
  BY DEF Build
<1>2. w \subseteq PinnedWheels(r, p)
  BY DEF Built, PinnedWheels, Dists
<1>3. [step |-> "check", hit |-> FALSE, wheels |-> w] \in JobRecords
  BY <1>2, PinnedAreWheels DEF JobRecords, WheelPairs
<1>4. job[<<r, p>>].step = "build" /\ UNCHANGED <<phase, cache, artifacts, tests, gate>>
  BY DEF Build, At
<1>5. job' \in [Slots -> JobRecords] /\ JobWheels' /\ ArtifactsPinned' /\ GateSaw'
  BY <1>1, <1>2, <1>3, <1>4, JobMovesQuietly
<1> QED BY <1>4, <1>5, TypeOfJobs DEF IInv, CacheOrigin, TestedWheelsExport

(* Wheels that pass the checks are the pinned ones, and export what they   *)
(* should where that is asked.                                             *)
LEMMA CheckedArePinned ==
  ASSUME IInv, NEW r \in Runs, NEW p \in PlatformsOf(r), Check(r, p)
  PROVE  /\ job[<<r, p>>].wheels = PinnedWheels(r, p)
         /\ r \in Ci => Revision[r] \in Exporting
<1>1. job[<<r, p>>].wheels = PinnedWheels(r, p)
  <2>1. job[<<r, p>>].wheels \subseteq PinnedWheels(r, p)
    BY DEF IInv, JobWheels
  <2> QED BY <2>1, BothAreAll DEF Check
<1>2. ASSUME r \in Ci PROVE Revision[r] \in Exporting
  <2>1. Wheel("marty_rs", r, p) \in job[<<r, p>>].wheels
    BY <1>1 DEF PinnedWheels, Dists
  <2> QED BY <1>2, <2>1 DEF Check, ExportsValid, Wheel
<1> QED BY <1>1, <1>2

(* Checking: one wheel of each distribution are both pinned wheels, and    *)
(* these are what a tested run uploads.                                    *)
LEMMA CheckStep ==
  ASSUME IInv, NEW r \in Runs, NEW p \in PlatformsOf(r), Check(r, p)
  PROVE  IInv'
<1> DEFINE rec == [job[<<r, p>>] EXCEPT !.step = "save"]
<1>1. job[<<r, p>>] \in JobRecords /\ job \in [Slots -> JobRecords]
  BY SlotsAreJobs DEF IInv, TypeOK, JobRecords
<1>2. job[<<r, p>>].wheels = PinnedWheels(r, p)
  BY CheckedArePinned
<1>3. /\ rec \in JobRecords /\ rec.step = "save" /\ rec.wheels = PinnedWheels(r, p)
      /\ job' = [job EXCEPT ![<<r, p>>] = rec]
  BY <1>1, <1>2 DEF JobRecords, Check, Goto
<1>4. job[<<r, p>>].step = "check" /\ UNCHANGED <<phase, cache, tests, gate>>
  BY DEF Check, At
<1> HIDE DEF rec
<1>5. /\ job' \in [Slots -> JobRecords]
      /\ \A q \in Runs : \A x \in PlatformsOf(q) :
           job'[<<q, x>>] = IF q = r /\ x = p THEN rec ELSE job[<<q, x>>]
      /\ JobWheels' /\ GateSaw'
  BY <1>3, <1>4, JobMoves
<1>6. artifacts' \in [Runs -> Uploads] /\ ArtifactsPinned'
  <2>1. artifacts \in [Runs -> Uploads]
    BY DEF IInv, TypeOK
  <2>2. CASE r \notin Ci
    <3>1. artifacts' = artifacts
      BY <2>2 DEF Check, UploadIfTested
    <3>2. ArtifactsPinned'
      BY <2>2, <3>1, <1>5 DEF IInv, ArtifactsPinned, Ci
    <3> QED BY <2>1, <3>1, <3>2
  <2>3. CASE r \in Ci
    <3> DEFINE new == [x \in DOMAIN artifacts[r] \cup {p} |->
                         IF x = p THEN PinnedWheels(r, p) ELSE artifacts[r][x]]
    <3>1. artifacts' = [artifacts EXCEPT ![r] = new]
      BY <1>2, <2>3 DEF Check, UploadIfTested
    <3>2. new \in Uploads
      <4>1. PICK S \in SUBSET Platforms : artifacts[r] \in [S -> WheelPairs]
        BY <2>1 DEF Uploads
      <4>2. S \cup {p} \in SUBSET Platforms /\ DOMAIN artifacts[r] = S
        BY <4>1, PinnedAreWheels
      <4>3. new \in [S \cup {p} -> WheelPairs]
        BY <4>1, <4>2, PinnedAreWheels
      <4> QED BY <4>2, <4>3 DEF Uploads
    <3>3. DOMAIN new = DOMAIN artifacts[r] \cup {p}
          /\ \A x \in DOMAIN new : new[x] = IF x = p THEN PinnedWheels(r, p)
                                                     ELSE artifacts[r][x]
      OBVIOUS
    <3> HIDE DEF new
    <3>4. artifacts'[r] = new /\ \A q \in Runs \ {r} : artifacts'[q] = artifacts[q]
      BY <2>1, <3>1
    <3>5. ASSUME NEW q \in Ci, NEW x \in PlatformsOf(q)
          PROVE  /\ x \in DOMAIN artifacts'[q] => artifacts'[q][x] = PinnedWheels(q, x)
                 /\ job'[<<q, x>>].step \in {"save", "success"} => x \in DOMAIN artifacts'[q]
      <4>1. /\ x \in DOMAIN artifacts[q] => artifacts[q][x] = PinnedWheels(q, x)
            /\ job[<<q, x>>].step \in {"save", "success"} => x \in DOMAIN artifacts[q]
        BY DEF IInv, ArtifactsPinned
      <4>2. q \in Runs
        BY DEF Ci
      <4>3. CASE q = r
        BY <3>3, <3>4, <4>1, <4>2, <4>3, <1>5
      <4>4. CASE q # r
        BY <3>4, <4>1, <4>2, <4>4, <1>5
      <4> QED BY <4>3, <4>4
    <3>6. ArtifactsPinned'
      BY <3>5 DEF ArtifactsPinned, Ci, PlatformsOf, PinnedWheels, Wheel
    <3> QED BY <2>1, <3>1, <3>2, <3>6
  <2> QED BY <2>2, <2>3
<1>7. TypeOK'
  BY <1>4, <1>5, <1>6 DEF IInv, TypeOK, JobRecords
<1>8. TestedWheelsExport'
  <2>1. r \in Ci => ExportsValid(PinnedWheels(r, p))
    BY <1>2 DEF Check
  <2>2. ASSUME NEW q \in Runs, NEW x \in DOMAIN artifacts'[q]
        PROVE  ExportsValid(artifacts'[q][x])
    <3>1. artifacts \in [Runs -> Uploads]
      BY DEF IInv, TypeOK
    <3>2. CASE r \in Ci /\ q = r
      <4>1. artifacts'[q] = [y \in DOMAIN artifacts[r] \cup {p} |->
                               IF y = p THEN PinnedWheels(r, p) ELSE artifacts[r][y]]
        BY <1>2, <3>1, <3>2 DEF Check, UploadIfTested
      <4>2. x = p \/ x \in DOMAIN artifacts[r]
        BY <4>1
      <4> QED BY <4>1, <4>2, <2>1, <3>2 DEF IInv, TestedWheelsExport
    <3>3. CASE ~(r \in Ci /\ q = r)
      <4>1. artifacts'[q] = artifacts[q]
        BY <3>1, <3>3 DEF Check, UploadIfTested
      <4> QED BY <4>1 DEF IInv, TestedWheelsExport
    <3> QED BY <3>2, <3>3
  <2> QED BY <2>2 DEF TestedWheelsExport
<1> QED BY <1>4, <1>5, <1>6, <1>7, <1>8 DEF IInv, CacheOrigin

(* Ending: nothing is left of the job.                                     *)
LEMMA BlankRecord ==
  ASSUME NEW step \in Ends
  PROVE  Blank(step) \in JobRecords /\ Blank(step).step = step /\ Blank(step).wheels = {}
BY DEF Blank, JobRecords

(* Saving: what is saved was checked, and is what the key names.           *)
LEMMA SaveStep ==
  ASSUME IInv, NEW r \in Runs, NEW p \in PlatformsOf(r), Save(r, p)
  PROVE  IInv'
<1>1. /\ job[<<r, p>>].step = "save" /\ job[<<r, p>>].wheels = PinnedWheels(r, p)
      /\ UNCHANGED <<phase, artifacts, tests, gate>>
  BY DEF IInv, JobWheels, Save, At
<1>2. job' = [job EXCEPT ![<<r, p>>] = Blank("success")]
  BY DEF Save, End
<1>3. Blank("success") \in JobRecords /\ Blank("success").step = "success"
      /\ Blank("success").wheels = {}
  BY BlankRecord DEF Ends
<1>4. job' \in [Slots -> JobRecords] /\ JobWheels' /\ ArtifactsPinned' /\ GateSaw'
  BY <1>1, <1>2, <1>3, JobMovesQuietly
<1>5. cache' \subseteq cache \cup {Saved(r, p)}
  BY DEF Save
<1>6. Saved(r, p) = [key |-> Key(r, p), scope |-> Ref[r], wheels |-> PinnedWheels(r, p)]
  BY <1>1 DEF Saved
<1>7. CacheOrigin'
  <2>1. \A e \in cache' : \E q \in Runs : \E x \in PlatformsOf(q) :
          e = [key |-> Key(q, x), scope |-> Ref[q], wheels |-> PinnedWheels(q, x)]
    BY <1>5, <1>6 DEF IInv, CacheOrigin
  <2> QED BY <2>1 DEF CacheOrigin
<1>8. TypeOK'
  <2>1. ASSUME NEW e \in cache'
        PROVE  /\ e = [key |-> e.key, scope |-> e.scope, wheels |-> e.wheels]
               /\ e.key \in {Key(q, x) : q \in Runs, x \in Platforms}
               /\ e.scope \in {Ref[q] : q \in Runs}
               /\ e.wheels \subseteq Wheels
    <3>1. PICK q \in Runs : \E x \in PlatformsOf(q) :
            e = [key |-> Key(q, x), scope |-> Ref[q], wheels |-> PinnedWheels(q, x)]
      BY <1>7 DEF CacheOrigin
    <3>2. PICK x \in PlatformsOf(q) :
            e = [key |-> Key(q, x), scope |-> Ref[q], wheels |-> PinnedWheels(q, x)]
      BY <3>1
    <3>3. x \in Platforms /\ PinnedWheels(q, x) \subseteq Wheels
      BY PinnedAreWheels DEF WheelPairs
    <3> QED BY <3>2, <3>3
  <2> QED BY <2>1, <1>1, <1>4 DEF IInv, TypeOK, JobRecords
<1> QED BY <1>1, <1>4, <1>7, <1>8 DEF IInv, TestedWheelsExport

(* Failing or being cancelled: nothing is saved and nothing uploaded.      *)
LEMMA LostStep ==
  ASSUME IInv, NEW r \in Runs, NEW p \in PlatformsOf(r),
         StepFails(r, p) \/ CancelJob(r, p)
  PROVE  IInv'
<1>1. PICK result \in {"failure", "cancelled"} :
        job' = [job EXCEPT ![<<r, p>>] = Blank(result)]
  BY DEF StepFails, CancelJob, End
<1>2. Blank(result) \in JobRecords /\ Blank(result).step = result
      /\ Blank(result).wheels = {}
  BY BlankRecord DEF Ends
<1>3. /\ job[<<r, p>>].step # "success"
      /\ UNCHANGED <<phase, cache, artifacts, tests, gate>>
  BY DEF StepFails, CancelJob, Ends
<1>4. job' \in [Slots -> JobRecords] /\ JobWheels' /\ ArtifactsPinned' /\ GateSaw'
  BY <1>1, <1>2, <1>3, JobMovesQuietly
<1> QED BY <1>3, <1>4, TypeOfJobs DEF IInv, CacheOrigin, TestedWheelsExport

-----------------------------------------------------------------------------
(* Steps of runs                                                           *)

(* The tests and the gate change results only.                             *)
LEMMA ResultStep ==
  ASSUME IInv, NEW r \in Runs, TestPython(r) \/ TestPythonNotRun(r) \/ CiGate(r)
  PROVE  IInv'
<1>1. UNCHANGED <<phase, job, cache, artifacts>>
  BY DEF TestPython, TestPythonNotRun, CiGate
<1>2. /\ r \in Ci
      /\ \/ /\ tests[r] = "waiting" /\ UNCHANGED gate
            /\ \E s \in {"success", "failure", "skipped", "cancelled"} :
                 tests' = [tests EXCEPT ![r] = s]
         \/ /\ UNCHANGED tests
            /\ \E g \in {"success", "failure"} :
                 /\ gate' = [gate EXCEPT ![r] = g]
                 /\ g = "success" => JobsSucceeded(r) /\ tests[r] = "success"
  BY DEF TestPython, TestPythonNotRun, CiGate
<1>3. tests \in [Runs -> Results] /\ gate \in [Runs -> Results]
  BY DEF IInv, TypeOK
<1>4. tests' \in [Runs -> Results] /\ gate' \in [Runs -> Results]
  BY <1>2, <1>3 DEF Results
<1>5. GateSaw'
  <2>1. \A q \in Ci : gate[q] = "success" => JobsSucceeded(q) /\ tests[q] = "success"
    BY DEF IInv, GateSaw
  <2>2. \A q \in Ci : gate'[q] = "success" => JobsSucceeded(q) /\ tests'[q] = "success"
    BY <1>2, <1>3, <2>1 DEF Ci
  <2> QED BY <1>1, <2>2 DEF GateSaw, JobsSucceeded
<1> QED BY <1>1, <1>4, <1>5 DEF IInv, TypeOK, JobWheels, CacheOrigin, ArtifactsPinned,
                               TestedWheelsExport

(* Triggering, starting and evicting leave jobs and results alone.         *)
LEMMA OutsideStep ==
  ASSUME IInv, (\E r \in Runs : Trigger(r) \/ StartRun(r)) \/ Evict
  PROVE  IInv'
<1>1. UNCHANGED <<job, artifacts, tests, gate>> /\ cache' \subseteq cache
  BY DEF Trigger, StartRun, Evict
<1>2. phase' \in [Runs -> {"never", "none", "pending", "replaced", "running", "cancelled"}]
  BY DEF IInv, TypeOK, Trigger, StartRun, Evict
<1>3. TypeOK'
  BY <1>1, <1>2 DEF IInv, TypeOK
<1>4. CacheOrigin'
  BY <1>1 DEF IInv, CacheOrigin
<1> QED BY <1>1, <1>3, <1>4 DEF IInv, JobWheels, ArtifactsPinned, TestedWheelsExport,
                               GateSaw, JobsSucceeded

(* IInv is inductive.                                                      *)
LEMMA Inductive == IInv /\ [Next]_vars => IInv'
<1> SUFFICES ASSUME IInv, [Next]_vars PROVE IInv'
  OBVIOUS
<1>1. CASE \E r \in Runs : Trigger(r) \/ StartRun(r)
  BY <1>1, OutsideStep
<1>2. CASE Evict
  BY <1>2, OutsideStep
<1>3. ASSUME NEW r \in Runs, NEW p \in PlatformsOf(r), JobStep(r, p)
      PROVE  IInv'
  BY <1>3, RestoreStep, BuildStep, CheckStep, SaveStep, LostStep DEF JobStep
<1>4. ASSUME NEW r \in Runs, TestPython(r) \/ TestPythonNotRun(r) \/ CiGate(r)
      PROVE  IInv'
  BY <1>4, ResultStep
<1>5. CASE UNCHANGED vars
  BY <1>5 DEF vars, IInv, TypeOK, JobWheels, CacheOrigin, ArtifactsPinned, GateSaw,
              JobsSucceeded, TestedWheelsExport
<1> QED BY <1>1, <1>2, <1>3, <1>4, <1>5 DEF Next, Progress

-----------------------------------------------------------------------------
(* Theorems                                                                *)

(* IInv holds in every state of every pipeline.                            *)
THEOREM Invariant == Spec => []IInv
<1>1. Init => IInv
  BY Initially
<1>2. IInv /\ [Next]_vars => IInv'
  BY Inductive
<1> QED BY <1>1, <1>2, PTL DEF Spec

(* What is uploaded, by any run and whatever was cancelled or failed, is a *)
(* wheel of each distribution (TypeOK), for any number of platforms.       *)
THEOREM TypeCorrect == Spec => []TypeOK
<1>1. IInv => TypeOK
  BY DEF IInv
<1> QED BY <1>1, Invariant, PTL

(* An entry of the cache holds what its key names, whichever runs saved it *)
(* and whichever may restore it (CachedWheelsAreKeyed).                    *)
THEOREM CachedWheelsKeyed == Spec => []CachedWheelsAreKeyed
<1>1. IInv => CachedWheelsAreKeyed
  BY VisibleIsPinned DEF IInv, CachedWheelsAreKeyed
<1> QED BY <1>1, Invariant, PTL

(* Wheels without the expected exports never reach the tests, although the *)
(* cache may hold some (TestedWheelsExport).                               *)
THEOREM TestedExports == Spec => []TestedWheelsExport
<1>1. IInv => TestedWheelsExport
  BY DEF IInv
<1> QED BY <1>1, Invariant, PTL

(* A gate that succeeds vouches for tests of exactly the pinned wheels on  *)
(* all platforms of the run (GateVouchesForPinnedWheels).                  *)
THEOREM GateVouches == Spec => []GateVouchesForPinnedWheels
<1>1. IInv => GateVouchesForPinnedWheels
  BY DEF IInv, GateSaw, ArtifactsPinned, JobsSucceeded, GateVouchesForPinnedWheels
<1> QED BY <1>1, Invariant, PTL

-----------------------------------------------------------------------------
(* Verdicts                                                                *)

(* Results come after what they are about: a gate that spoke had nothing   *)
(* left to wait for, and tests ran on the uploads of jobs that had         *)
(* succeeded.                                                              *)
ResultsFollowJobs ==
  \A r \in Ci :
    /\ gate[r] # "waiting" => JobsEnded(r) /\ tests[r] # "waiting"
    /\ tests[r] \in {"success", "failure"} => JobsSucceeded(r)

(* A job's step is one of a job that has not ended, and nobody else's.     *)
LEMMA JobStepIsLocal ==
  ASSUME TypeOK, NEW r \in Runs, NEW p \in PlatformsOf(r), JobStep(r, p)
  PROVE  /\ job[<<r, p>>].step \notin Ends
         /\ \A q \in Runs : \A x \in PlatformsOf(q) :
              ~(q = r /\ x = p) => job'[<<q, x>>] = job[<<q, x>>]
         /\ \A q \in Runs \ {r} : artifacts'[q] = artifacts[q]
         /\ UNCHANGED <<tests, gate>>
<1>1. job[<<r, p>>].step \notin Ends /\ UNCHANGED <<tests, gate>>
  BY DEF JobStep, Restore, Build, Check, Save, StepFails, CancelJob, At, Ends
<1>2. PICK rec : job' = [job EXCEPT ![<<r, p>>] = rec]
  BY DEF JobStep, Restore, Build, Check, Save, StepFails, CancelJob, Goto, End
<1>3. ASSUME NEW q \in Runs, NEW x \in PlatformsOf(q), ~(q = r /\ x = p)
      PROVE  job'[<<q, x>>] = job[<<q, x>>]
  <2>1. <<q, x>> \in Slots /\ <<q, x>> # <<r, p>>
    BY <1>3, SlotsAreJobs
  <2>2. <<q, x>> \in DOMAIN job
    BY <2>1 DEF TypeOK
  <2> QED BY <1>2, <2>1, <2>2
<1>4. ASSUME NEW q \in Runs \ {r} PROVE artifacts'[q] = artifacts[q]
  <2>1. artifacts' = artifacts \/ \E new : artifacts' = [artifacts EXCEPT ![r] = new]
    BY DEF JobStep, Restore, Build, Check, Save, StepFails, CancelJob, UploadIfTested
  <2>2. q \in DOMAIN artifacts
    BY DEF TypeOK
  <2> QED BY <2>1, <2>2
<1> QED BY <1>1, <1>3, <1>4

(* Whose tests ran, or whose gate spoke, has no job left.                  *)
LEMMA JobStepKeepsResults ==
  ASSUME TypeOK, ResultsFollowJobs, NEW r \in Runs, NEW p \in PlatformsOf(r),
         JobStep(r, p)
  PROVE  ResultsFollowJobs' /\ \A q \in Ci : JudgedKept(q)
<1>1. /\ job[<<r, p>>].step \notin Ends
      /\ \A q \in Runs : \A x \in PlatformsOf(q) :
           ~(q = r /\ x = p) => job'[<<q, x>>] = job[<<q, x>>]
      /\ \A q \in Runs \ {r} : artifacts'[q] = artifacts[q]
      /\ UNCHANGED <<tests, gate>>
  BY JobStepIsLocal
<1>2. r \in Ci => gate[r] = "waiting" /\ tests[r] \notin {"success", "failure"}
  BY <1>1 DEF ResultsFollowJobs, JobsEnded, JobsSucceeded, Ends
<1>3. ASSUME NEW q \in Ci, q # r
      PROVE  /\ JobsEnded(q)' <=> JobsEnded(q)
             /\ JobsSucceeded(q)' <=> JobsSucceeded(q)
  <2>1. q \in Runs
    BY DEF Ci
  <2> QED BY <1>1, <1>3, <2>1 DEF JobsEnded, JobsSucceeded
<1>4. ResultsFollowJobs'
  <2>1. ASSUME NEW q \in Ci
        PROVE  /\ gate'[q] # "waiting" => JobsEnded(q)' /\ tests'[q] # "waiting"
               /\ tests'[q] \in {"success", "failure"} => JobsSucceeded(q)'
    BY <1>1, <1>2, <1>3 DEF ResultsFollowJobs
  <2> QED BY <2>1 DEF ResultsFollowJobs
<1>5. ASSUME NEW q \in Ci PROVE JudgedKept(q)
  <2>1. q \in Runs
    BY DEF Ci
  <2> QED BY <1>1, <1>2, <2>1 DEF JudgedKept
<1> QED BY <1>4, <1>5

(* The tests of a run, and its gate, speak once.                           *)
LEMMA ResultStepKeepsResults ==
  ASSUME TypeOK, ResultsFollowJobs, NEW r \in Runs,
         TestPython(r) \/ TestPythonNotRun(r) \/ CiGate(r)
  PROVE  ResultsFollowJobs' /\ \A q \in Ci : JudgedKept(q)
<1>1. UNCHANGED <<job, artifacts>> /\ r \in Ci
  BY DEF TestPython, TestPythonNotRun, CiGate
<1>2. \/ /\ tests[r] = "waiting" /\ UNCHANGED gate
         /\ \E s \in Results \ {"waiting"} :
              /\ tests' = [tests EXCEPT ![r] = s]
              /\ s \in {"success", "failure"} => JobsSucceeded(r)
      \/ /\ gate[r] = "waiting" /\ LanesEnded(r) /\ UNCHANGED tests
         /\ \E g : gate' = [gate EXCEPT ![r] = g]
  BY DEF TestPython, TestPythonNotRun, CiGate, Results
<1>3. tests \in [Runs -> Results] /\ gate \in [Runs -> Results]
  BY DEF TypeOK
<1>4. ASSUME NEW q \in Ci
      PROVE  /\ gate'[q] # "waiting" => JobsEnded(q) /\ tests'[q] # "waiting"
             /\ tests'[q] \in {"success", "failure"} => JobsSucceeded(q)
             /\ JudgedKept(q)
  <2>1. q \in Runs /\ r \in Runs
    BY DEF Ci
  <2>2. /\ gate[q] # "waiting" => JobsEnded(q) /\ tests[q] # "waiting"
        /\ tests[q] \in {"success", "failure"} => JobsSucceeded(q)
    BY DEF ResultsFollowJobs
  <2>3. CASE /\ tests[r] = "waiting" /\ UNCHANGED gate
             /\ \E s \in Results \ {"waiting"} :
                  /\ tests' = [tests EXCEPT ![r] = s]
                  /\ s \in {"success", "failure"} => JobsSucceeded(r)
    BY <1>1, <1>3, <2>1, <2>2, <2>3 DEF JudgedKept
  <2>4. CASE /\ gate[r] = "waiting" /\ LanesEnded(r) /\ UNCHANGED tests
             /\ \E g : gate' = [gate EXCEPT ![r] = g]
    BY <1>1, <1>3, <2>1, <2>2, <2>4 DEF JudgedKept, LanesEnded
  <2> QED BY <1>2, <2>3, <2>4
<1>5. ResultsFollowJobs'
  BY <1>1, <1>4 DEF ResultsFollowJobs, JobsEnded, JobsSucceeded
<1> QED BY <1>4, <1>5

(* Results stay as they are, and keep following the jobs.                  *)
LEMMA ResultsInductive ==
  ASSUME TypeOK, ResultsFollowJobs, [Next]_vars
  PROVE  ResultsFollowJobs' /\ \A q \in Ci : JudgedKept(q)
<1>1. CASE \/ \E r \in Runs : Trigger(r) \/ StartRun(r)
           \/ Evict
           \/ UNCHANGED vars
  <2>1. UNCHANGED <<job, artifacts, tests, gate>>
    BY <1>1 DEF Trigger, StartRun, Evict, vars
  <2> QED BY <2>1 DEF ResultsFollowJobs, JudgedKept, JobsEnded, JobsSucceeded
<1>2. ASSUME NEW r \in Runs, NEW p \in PlatformsOf(r), JobStep(r, p)
      PROVE  ResultsFollowJobs' /\ \A q \in Ci : JudgedKept(q)
  BY <1>2, JobStepKeepsResults
<1>3. ASSUME NEW r \in Runs, TestPython(r) \/ TestPythonNotRun(r) \/ CiGate(r)
      PROVE  ResultsFollowJobs' /\ \A q \in Ci : JudgedKept(q)
  BY <1>3, ResultStepKeepsResults
<1> QED BY <1>1, <1>2, <1>3 DEF Next, Progress

(* Results follow the jobs in every state.                                 *)
LEMMA ResultsFollow == Spec => []ResultsFollowJobs
<1>1. Init => ResultsFollowJobs
  BY DEF Init, ResultsFollowJobs, Ci
<1>2. TypeOK /\ ResultsFollowJobs /\ [Next]_vars => ResultsFollowJobs'
  BY ResultsInductive
<1> QED BY <1>1, <1>2, TypeCorrect, PTL DEF Spec

(* No step of any run replaces what was judged, for any number of runs and *)
(* platforms and wherever a run is cancelled (VerdictsAreFinal).           *)
THEOREM VerdictsStand == Spec => VerdictsAreFinal
<1>1. TypeOK /\ ResultsFollowJobs /\ [Next]_vars => [EveryVerdictKept]_vars
  BY ResultsInductive DEF EveryVerdictKept
<1> QED BY <1>1, ResultsFollow, TypeCorrect, PTL DEF Spec, VerdictsAreFinal

-----------------------------------------------------------------------------
(* Refinement                                                              *)

(* A job that has not checked its wheels has uploaded none, so that no run *)
(* gets the wheels of a platform twice.                                    *)
UploadedOnce ==
  \A r \in Ci : \A p \in PlatformsOf(r) :
    job[<<r, p>>].step \in {"queued", "build", "check"} => p \notin DOMAIN artifacts[r]

(* Checking is the only step that uploads, and only of the job's platform. *)
LEMMA OnlyChecksUpload ==
  ASSUME TypeOK, NEW r \in Runs, NEW p \in PlatformsOf(r), JobStep(r, p)
  PROVE  \/ Check(r, p) /\ DOMAIN artifacts'[r] \subseteq DOMAIN artifacts[r] \cup {p}
         \/ /\ UNCHANGED artifacts
            /\ \/ job[<<r, p>>].step \in {"queued", "build"}
               \/ job'[<<r, p>>].step \in Ends
<1>1. CASE Check(r, p)
  <2>1. \/ artifacts' = artifacts
        \/ artifacts' = [artifacts EXCEPT ![r] =
                           [x \in DOMAIN artifacts[r] \cup {p} |->
                              IF x = p THEN job[<<r, p>>].wheels ELSE artifacts[r][x]]]
    BY <1>1 DEF Check, UploadIfTested
  <2>2. r \in DOMAIN artifacts
    BY DEF TypeOK
  <2> QED BY <1>1, <2>1, <2>2
<1>2. CASE Restore(r, p) \/ Build(r, p)
  BY <1>2 DEF Restore, Build, At
<1>3. ASSUME NEW result \in Ends, End(r, p, result)
      PROVE  job'[<<r, p>>].step \in Ends
  <2>1. <<r, p>> \in DOMAIN job
    BY SlotsAreJobs DEF TypeOK
  <2> QED BY <1>3, <2>1 DEF End, Blank
<1>4. CASE Save(r, p) \/ StepFails(r, p) \/ CancelJob(r, p)
  BY <1>3, <1>4 DEF Save, StepFails, CancelJob, Ends
<1> QED BY <1>1, <1>2, <1>4 DEF JobStep

LEMMA UploadsInductive ==
  ASSUME TypeOK, UploadedOnce, [Next]_vars
  PROVE  UploadedOnce'
<1>1. CASE UNCHANGED <<job, artifacts>>
  BY <1>1 DEF UploadedOnce
<1>2. ASSUME NEW r \in Runs, NEW p \in PlatformsOf(r), JobStep(r, p)
      PROVE  UploadedOnce'
  <2> SUFFICES ASSUME NEW q \in Ci, NEW x \in PlatformsOf(q),
                      job'[<<q, x>>].step \in {"queued", "build", "check"}
               PROVE  x \notin DOMAIN artifacts'[q]
    BY DEF UploadedOnce
  <2>1. q \in Runs
    BY DEF Ci
  <2>2. /\ ~(q = r /\ x = p) => job'[<<q, x>>] = job[<<q, x>>]
        /\ q # r => artifacts'[q] = artifacts[q]
    BY <1>2, <2>1, JobStepIsLocal
  <2>3. job[<<q, x>>].step \in {"queued", "build", "check"} => x \notin DOMAIN artifacts[q]
    BY DEF UploadedOnce
  <2>4. CASE q = r /\ x = p
    <3>1. ~Check(r, p)
      <4>1. <<r, p>> \in DOMAIN job /\ job \in [Slots -> JobRecords]
        BY SlotsAreJobs DEF TypeOK, JobRecords
      <4>2. Check(r, p) => job'[<<r, p>>].step = "save"
        BY <4>1 DEF Check, Goto, JobRecords
      <4> QED BY <2>4, <4>2
    <3> QED BY <1>2, <2>3, <2>4, <3>1, OnlyChecksUpload DEF Ends
  <2>5. CASE ~(q = r /\ x = p)
    <3>1. x \in DOMAIN artifacts'[q] => x \in DOMAIN artifacts[q]
      BY <1>2, <2>2, <2>5, OnlyChecksUpload
    <3> QED BY <2>2, <2>3, <2>5, <3>1
  <2> QED BY <2>4, <2>5
<1>3. CASE \/ \E r \in Runs : Trigger(r) \/ StartRun(r)
           \/ \E r \in Runs : TestPython(r) \/ TestPythonNotRun(r) \/ CiGate(r)
           \/ Evict
           \/ UNCHANGED vars
  <2>1. UNCHANGED <<job, artifacts>>
    BY <1>3 DEF Trigger, StartRun, TestPython, TestPythonNotRun, CiGate, Evict, vars
  <2> QED BY <1>1, <2>1
<1> QED BY <1>2, <1>3 DEF Next, Progress

(* A job's step gives a run its pinned wheels or is not seen.              *)
LEMMA JobStepRefines ==
  ASSUME IInv, ResultsFollowJobs, UploadedOnce,
         NEW r \in Runs, NEW p \in PlatformsOf(r), JobStep(r, p)
  PROVE  Promise!Give(r, p) \/ UNCHANGED Promise!vars
<1>1. UNCHANGED <<tests, gate>> /\ job[<<r, p>>].step \notin Ends
  BY JobStepIsLocal DEF IInv
<1>2. CASE UNCHANGED artifacts
  BY <1>1, <1>2 DEF Promise!vars
<1>3. CASE Check(r, p) /\ r \in Ci
  <2>1. job[<<r, p>>].wheels = PinnedWheels(r, p) /\ Revision[r] \in Exporting
    BY <1>3, CheckedArePinned
  <2>2. p \notin DOMAIN artifacts[r]
    BY <1>3 DEF UploadedOnce, Check, At
  <2>3. tests[r] \notin {"success", "failure"} /\ gate[r] = "waiting"
    BY <1>1, <1>3 DEF ResultsFollowJobs, JobsEnded, JobsSucceeded, Ends
  <2>4. artifacts' = [artifacts EXCEPT ![r] =
                        [x \in DOMAIN artifacts[r] \cup {p} |->
                           IF x = p THEN PinnedWheels(r, p) ELSE artifacts[r][x]]]
    BY <1>3, <2>1 DEF Check, UploadIfTested
  <2> QED BY <1>1, <2>1, <2>2, <2>3, <2>4 DEF Promise!Give
<1>4. CASE Check(r, p) /\ r \notin Ci
  BY <1>2, <1>4 DEF Check, UploadIfTested
<1> QED BY <1>2, <1>3, <1>4, OnlyChecksUpload DEF IInv

(* Tests and the gate are those of the promise.                            *)
LEMMA ResultStepRefines ==
  ASSUME IInv, ResultsFollowJobs, NEW r \in Runs,
         TestPython(r) \/ TestPythonNotRun(r) \/ CiGate(r)
  PROVE  Promise!Test(r) \/ Promise!Judge(r)
<1>1. r \in Ci /\ UNCHANGED artifacts
  BY DEF TestPython, TestPythonNotRun, CiGate
<1>2. tests[r] = "waiting" => gate[r] = "waiting"
  BY <1>1 DEF ResultsFollowJobs
<1>3. CASE TestPython(r)
  <2>1. PlatformsOf(r) \subseteq DOMAIN artifacts[r]
    BY <1>1, <1>3 DEF TestPython, JobsSucceeded, IInv, ArtifactsPinned
  <2> QED BY <1>2, <1>3, <2>1 DEF TestPython, Promise!Test
<1>4. CASE TestPythonNotRun(r)
  BY <1>2, <1>4 DEF TestPythonNotRun, Promise!Test
<1>5. CASE CiGate(r)
  BY <1>5 DEF CiGate, LanesEnded, Promise!Judge
<1> QED BY <1>3, <1>4, <1>5

(* The pipeline keeps the promise: what is tested and judged is what it    *)
(* would be without the cache that all runs share, for any number of runs, *)
(* revisions and platforms (KeepsPromise).                                 *)
THEOREM PromiseKept == Spec => KeepsPromise
<1>1. Init => Promise!Init /\ UploadedOnce
  BY DEF Init, Promise!Init, UploadedOnce, Ci
<1>2. TypeOK /\ UploadedOnce /\ [Next]_vars => UploadedOnce'
  BY UploadsInductive
<1>3. IInv /\ ResultsFollowJobs /\ UploadedOnce /\ [Next]_vars
        => [Promise!Next]_(Promise!vars)
  <2> SUFFICES ASSUME IInv, ResultsFollowJobs, UploadedOnce, [Next]_vars
               PROVE  Promise!Next \/ UNCHANGED Promise!vars
    OBVIOUS
  <2>1. CASE \/ \E r \in Runs : Trigger(r) \/ StartRun(r)
             \/ Evict
             \/ UNCHANGED vars
    BY <2>1 DEF Trigger, StartRun, Evict, vars, Promise!vars
  <2>2. ASSUME NEW r \in Runs, NEW p \in PlatformsOf(r), JobStep(r, p)
        PROVE  Promise!Next \/ UNCHANGED Promise!vars
    BY <2>2, JobStepRefines DEF Promise!Next
  <2>3. ASSUME NEW r \in Runs, TestPython(r) \/ TestPythonNotRun(r) \/ CiGate(r)
        PROVE  Promise!Next
    BY <2>3, ResultStepRefines DEF Promise!Next
  <2> QED BY <2>1, <2>2, <2>3 DEF Next, Progress
<1> QED BY <1>1, <1>2, <1>3, Invariant, ResultsFollow, TypeCorrect, PTL
        DEF Spec, Promise!Spec, KeepsPromise
=============================================================================
