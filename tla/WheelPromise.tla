---------------------------- MODULE WheelPromise ----------------------------
(***************************************************************************)
(* What the CI promises about the Core wheels it tests, as if every run    *)
(* built its own: no caches, no concurrency groups, no jobs that fail or   *)
(* are cancelled.  A run is given its pinned wheels, for every platform    *)
(* once and only when they export what is expected; it is tested when they *)
(* are all there, and judged on nothing that comes later.                  *)
(***************************************************************************)
CONSTANTS Runs,
          PlatformsOf(_),      (* the platforms a run is tested on          *)
          PinnedWheels(_, _),  (* the wheels a run pins for a platform      *)
          Valid                (* the runs whose wheels have the exports    *)

VARIABLES artifacts, (* of a run: the wheels it was given, by platform      *)
          tests,     (* of a run: result of the tests, "waiting" before     *)
          gate       (* of a run: the verdict, "waiting" before             *)

vars == <<artifacts, tests, gate>>

Init == /\ artifacts = [r \in Runs |-> [p \in {} |-> {}]]
        /\ tests = [r \in Runs |-> "waiting"]
        /\ gate = [r \in Runs |-> "waiting"]

(* The wheels of a platform, once, before anything was judged.             *)
Give(r, p) ==
  /\ r \in Valid /\ p \notin DOMAIN artifacts[r]
  /\ tests[r] \notin {"success", "failure"} /\ gate[r] = "waiting"
  /\ artifacts' = [artifacts EXCEPT ![r] =
                     [x \in DOMAIN artifacts[r] \cup {p} |->
                        IF x = p THEN PinnedWheels(r, p) ELSE artifacts[r][x]]]
  /\ UNCHANGED <<tests, gate>>

(* Tests run on the wheels of every platform, or not at all.               *)
Test(r) ==
  /\ tests[r] = "waiting" /\ gate[r] = "waiting"
  /\ \/ /\ PlatformsOf(r) \subseteq DOMAIN artifacts[r]
        /\ \E result \in {"success", "failure"} : tests' = [tests EXCEPT ![r] = result]
     \/ \E result \in {"skipped", "cancelled"} : tests' = [tests EXCEPT ![r] = result]
  /\ UNCHANGED <<artifacts, gate>>

Judge(r) ==
  /\ tests[r] # "waiting" /\ gate[r] = "waiting"
  /\ \/ tests[r] = "success" /\ gate' = [gate EXCEPT ![r] = "success"]
     \/ gate' = [gate EXCEPT ![r] = "failure"]
  /\ UNCHANGED <<artifacts, tests>>

Next == \E r \in Runs : (\E p \in PlatformsOf(r) : Give(r, p)) \/ Test(r) \/ Judge(r)

Spec == Init /\ [][Next]_vars
=============================================================================
