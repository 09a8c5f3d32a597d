------------------------- MODULE RetryCommandProofs -------------------------
(***************************************************************************)
(* The safety of RetryCommand for any number of attempts and any statuses. *)
(***************************************************************************)
EXTENDS RetryCommand, TLAPS

(* The counter is one ahead of the failures until an attempt has failed,   *)
(* level with them until the pause is over, and never beyond the limit,    *)
(* as long as the limit is an integer of the shell.                        *)
CounterFollows ==
  /\ pc = "start" => attempt = 1 /\ failures = 0
  /\ pc \in {"command", "failed", "sleep"} => limit # 0
  /\ pc \in {"failed", "sleep"} => status # 0
  /\ limit <= IntMax =>
       /\ pc = "command" => failures = attempt - 1
       /\ pc \in {"failed", "sleep"} => failures = attempt
       /\ pc = "sleep" => attempt < limit

Inv == TypeOK /\ CounterFollows /\ ExitTellsTheAttempts

(* The invariant holds initially and every step keeps it.                  *)
LEMMA InvInductive ==
  Spec => []Inv
<1>1. Init => Inv
  BY RetryAssumption DEF Init, Inv, TypeOK, CounterFollows, ExitTellsTheAttempts
<1>2. Inv /\ [Next]_vars => Inv'
  <2> SUFFICES ASSUME Inv, [Next]_vars PROVE Inv'
    OBVIOUS
  <2> USE RetryAssumption DEF Inv, TypeOK, CounterFollows, ExitTellsTheAttempts
  <2>1. CASE Start
    BY <2>1 DEF Start, Usage
  <2>2. CASE CommandReturns
    BY <2>2 DEF CommandReturns
  <2>3. CASE Decide
    BY <2>3 DEF Decide, GreaterOrEqual
  <2>4. CASE Sleep
    BY <2>4 DEF Sleep
  <2>5. CASE UNCHANGED vars
    BY <2>5 DEF vars
  <2> QED BY <2>1, <2>2, <2>3, <2>4, <2>5 DEF Next
<1> QED BY <1>1, <1>2, PTL DEF Spec

(* Success is reported only for a success within the limit, and failure    *)
(* only when as many attempts as configured have failed, for every limit.  *)
THEOREM ExitIsTruthful ==
  Spec => []ExitTellsTheAttempts
<1>1. Inv => ExitTellsTheAttempts
  BY DEF Inv
<1> QED BY <1>1, InvInductive, PTL

(* The types hold in every reachable state; the counter stays within the   *)
(* configured number of attempts.                                          *)
THEOREM TypeCorrect ==
  Spec => []TypeOK
<1>1. Inv => TypeOK
  BY DEF Inv
<1> QED BY <1>1, InvInductive, PTL

(* Every step of the script brings its end nearer, for every limit that is *)
(* an integer of the shell: at most limit attempts, and a bounded number   *)
(* of steps, come before the exit.                                         *)
THEOREM AttemptsDoRunOut == Spec => AttemptsRunOut
<1>1. Inv /\ Inv' /\ [Next]_vars =>
        [limit <= IntMax => StepsLeft' \in Nat /\ StepsLeft' < StepsLeft]_vars
  <2> SUFFICES ASSUME Inv, Inv', Next, limit <= IntMax
               PROVE  StepsLeft' \in Nat /\ StepsLeft' < StepsLeft
    OBVIOUS
  <2> USE RetryAssumption DEF Inv, TypeOK, CounterFollows, StepsLeft
  <2>1. CASE Start
    BY <2>1 DEF Start
  <2>2. CASE CommandReturns
    BY <2>2 DEF CommandReturns
  <2>3. CASE Decide
    BY <2>3 DEF Decide, GreaterOrEqual
  <2>4. CASE Sleep
    BY <2>4 DEF Sleep
  <2> QED BY <2>1, <2>2, <2>3, <2>4 DEF Next
<1> QED BY <1>1, InvInductive, PTL DEF Spec, AttemptsRunOut
=============================================================================
