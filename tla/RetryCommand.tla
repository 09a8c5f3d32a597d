---------------------------- MODULE RetryCommand ----------------------------
(***************************************************************************)
(* scripts/retry-command.sh, through which CI resolves and installs        *)
(* published packages: the command is run until it succeeds, at most as    *)
(* often as configured, with a pause between two attempts.                 *)
(***************************************************************************)
EXTENDS Integers

CONSTANTS MaxAttempts,  (* bound: the largest number of attempts configured *)
          IntMax,       (* the largest integer of the shell                 *)
          Statuses      (* the exit statuses of the command                 *)

ASSUME RetryAssumption ==
  /\ MaxAttempts \in Nat
  /\ IntMax \in Nat \ {0}
  /\ Statuses \subseteq 0..255

VARIABLES
  limit,     (* max_attempts; 0 for a configuration the script refuses      *)
  pc,        (* "start", "command", "failed", "sleep" or "exited"           *)
  attempt,   (* the counter of the script                                   *)
  failures,  (* how often the command has failed, counted to limit + 1      *)
  status     (* of the last attempt; when exited, of the script             *)

vars == <<limit, pc, attempt, failures, status>>

Usage == 2

Init ==
  /\ limit \in 0..MaxAttempts
  /\ pc = "start"
  /\ attempt = 1
  /\ failures = 0
  /\ status = 0

(* Both numbers and the presence of a command are checked before the first *)
(* attempt.                                                                *)
Start ==
  /\ pc = "start"
  /\ IF limit = 0 THEN pc' = "exited" /\ status' = Usage
                  ELSE pc' = "command" /\ UNCHANGED status
  /\ UNCHANGED <<limit, attempt, failures>>

(* External: the command ends.                                             *)
CommandReturns ==
  /\ pc = "command"
  /\ status' \in Statuses
  /\ IF status' = 0
     THEN pc' = "exited" /\ UNCHANGED failures
     ELSE /\ pc' = "failed"
          /\ failures' = IF failures > limit THEN failures ELSE failures + 1
  /\ UNCHANGED <<limit, attempt>>

(* The limit is checked as a string of digits only.  Comparing with one    *)
(* that is no integer of the shell is an error of [, which counts as no.   *)
GreaterOrEqual(a, b) == b <= IntMax /\ a >= b

(* Mutation: the limit is compared with > instead of >=.                   *)
DecideOneMore ==
  /\ pc = "failed"
  /\ pc' = IF limit <= IntMax /\ attempt > limit THEN "exited" ELSE "sleep"
  /\ UNCHANGED <<limit, attempt, failures, status>>

(* Mutation: the status of the message, not of the command, is the last.   *)
DecideWithMessage ==
  /\ pc = "failed"
  /\ pc' = IF GreaterOrEqual(attempt, limit) THEN "exited" ELSE "sleep"
  /\ status' = IF GreaterOrEqual(attempt, limit) THEN 0 ELSE status
  /\ UNCHANGED <<limit, attempt, failures>>

Decide ==
  /\ pc = "failed"
  /\ pc' = IF GreaterOrEqual(attempt, limit) THEN "exited" ELSE "sleep"
  /\ UNCHANGED <<limit, attempt, failures, status>>

(* Mutation: the counter is not advanced.                                  *)
SleepUncounted ==
  /\ pc = "sleep"
  /\ pc' = "command"
  /\ UNCHANGED <<limit, attempt, failures, status>>

(* The arithmetic of the shell wraps around.                               *)
Sleep ==
  /\ pc = "sleep"
  /\ attempt' = IF attempt = IntMax THEN -IntMax - 1 ELSE attempt + 1
  /\ pc' = "command"
  /\ UNCHANGED <<limit, failures, status>>

Next == Start \/ CommandReturns \/ Decide \/ Sleep

(* The shell goes on, and every attempt of the command ends: the script    *)
(* has no timeout of its own.                                              *)
Spec == Init /\ [][Next]_vars /\ WF_vars(Next)

-----------------------------------------------------------------------------
TypeOK ==
  /\ limit \in 0..MaxAttempts
  /\ pc \in {"start", "command", "failed", "sleep", "exited"}
  /\ attempt \in IF limit > IntMax THEN (-IntMax - 1)..IntMax
                 ELSE 1..(IF limit = 0 THEN 1 ELSE limit)
  /\ failures \in 0..(limit + 1)
  /\ status \in Statuses \cup {0, Usage}

(* The script reports success only if the last attempt succeeded, after    *)
(* fewer failures than attempts were configured, and reports a failure     *)
(* only when exactly as many attempts as configured have failed.  With a   *)
(* limit the shell cannot compare with, it never reports a failure.        *)
ExitTellsTheAttempts ==
  pc = "exited" /\ limit # 0 =>
    IF limit > IntMax THEN status = 0
    ELSE IF status = 0 THEN failures < limit ELSE failures = limit

(* How many steps the script can still take: of the attempts that are left *)
(* the current one may be under way, have failed, or be waited after.      *)
StepsLeft ==
  LET ofAttempt == [start |-> 4, command |-> 3, failed |-> 2, sleep |-> 1]
  IN  IF pc = "exited" THEN 0 ELSE 4 * (limit + 1 - attempt) + ofAttempt[pc]

(* Every step uses up one of finitely many: whatever the command returns,  *)
(* no step of the loop starts the count again.  Unlike Ends it asks        *)
(* nothing of the shell's scheduling.                                      *)
AttemptsRunOut ==
  [][limit <= IntMax => StepsLeft' \in Nat /\ StepsLeft' < StepsLeft]_vars

(* A command that keeps failing is not retried for ever, if the limit is   *)
(* one the shell can compare with.                                         *)
Ends == limit <= IntMax ~> pc = "exited"
=============================================================================
