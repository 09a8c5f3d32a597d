------------------------ MODULE PresentationExchange ------------------------
(***************************************************************************)
(* What verification promises, as if there were no network, no bindings    *)
(* and no formats: a holder answers a request; a verifier accepts, for the *)
(* request it has open, what was answered to it before and not another     *)
(* answer or a changed one; what was accepted stays accepted.              *)
(***************************************************************************)
CONSTANTS Sessions,       (* requests                                       *)
          Answers,        (* what holders may answer, to any of them        *)
          AnswersTo(_, _) (* whether an answer is one to a request          *)

VARIABLES answered, (* the answers holders have made                        *)
          accepted  (* what verifiers accepted, and for which request       *)

vars == <<answered, accepted>>

Init == /\ answered = {}
        /\ accepted = {}

Answer == /\ \E p \in Answers : answered' = answered \cup {p}
          /\ UNCHANGED accepted

Accept == /\ \E p \in answered, s \in Sessions :
               /\ AnswersTo(p, s)
               /\ accepted' = accepted \cup {[presentation |-> p, session |-> s]}
          /\ UNCHANGED answered

Next == Answer \/ Accept

Spec == Init /\ [][Next]_vars
=============================================================================
