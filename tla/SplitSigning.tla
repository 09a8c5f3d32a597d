---------------------------- MODULE SplitSigning ----------------------------
(***************************************************************************)
(* What split signing promises, without salts, digests, bytes or           *)
(* signatures: preparing a document freezes one content; whatever is       *)
(* issued from it later, however often and with whatever answer, is that   *)
(* content and nothing else; an object that is lost issues nothing more.   *)
(***************************************************************************)
CONSTANTS Handles,    (* the variables of the caller that hold a preparation *)
          Contents    (* the contents callers ask to be signed               *)

VARIABLES approved,   (* the content a handle will issue, for those that hold*)
                      (* a preparation                                       *)
          issued      (* the contents of every document handed out           *)

vars == <<approved, issued>>

Init == /\ approved = [h \in {} |-> {}]
        /\ issued = {}

(* The caller binds a handle to a new preparation.                         *)
Approve(h) == /\ \E c \in Contents :
                   approved' = [k \in DOMAIN approved \cup {h} |->
                                  IF k = h THEN c ELSE approved[k]]
              /\ UNCHANGED issued

(* A document is issued: the frozen content, whole.                        *)
Issue(h) == /\ h \in DOMAIN approved
            /\ issued' = issued \cup {approved[h]}
            /\ UNCHANGED approved

(* The process that holds the preparations is restarted.                   *)
Lose == /\ approved' = [h \in {} |-> {}]
        /\ UNCHANGED issued

Next == (\E h \in Handles : Approve(h) \/ Issue(h)) \/ Lose

Spec == Init /\ [][Next]_vars
=============================================================================
