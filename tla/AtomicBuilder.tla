---------------------------- MODULE AtomicBuilder ----------------------------
(***************************************************************************)
(* What a mobile document builder promises to the threads that share it:   *)
(* every call takes effect at once and as a whole, or not at all, and what *)
(* is built is one state of the builder.  Only add_namespace takes time,   *)
(* as converting a claim may run Python code, which may change the dict:   *)
(* if no key came or went meanwhile, the namespace has all the keys of the *)
(* dict; otherwise only keys the dict has had during the call, and no more *)
(* of them than it has in the end.                                         *)
(***************************************************************************)
EXTENDS Integers, FiniteSets

CONSTANTS Names,       (* the names of namespaces                           *)
          Claims,      (* what a claim can be converted to                  *)
          Dicts,       (* the dicts the caller can pass                     *)
          Dates,       (* dates that parse                                  *)
          DeviceKeys,  (* the device keys callers set                       *)
          MsoKeys      (* the device keys an MSO can be made with           *)

VARIABLES dict,        (* the dict that is, or will be, passed              *)
          calls,       (* the add_namespace in progress, at most one        *)
          namespaces,  (* the claims added, by name                         *)
          validity,    (* <<>> or signed, validFrom, validUntil             *)
          deviceKey,   (* <<>> or the key                                   *)
          built        (* what was built last: <<>> or a state              *)

vars == <<dict, calls, namespaces, validity, deviceKey, built>>

Init ==
  /\ dict \in Dicts
  /\ calls = {}
  /\ namespaces = [n \in {} |-> {}]
  /\ validity = <<>> /\ deviceKey = <<>> /\ built = <<>>

(* Python code changes the dict, at any time.                              *)
Python ==
  /\ dict' \in Dicts
  /\ calls' = {[name   |-> c.name,
              keys   |-> c.keys \cup DOMAIN dict',
              stable |-> c.stable /\ DOMAIN dict' = DOMAIN dict] : c \in calls}
  /\ UNCHANGED <<namespaces, validity, deviceKey, built>>

Store(n, claims) ==
  /\ namespaces' = [m \in DOMAIN namespaces \cup {n} |->
                      IF m = n THEN claims ELSE namespaces[m]]
  /\ UNCHANGED <<dict, validity, deviceKey, built>>

(* A namespace is added at once.                                           *)
Add(n) ==
  /\ calls = {} /\ UNCHANGED calls
  /\ \E claims \in [DOMAIN dict -> Claims] : Store(n, claims)

Begin(n) ==
  /\ calls = {}
  /\ calls' = {[name |-> n, keys |-> DOMAIN dict, stable |-> TRUE]}
  /\ UNCHANGED <<dict, namespaces, validity, deviceKey, built>>

(* The keys a namespace may have at the end of a call.                     *)
Offered(c) == {S \in SUBSET c.keys : /\ c.stable => S = DOMAIN dict
                                     /\ Cardinality(S) <= Cardinality(DOMAIN dict)}

Finish(c) ==
  /\ calls' = {}
  /\ \E S \in Offered(c) : \E claims \in [S -> Claims] : Store(c.name, claims)

(* The call fails, without a trace.                                        *)
Abandon ==
  /\ calls' = {}
  /\ UNCHANGED <<dict, namespaces, validity, deviceKey, built>>

SetValidity ==
  /\ calls = {}
  /\ \E s, f, u \in Dates : validity' = <<s, f, u>>
  /\ UNCHANGED <<dict, calls, namespaces, deviceKey, built>>

SetDeviceKey ==
  /\ calls = {}
  /\ \E k \in DeviceKeys : deviceKey' = <<k>>
  /\ UNCHANGED <<dict, calls, namespaces, validity, built>>

Build ==
  /\ calls = {}
  /\ DOMAIN namespaces # {} /\ validity # <<>>
  /\ deviceKey # <<>> /\ deviceKey[1] \in MsoKeys
  /\ built' = <<[namespaces |-> namespaces, validity |-> validity, deviceKey |-> deviceKey]>>
  /\ UNCHANGED <<dict, calls, namespaces, validity, deviceKey>>

Next ==
  \/ Python
  \/ \E n \in Names : Add(n) \/ Begin(n)
  \/ \E c \in calls : Finish(c)
  \/ Abandon
  \/ SetValidity \/ SetDeviceKey \/ Build

Spec == Init /\ [][Next]_vars
=============================================================================
