----------------------------- MODULE MdocBuilder -----------------------------
(***************************************************************************)
(* An MdocBuilder shared by Python threads (src/mdoc/builder.rs).          *)
(*                                                                         *)
(* The interpreter lock makes every Rust step atomic, except where Rust    *)
(* calls Python: converting a claim (python_to_cbor_value) may run its     *)
(* __index__, __float__ or __str__.  While that code runs, add_namespace   *)
(* holds the builder mutably and an iterator on the dict; any thread, and  *)
(* the code itself, may call the builder again or change the dict.  The    *)
(* claims of the model are such objects; those of built-in types are       *)
(* converted without giving others a chance, so they add no behaviour.     *)
(*                                                                         *)
(* A key is a number, and dicts iterate in the order of the numbers; the   *)
(* order does not matter, the claims are collected in a BTreeMap.          *)
(***************************************************************************)
EXTENDS Integers, FiniteSets

CONSTANTS Names,       (* the names of namespaces                           *)
          Keys,        (* the keys of the dicts                             *)
          Claims,      (* what conversions yield                            *)
          Broken,      (* a value whose conversion fails                    *)
          Dates, BadDate,
          DeviceKeys,
          Validities   (* the arguments of set_validity                     *)

ASSUME KeysAssumption == Keys \subseteq Nat /\ IsFiniteSet(Keys)
ASSUME BrokenAssumption == Broken \notin Claims
ASSUME ValiditiesAssumption ==
  /\ BadDate \notin Dates
  /\ Validities \subseteq (Dates \cup {BadDate}) \X (Dates \cup {BadDate}) \X (Dates \cup {BadDate})

(* The maps from some of the keys K to V.                                  *)
Maps(K, V) == UNION {[S -> V] : S \in SUBSET K}

Dicts == Maps(Keys, Claims \cup {Broken})

VARIABLES
  dict,       (* the dict that is passed, or will be                        *)
  adding,     (* <<>> or the add_namespace in progress, which holds the     *)
              (* builder mutably                                            *)
  namespaces, validity, deviceKey,  (* the builder's fields                 *)
  built,      (* <<>> or what build_issuer_signed returned last             *)
  outcome     (* how the last call ended, "none" when one begins            *)

builder == <<namespaces, validity, deviceKey>>
vars == <<dict, adding, namespaces, validity, deviceKey, built, outcome>>

(* The add_namespace in progress, if there is one.                         *)
Running == {adding[i] : i \in DOMAIN adding}

-----------------------------------------------------------------------------
(* External (pyo3): the iterator of a dict.  It remembers the size it saw  *)
(* and how many entries remain, and panics at the next entry when the size *)
(* has changed, or when it has yielded one entry more than that size.      *)
(* While no key comes or goes it meets the entries in order.  After that   *)
(* its position in the table says nothing: it may meet any entry, also one *)
(* it has met before, or the end of the table.                             *)

After(key) == {k \in DOMAIN dict : key < k}
Least(S) == CHOOSE k \in S : \A j \in S : k <= j

IteratorPanics(a) == Cardinality(DOMAIN dict) # a.used \/ a.remaining = -1

Upcoming(a) == IF a.stable
               THEN {k \in After(a.key) : k = Least(After(a.key))}
               ELSE DOMAIN dict

MayEnd(a) == a.stable => After(a.key) = {}

-----------------------------------------------------------------------------
(* add_namespace                                                           *)

StoreNamespace(n, claims) ==
  namespaces' = [m \in DOMAIN namespaces \cup {n} |->
                   IF m = n THEN claims ELSE namespaces[m]]

AddEmptyNamespace(n) ==
  /\ adding = <<>> /\ DOMAIN dict = {}
  /\ StoreNamespace(n, [k \in {} |-> {}])
  /\ outcome' = "ok"
  /\ UNCHANGED <<dict, adding, validity, deviceKey, built>>

(* Up to the call of the first claim's code.                               *)
BeginAddNamespace(n) ==
  /\ adding = <<>> /\ DOMAIN dict # {}
  /\ LET first == Least(DOMAIN dict)
     IN  adding' = <<[name      |-> n,
                      used      |-> Cardinality(DOMAIN dict),
                      remaining |-> Cardinality(DOMAIN dict) - 1,
                      key       |-> first,
                      value     |-> dict[first],
                      claims    |-> [k \in {} |-> {}],
                      keys      |-> DOMAIN dict,
                      stable    |-> TRUE]>>
  /\ outcome' = "none"
  /\ UNCHANGED <<dict, namespaces, validity, deviceKey, built>>

(* namespace_claims once the current claim is converted, to what its code  *)
(* returns.                                                                *)
Inserted(a) == [k \in DOMAIN a.claims \cup {a.key} |->
                  IF k = a.key THEN a.value ELSE a.claims[k]]

(* The call once the iterator yields an entry: its key, and the value it   *)
(* has now.                                                                *)
Yielded(a, next) == [a EXCEPT !.key = next, !.value = dict[next],
                              !.remaining = @ - 1, !.claims = Inserted(a)]

(* Mutation: the claims go into the builder one by one.                    *)
NextClaimInPlace(a) ==
  /\ adding = <<a>> /\ a.value # Broken /\ ~IteratorPanics(a)
  /\ \E next \in Upcoming(a) : adding' = <<Yielded(a, next)>>
  /\ StoreNamespace(a.name, Inserted(a))
  /\ UNCHANGED <<dict, validity, deviceKey, built, outcome>>

(* Mutation: the dict is asked for its entries again after each claim.     *)
NextClaimAfresh(a) ==
  /\ adding = <<a>> /\ a.value # Broken
  /\ \E next \in Upcoming(a) :
       adding' = <<[Yielded(a, next) EXCEPT !.used = Cardinality(DOMAIN dict),
                                            !.remaining = Cardinality(DOMAIN dict)]>>
  /\ UNCHANGED <<dict, namespaces, validity, deviceKey, built, outcome>>

(* A claim is converted, the next one's code is called.                    *)
NextClaim(a) ==
  /\ adding = <<a>> /\ a.value # Broken /\ ~IteratorPanics(a)
  /\ \E next \in Upcoming(a) : adding' = <<Yielded(a, next)>>
  /\ UNCHANGED <<dict, namespaces, validity, deviceKey, built, outcome>>

(* The last claim is converted: the namespace replaces one of its name.    *)
FinishAddNamespace(a) ==
  /\ adding = <<a>> /\ a.value # Broken /\ ~IteratorPanics(a) /\ MayEnd(a)
  /\ StoreNamespace(a.name, Inserted(a))
  /\ adding' = <<>>
  /\ outcome' = "ok"
  /\ UNCHANGED <<dict, validity, deviceKey, built>>

(* A conversion fails, or the dict changed under the iterator: the claims  *)
(* converted so far are dropped, and the borrow with them.                 *)
AddNamespaceFails(a) ==
  /\ adding = <<a>>
  /\ \/ a.value = Broken /\ outcome' = "TypeError"
     \/ a.value # Broken /\ IteratorPanics(a) /\ outcome' = "PanicException"
  /\ adding' = <<>>
  /\ UNCHANGED <<dict, namespaces, validity, deviceKey, built>>

-----------------------------------------------------------------------------
(* The other methods, called while no add_namespace is in progress         *)

(* Mutation: each date is stored as it is parsed.                          *)
SetValidityUnchecked(v) ==
  /\ adding = <<>>
  /\ validity' = v
  /\ outcome' = IF BadDate \in {v[1], v[2], v[3]} THEN "ValueError" ELSE "ok"
  /\ UNCHANGED <<dict, adding, namespaces, deviceKey, built>>

(* All three dates are parsed before any is stored.                        *)
SetValidity(v) ==
  /\ adding = <<>>
  /\ IF BadDate \in {v[1], v[2], v[3]}
     THEN outcome' = "ValueError" /\ UNCHANGED validity
     ELSE outcome' = "ok" /\ validity' = v
  /\ UNCHANGED <<dict, adding, namespaces, deviceKey, built>>

(* The key is stored as it comes; whether it is one shows when building.   *)
SetDeviceKey(k) ==
  /\ adding = <<>>
  /\ deviceKey' = <<k>>
  /\ outcome' = "ok"
  /\ UNCHANGED <<dict, adding, namespaces, validity, built>>

(* The keys create_mobile_security_object accepts.                         *)
MsoKeys == {"P-256"}

BuildError ==
  \/ DOMAIN namespaces = {} \/ validity = <<>>
  \/ deviceKey = <<>> \/ deviceKey[1] \notin MsoKeys

(* build_issuer_signed, and get_tbs_data which is the same.                *)
BuildIssuerSigned ==
  /\ adding = <<>>
  /\ IF BuildError
     THEN outcome' = "ValueError" /\ UNCHANGED built
     ELSE /\ outcome' = "ok"
          /\ built' = <<[namespaces |-> namespaces, validity |-> validity,
                         deviceKey |-> deviceKey]>>
  /\ UNCHANGED <<dict, adding, namespaces, validity, deviceKey>>

(* Any method while a claim is being converted, of any thread or of the    *)
(* claim's own code: "Already mutably borrowed".                           *)
CallWhileBorrowed ==
  /\ adding # <<>>
  /\ outcome' = "RuntimeError"
  /\ UNCHANGED <<dict, adding, namespaces, validity, deviceKey, built>>

-----------------------------------------------------------------------------
(* External: Python code assigns, inserts or deletes an entry of the dict, *)
(* as often as it likes; between two calls the caller may take another     *)
(* dict.  What the iterator of a call in progress is to meet depends on    *)
(* whether a key came or went.                                             *)
AssignEntry ==
  \E k \in DOMAIN dict, v \in Claims \cup {Broken} : dict' = [dict EXCEPT ![k] = v]

InsertEntry ==
  \E k \in Keys \ DOMAIN dict, v \in Claims \cup {Broken} :
    dict' = [j \in DOMAIN dict \cup {k} |-> IF j = k THEN v ELSE dict[j]]

DeleteEntry ==
  \E k \in DOMAIN dict : dict' = [j \in DOMAIN dict \ {k} |-> dict[j]]

Python ==
  /\ \/ /\ adding = <<>> /\ dict' \in Dicts
        /\ UNCHANGED adding
     \/ \E a \in Running :
          /\ AssignEntry \/ InsertEntry \/ DeleteEntry
          /\ adding' = <<[a EXCEPT !.keys   = @ \cup DOMAIN dict',
                                   !.stable = @ /\ DOMAIN dict' = DOMAIN dict]>>
  /\ UNCHANGED <<namespaces, validity, deviceKey, built, outcome>>

Init ==
  /\ dict \in Dicts
  /\ adding = <<>>
  /\ namespaces = [n \in {} |-> {}]
  /\ validity = <<>> /\ deviceKey = <<>> /\ built = <<>>
  /\ outcome = "ok"

Next ==
  \/ \E n \in Names : AddEmptyNamespace(n) \/ BeginAddNamespace(n)
  \/ \E a \in Running : NextClaim(a) \/ FinishAddNamespace(a) \/ AddNamespaceFails(a)
  \/ \E v \in Validities : SetValidity(v)
  \/ \E k \in DeviceKeys : SetDeviceKey(k)
  \/ BuildIssuerSigned
  \/ CallWhileBorrowed
  \/ Python

Spec == Init /\ [][Next]_vars

(* The code that converts a claim returns.                                 *)
ConversionsReturn ==
  WF_vars(\E a \in Running : NextClaim(a) \/ FinishAddNamespace(a) \/ AddNamespaceFails(a))

FairSpec == Spec /\ ConversionsReturn

-----------------------------------------------------------------------------
ClaimSets  == Maps(Keys, Claims)
Namespaces == Maps(Names, ClaimSets)

(* The local variables of add_namespace and its iterator, and two          *)
(* histories: the keys the dict has had since the call began, and whether  *)
(* they are the same ones still.                                           *)
Calls == [name : Names, used : Nat, remaining : Nat \cup {-1}, key : Keys,
          value : Claims \cup {Broken}, claims : ClaimSets,
          keys : SUBSET Keys, stable : BOOLEAN]

TypeOK ==
  /\ dict \in Dicts
  /\ \/ adding = <<>>
     \/ /\ adding = <<adding[1]>>
        /\ adding[1] \in Calls
  /\ namespaces \in Namespaces
  /\ validity \in {<<>>} \cup (Dates \X Dates \X Dates)
  /\ deviceKey \in {<<>>} \cup {<<k>> : k \in DeviceKeys}
  /\ \/ built = <<>>
     \/ /\ built = <<built[1]>>
        /\ built[1] \in [namespaces : Namespaces, validity : Dates \X Dates \X Dates,
                         deviceKey : {<<k>> : k \in DeviceKeys}]
  /\ outcome \in {"none", "ok", "TypeError", "ValueError", "RuntimeError", "PanicException"}

(* Sharing a builder between threads, and conversions that reach back into *)
(* the builder or the dict, never show in the builder: each call acts at   *)
(* once and whole.  A call whose dict loses and gets keys while it runs    *)
(* stores some of the keys the dict had, and no more than it has.          *)
Promise(a) == [name |-> a.name, keys |-> a.keys, stable |-> a.stable]
Atomic == INSTANCE AtomicBuilder WITH calls <- {Promise(a) : a \in Running}
RefinesAtomicBuilder == Atomic!Spec

(* A builder does not stay borrowed: whatever conversions do to the dict,  *)
(* also when one puts in a key for each it takes out, and also when one    *)
(* fails, add_namespace ends and gives the builder back.                   *)
BorrowIsReturned == adding # <<>> ~> adding = <<>>
=============================================================================
