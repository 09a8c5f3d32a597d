-------------------------- MODULE MdocBuilderProofs --------------------------
(***************************************************************************)
(* Theorems about MdocBuilder for any names, claims, dates and keys, and   *)
(* dicts of any size.                                                      *)
(***************************************************************************)
EXTENDS MdocBuilder, FiniteSetTheorems, WellFoundedInduction, TLAPS

(* As long as no key came or went, the keys the iterator has met are       *)
(* exactly those up to the current one.                                    *)
MetInOrder(a) ==
  a.stable => {k \in DOMAIN dict : k <= a.key} = DOMAIN a.claims \cup {a.key}

(* Whatever happens to the dict, it has had the keys met, and they are no  *)
(* more than the entries yielded.                                          *)
MetAreKeys(a) == DOMAIN a.claims \cup {a.key} \subseteq a.keys /\ DOMAIN dict \subseteq a.keys
MetAreYielded(a) == Cardinality(DOMAIN a.claims \cup {a.key}) <= a.used - a.remaining

KeysMet == \A a \in Running : MetInOrder(a) /\ MetAreKeys(a) /\ MetAreYielded(a)

Inv == TypeOK /\ KeysMet

-----------------------------------------------------------------------------
(* Lemmas                                                                  *)

(* The running call, and what is running when nothing is.                  *)
LEMMA RunningCall ==
  /\ adding = <<>> => Running = {}
  /\ \A a : adding = <<a>> => Running = {a}
  BY DEF Running

(* A set of keys that is not empty has a least one.                        *)
LEMMA LeastKey ==
  ASSUME NEW S, S \subseteq Keys, S # {}
  PROVE  Least(S) \in S /\ \A j \in S : Least(S) <= j
<1>1. S \subseteq Nat
  BY KeysAssumption
<1>2. PICK k \in S : \A j \in S : ~(<<j, k>> \in OpToRel(<, Nat))
  BY <1>1, NatLessThanWellFounded, WFMin
<1>3. \A j \in S : ~(j < k)
  BY <1>1, <1>2 DEF OpToRel
<1>4. \A j \in S : k <= j
  BY <1>1, <1>3
<1> QED BY <1>4 DEF Least

(* Putting one more entry into a map gives a map.                          *)
LEMMA OneMoreEntry ==
  ASSUME NEW K, NEW V, NEW f \in Maps(K, V), NEW k \in K, NEW v \in V
  PROVE  [j \in DOMAIN f \cup {k} |-> IF j = k THEN v ELSE f[j]] \in Maps(K, V)
<1>1. PICK S \in SUBSET K : f \in [S -> V]
  BY DEF Maps
<1> DEFINE g == [j \in S \cup {k} |-> IF j = k THEN v ELSE f[j]]
<1>2. g \in [S \cup {k} -> V]
  BY <1>1
<1>3. S \cup {k} \in SUBSET K
  OBVIOUS
<1>4. g \in Maps(K, V)
  <2> HIDE DEF g
  <2> QED BY <1>2, <1>3 DEF Maps
<1> QED BY <1>1, <1>4

(* What a dict is made of.                                                 *)
LEMMA DictEntries ==
  ASSUME TypeOK
  PROVE  /\ DOMAIN dict \subseteq Keys
         /\ IsFiniteSet(DOMAIN dict)
         /\ Cardinality(DOMAIN dict) \in Nat
         /\ dict \in [DOMAIN dict -> Claims \cup {Broken}]
<1>1. PICK S \in SUBSET Keys : dict \in [S -> Claims \cup {Broken}]
  BY DEF TypeOK, Dicts, Maps
<1>2. IsFiniteSet(DOMAIN dict)
  BY <1>1, KeysAssumption, FS_Subset
<1> QED BY <1>1, <1>2, FS_CardinalityType

(* A running call, typed.                                                  *)
LEMMA RunningType ==
  ASSUME TypeOK, NEW a, adding = <<a>>
  PROVE  a \in Calls
  BY DEF TypeOK

(* The maps of the module.                                                 *)
LEMMA InsertedType ==
  ASSUME TypeOK, NEW a, adding = <<a>>, a.value # Broken
  PROVE  Inserted(a) \in ClaimSets /\ DOMAIN Inserted(a) = DOMAIN a.claims \cup {a.key}
<1>1. a.claims \in ClaimSets /\ a.key \in Keys /\ a.value \in Claims
  BY RunningType DEF Calls
<1>2. Inserted(a) \in ClaimSets
  BY <1>1, OneMoreEntry DEF ClaimSets, Inserted
<1> QED BY <1>2 DEF Inserted

(* The keys met are a finite set, also with one more.                      *)
LEMMA MetFinite ==
  ASSUME NEW a \in Calls
  PROVE  /\ IsFiniteSet(DOMAIN a.claims \cup {a.key})
         /\ Cardinality(DOMAIN a.claims \cup {a.key}) \in Nat
<1>1. PICK S \in SUBSET Keys : a.claims \in [S -> Claims]
  BY DEF Calls, ClaimSets, Maps
<1>2. DOMAIN a.claims \cup {a.key} \subseteq Keys
  BY <1>1 DEF Calls
<1> QED BY <1>2, KeysAssumption, FS_Subset, FS_CardinalityType

(* What the iterator may yield is in the dict.                             *)
LEMMA UpcomingInDict ==
  ASSUME TypeOK, NEW a \in Calls, NEW next \in Upcoming(a)
  PROVE  /\ next \in DOMAIN dict /\ next \in Keys
         /\ dict[next] \in Claims \cup {Broken}
         /\ a.stable => next \in After(a.key) /\ \A j \in After(a.key) : next <= j
<1>1. CASE a.stable
  <2>1. next \in After(a.key) /\ next = Least(After(a.key))
    BY <1>1 DEF Upcoming
  <2>2. After(a.key) \subseteq DOMAIN dict /\ DOMAIN dict \subseteq Keys
    BY DictEntries DEF After
  <2>3. \A j \in After(a.key) : next <= j
    BY <2>1, <2>2, LeastKey
  <2> QED BY <2>1, <2>2, <2>3, DictEntries
<1>2. CASE ~a.stable
  BY <1>2, DictEntries DEF Upcoming
<1> QED BY <1>1, <1>2

(* The call after an entry is yielded.                                     *)
LEMMA YieldedType ==
  ASSUME TypeOK, NEW a, adding = <<a>>, a.value # Broken, ~IteratorPanics(a),
         NEW next \in Upcoming(a)
  PROVE  /\ Yielded(a, next) \in Calls
         /\ Yielded(a, next).key = next
         /\ Yielded(a, next).claims = Inserted(a)
         /\ Yielded(a, next).remaining = a.remaining - 1
         /\ Yielded(a, next).used = a.used
         /\ Yielded(a, next).keys = a.keys
         /\ Yielded(a, next).stable = a.stable
         /\ Yielded(a, next).name = a.name
<1>1. a \in Calls
  BY RunningType
<1>2. next \in Keys /\ dict[next] \in Claims \cup {Broken}
  BY <1>1, UpcomingInDict
<1>3. Inserted(a) \in ClaimSets
  BY InsertedType
<1>4. a.remaining \in Nat
  BY <1>1 DEF Calls, IteratorPanics
<1>5. a.remaining - 1 \in Nat \cup {-1}
  BY <1>4
<1> QED BY <1>1, <1>2, <1>3, <1>5 DEF Yielded, Calls

(* A claim set stored under a name.                                        *)
LEMMA StoreType ==
  ASSUME TypeOK, NEW n \in Names, NEW c \in ClaimSets, StoreNamespace(n, c)
  PROVE  namespaces' \in Namespaces
  BY OneMoreEntry DEF TypeOK, StoreNamespace, Namespaces

(* The empty claim set.                                                    *)
LEMMA EmptyClaims == [k \in {} |-> {}] \in ClaimSets
<1>1. [k \in {} |-> {}] \in [{} -> Claims]
  OBVIOUS
<1> QED BY <1>1 DEF ClaimSets, Maps

-----------------------------------------------------------------------------
(* Type correctness                                                        *)

(* Every step keeps the types.                                             *)
LEMMA TypeInductive ==
  ASSUME TypeOK, [Next]_vars
  PROVE  TypeOK'
<1>1. ASSUME NEW n \in Names, AddEmptyNamespace(n)
      PROVE  TypeOK'
  <2>1. namespaces' \in Namespaces
    BY <1>1, EmptyClaims, StoreType DEF AddEmptyNamespace
  <2> QED BY <1>1, <2>1 DEF AddEmptyNamespace, TypeOK
<1>2. ASSUME NEW n \in Names, BeginAddNamespace(n)
      PROVE  TypeOK'
  <2> DEFINE first == Least(DOMAIN dict)
             size == Cardinality(DOMAIN dict)
  <2>1. first \in DOMAIN dict /\ first \in Keys
    BY <1>2, DictEntries, LeastKey DEF BeginAddNamespace
  <2>2. dict[first] \in Claims \cup {Broken} /\ DOMAIN dict \in SUBSET Keys
    BY <2>1, DictEntries
  <2>3. size \in Nat /\ size - 1 \in Nat \cup {-1}
    BY DictEntries
  <2>4. PICK a : /\ adding' = <<a>>
                 /\ a = [name |-> n, used |-> size, remaining |-> size - 1, key |-> first,
                         value |-> dict[first], claims |-> [k \in {} |-> {}],
                         keys |-> DOMAIN dict, stable |-> TRUE]
    BY <1>2 DEF BeginAddNamespace
  <2> HIDE DEF first, size
  <2>5. a \in Calls
    BY <2>1, <2>2, <2>3, <2>4, EmptyClaims DEF Calls
  <2>6. outcome' = "none" /\ UNCHANGED <<dict, namespaces, validity, deviceKey, built>>
    BY <1>2 DEF BeginAddNamespace
  <2> QED BY <2>4, <2>5, <2>6 DEF TypeOK
<1>3. ASSUME NEW a \in Running, NextClaim(a)
      PROVE  TypeOK'
  <2>1. PICK next \in Upcoming(a) : adding' = <<Yielded(a, next)>>
    BY <1>3 DEF NextClaim
  <2>2. Yielded(a, next) \in Calls
    BY <1>3, YieldedType DEF NextClaim
  <2> QED BY <1>3, <2>1, <2>2 DEF NextClaim, TypeOK
<1>4. ASSUME NEW a \in Running, FinishAddNamespace(a)
      PROVE  TypeOK'
  <2>1. adding = <<a>> /\ a.value # Broken /\ StoreNamespace(a.name, Inserted(a))
    BY <1>4 DEF FinishAddNamespace
  <2>2. Inserted(a) \in ClaimSets
    BY <2>1, InsertedType
  <2>3. a.name \in Names
    BY <2>1, RunningType DEF Calls
  <2>4. namespaces' \in Namespaces
    BY <2>1, <2>2, <2>3, StoreType
  <2> QED BY <1>4, <2>4 DEF FinishAddNamespace, TypeOK
<1>5. ASSUME NEW a \in Running, AddNamespaceFails(a)
      PROVE  TypeOK'
  BY <1>5 DEF AddNamespaceFails, TypeOK
<1>6. ASSUME NEW v \in Validities, SetValidity(v)
      PROVE  TypeOK'
  <2>1. CASE BadDate \in {v[1], v[2], v[3]}
    BY <1>6, <2>1 DEF SetValidity, TypeOK
  <2>2. CASE BadDate \notin {v[1], v[2], v[3]}
    <3>1. v \in Dates \X Dates \X Dates
      BY <2>2, ValiditiesAssumption
    <3> QED BY <1>6, <2>2, <3>1 DEF SetValidity, TypeOK
  <2> QED BY <2>1, <2>2
<1>7. ASSUME NEW k \in DeviceKeys, SetDeviceKey(k)
      PROVE  TypeOK'
  BY <1>7 DEF SetDeviceKey, TypeOK
<1>8. CASE BuildIssuerSigned
  <2>1. CASE BuildError
    BY <1>8, <2>1 DEF BuildIssuerSigned, TypeOK
  <2>2. CASE ~BuildError
    <3> DEFINE b == [namespaces |-> namespaces, validity |-> validity, deviceKey |-> deviceKey]
    <3>1. b \in [namespaces : Namespaces, validity : Dates \X Dates \X Dates,
                 deviceKey : {<<k>> : k \in DeviceKeys}]
      BY <2>2 DEF TypeOK, BuildError
    <3>2. built' = <<b>> /\ outcome' = "ok"
      BY <1>8, <2>2 DEF BuildIssuerSigned
    <3> HIDE DEF b
    <3> QED BY <1>8, <3>1, <3>2 DEF BuildIssuerSigned, TypeOK
  <2> QED BY <2>1, <2>2
<1>9. CASE CallWhileBorrowed
  BY <1>9 DEF CallWhileBorrowed, TypeOK
<1>10. CASE Python
  <2>1. dict' \in Dicts
    <3>1. CASE AssignEntry
      <4>1. PICK k \in DOMAIN dict, v \in Claims \cup {Broken} : dict' = [dict EXCEPT ![k] = v]
        BY <3>1 DEF AssignEntry
      <4>2. dict' \in [DOMAIN dict -> Claims \cup {Broken}]
        BY <4>1, DictEntries
      <4> QED BY <4>2, DictEntries DEF Dicts, Maps
    <3>2. CASE InsertEntry
      <4>1. PICK k \in Keys \ DOMAIN dict, v \in Claims \cup {Broken} :
              dict' = [j \in DOMAIN dict \cup {k} |-> IF j = k THEN v ELSE dict[j]]
        BY <3>2 DEF InsertEntry
      <4>2. dict \in Maps(Keys, Claims \cup {Broken}) /\ k \in Keys
        BY DEF TypeOK, Dicts
      <4>3. dict' \in Maps(Keys, Claims \cup {Broken})
        BY <4>1, <4>2, OneMoreEntry
      <4> QED BY <4>3 DEF Dicts
    <3>3. CASE DeleteEntry
      <4>1. PICK k \in DOMAIN dict : dict' = [j \in DOMAIN dict \ {k} |-> dict[j]]
        BY <3>3 DEF DeleteEntry
      <4>2. dict' \in [DOMAIN dict \ {k} -> Claims \cup {Broken}]
        BY <4>1, DictEntries
      <4>3. DOMAIN dict \ {k} \in SUBSET Keys
        BY DictEntries
      <4> QED BY <4>2, <4>3 DEF Dicts, Maps
    <3> QED BY <1>10, <3>1, <3>2, <3>3 DEF Python
  <2>2. CASE adding = <<>> /\ UNCHANGED adding
    BY <1>10, <2>1, <2>2 DEF Python, TypeOK
  <2>3. ASSUME NEW a \in Running,
               adding' = <<[a EXCEPT !.keys   = @ \cup DOMAIN dict',
                                     !.stable = @ /\ DOMAIN dict' = DOMAIN dict]>>
        PROVE  TypeOK'
    <3> DEFINE b == [a EXCEPT !.keys   = @ \cup DOMAIN dict',
                              !.stable = @ /\ DOMAIN dict' = DOMAIN dict]
    <3>1. a \in Calls
      BY RunningType DEF Running, TypeOK
    <3>2. DOMAIN dict' \subseteq Keys
      BY <2>1 DEF Dicts, Maps
    <3>3. b \in Calls
      BY <3>1, <3>2 DEF Calls
    <3>4. adding' = <<b>>
      BY <2>3
    <3> HIDE DEF b
    <3> QED BY <1>10, <2>1, <3>3, <3>4 DEF Python, TypeOK
  <2> QED BY <1>10, <2>2, <2>3 DEF Python
<1>11. CASE UNCHANGED vars
  BY <1>11 DEF vars, TypeOK
<1> QED BY <1>1, <1>2, <1>3, <1>4, <1>5, <1>6, <1>7, <1>8, <1>9, <1>10, <1>11 DEF Next

(* The types hold in every reachable state: in particular a validity or a  *)
(* claim that could not be parsed or converted is never stored.            *)
THEOREM TypeCorrect ==
  Spec => []TypeOK
<1>1. Init => TypeOK
  <2> SUFFICES ASSUME Init PROVE TypeOK
    OBVIOUS
  <2>1. [n \in {} |-> {}] \in [{} -> ClaimSets]
    OBVIOUS
  <2>2. [n \in {} |-> {}] \in Namespaces
    BY <2>1 DEF Namespaces, Maps
  <2> QED BY <2>2 DEF Init, TypeOK
<1> QED BY <1>1, TypeInductive, PTL DEF Spec

-----------------------------------------------------------------------------
(* What the iterator has met                                               *)

(* Python code changes the dict during a call.                             *)
LEMMA PythonKeepsMet ==
  ASSUME Inv, Python, NEW a, adding = <<a>>,
         NEW b, b = [a EXCEPT !.keys   = @ \cup DOMAIN dict',
                              !.stable = @ /\ DOMAIN dict' = DOMAIN dict]
  PROVE  MetInOrder(b)' /\ MetAreKeys(b)' /\ MetAreYielded(b)'
<1>1. a \in Calls /\ a \in Running
  BY RunningType, RunningCall DEF Inv
<1>2. /\ b.keys = a.keys \cup DOMAIN dict' /\ b.claims = a.claims /\ b.key = a.key
      /\ b.used = a.used /\ b.remaining = a.remaining
  BY <1>1 DEF Calls
<1>3. b.stable => a.stable /\ DOMAIN dict' = DOMAIN dict
  BY <1>1 DEF Calls
<1>4. MetInOrder(a) /\ MetAreKeys(a) /\ MetAreYielded(a)
  BY <1>1 DEF Inv, KeysMet
<1>5. MetInOrder(b)'
  BY <1>2, <1>3, <1>4 DEF MetInOrder
<1>6. MetAreKeys(b)'
  BY <1>2, <1>4 DEF MetAreKeys
<1>7. MetAreYielded(b)'
  BY <1>2, <1>4 DEF MetAreYielded
<1> QED BY <1>5, <1>6, <1>7

(* Every step keeps the account of the keys met.                           *)
LEMMA KeysMetInductive ==
  ASSUME Inv, [Next]_vars
  PROVE  KeysMet'
<1> USE DEF Inv
<1>1. ASSUME NEW n \in Names, BeginAddNamespace(n)
      PROVE  KeysMet'
  <2> DEFINE first == Least(DOMAIN dict)
             size == Cardinality(DOMAIN dict)
  <2>1. DOMAIN dict # {} /\ DOMAIN dict \subseteq Nat /\ size \in Nat
    BY <1>1, DictEntries, KeysAssumption DEF BeginAddNamespace
  <2>2. first \in DOMAIN dict /\ \A j \in DOMAIN dict : first <= j
    BY <2>1, DictEntries, LeastKey
  <2>3. PICK a : /\ adding' = <<a>>
                 /\ DOMAIN a.claims = {} /\ a.key = first /\ a.keys = DOMAIN dict
                 /\ a.used = size /\ a.remaining = size - 1
    BY <1>1 DEF BeginAddNamespace
  <2>4. Running' = {a}
    BY <2>3 DEF Running
  <2>d. dict' = dict
    BY <1>1 DEF BeginAddNamespace
  <2> HIDE DEF first, size
  <2>5. {k \in DOMAIN dict : k <= first} = {first}
    BY <2>1, <2>2
  <2>6. MetInOrder(a)' /\ MetAreKeys(a)'
    BY <2>2, <2>3, <2>5, <2>d DEF MetInOrder, MetAreKeys
  <2>7. Cardinality({first}) = 1
    BY FS_Singleton
  <2>8. MetAreYielded(a)'
    <3>1. DOMAIN a.claims \cup {a.key} = {first}
      BY <2>3
    <3> QED BY <2>1, <2>3, <2>7, <3>1 DEF MetAreYielded
  <2> QED BY <2>4, <2>6, <2>8 DEF KeysMet
<1>2. ASSUME NEW a \in Running, NextClaim(a)
      PROVE  KeysMet'
  <2>1. /\ adding = <<a>> /\ a.value # Broken /\ ~IteratorPanics(a) /\ dict' = dict
    BY <1>2 DEF NextClaim
  <2>2. PICK next \in Upcoming(a) : adding' = <<Yielded(a, next)>>
    BY <1>2 DEF NextClaim
  <2> DEFINE met == DOMAIN a.claims \cup {a.key}
  <2>b. PICK b : b = Yielded(a, next)
    OBVIOUS
  <2>3. /\ b.key = next /\ b.claims = Inserted(a) /\ b.remaining = a.remaining - 1
        /\ b.used = a.used /\ b.keys = a.keys /\ b.stable = a.stable
    BY <2>1, <2>b, YieldedType
  <2>4. Running' = {b}
    BY <2>2, <2>b DEF Running
  <2>5. a \in Calls /\ MetInOrder(a) /\ MetAreKeys(a) /\ MetAreYielded(a)
    BY <2>1, RunningType DEF KeysMet
  <2>6. /\ next \in DOMAIN dict
        /\ a.stable => next \in After(a.key) /\ \A j \in After(a.key) : next <= j
    BY <2>5, UpcomingInDict
  <2>7. DOMAIN Inserted(a) = met
    BY <2>1, InsertedType
  <2>8. DOMAIN dict \subseteq Nat /\ a.key \in Nat
    BY <2>5, DictEntries, KeysAssumption DEF Calls
  <2>9. MetInOrder(b)'
    <3>1. SUFFICES ASSUME a.stable
                   PROVE  {k \in DOMAIN dict : k <= next} = met \cup {next}
      BY <2>1, <2>3, <2>7 DEF MetInOrder
    <3>2. {k \in DOMAIN dict : k <= a.key} = met
      BY <2>5, <3>1 DEF MetInOrder
    <3>3. {k \in DOMAIN dict : k <= next} = {k \in DOMAIN dict : k <= a.key} \cup {next}
      BY <2>6, <2>8, <3>1 DEF After
    <3> QED BY <3>2, <3>3
  <2>10. MetAreKeys(b)'
    BY <2>1, <2>3, <2>5, <2>6, <2>7 DEF MetAreKeys
  <2>11. MetAreYielded(b)'
    <3>1. IsFiniteSet(met) /\ Cardinality(met) \in Nat
      BY <2>5, MetFinite
    <3>2. Cardinality(met \cup {next}) <= Cardinality(met) + 1
      BY <3>1, FS_AddElement
    <3>3. Cardinality(met) <= a.used - a.remaining
      BY <2>5 DEF MetAreYielded
    <3>4. IsFiniteSet(met \cup {next}) /\ Cardinality(met \cup {next}) \in Nat
      BY <3>1, FS_AddElement, FS_CardinalityType
    <3>5. DOMAIN b.claims \cup {b.key} = met \cup {next}
      BY <2>3, <2>7
    <3>6. a.used \in Nat /\ a.remaining \in Int
      BY <2>5 DEF Calls
    <3> HIDE DEF met
    <3>7. Cardinality(met \cup {next}) <= a.used - (a.remaining - 1)
      BY <3>1, <3>2, <3>3, <3>4, <3>6
    <3> QED BY <2>3, <3>5, <3>7 DEF MetAreYielded
  <2> QED BY <2>4, <2>9, <2>10, <2>11 DEF KeysMet
<1>3. CASE Python
  <2>1. CASE adding = <<>> /\ UNCHANGED adding
    BY <2>1 DEF KeysMet, Running
  <2>2. ASSUME NEW a \in Running,
               adding' = <<[a EXCEPT !.keys   = @ \cup DOMAIN dict',
                                     !.stable = @ /\ DOMAIN dict' = DOMAIN dict]>>
        PROVE  KeysMet'
    <3> PICK b : b = [a EXCEPT !.keys   = @ \cup DOMAIN dict',
                               !.stable = @ /\ DOMAIN dict' = DOMAIN dict]
      OBVIOUS
    <3>1. adding = <<a>>
      BY DEF Running, TypeOK
    <3>2. MetInOrder(b)' /\ MetAreKeys(b)' /\ MetAreYielded(b)'
      BY <1>3, <3>1, PythonKeepsMet
    <3>3. Running' = {b}
      BY <2>2 DEF Running
    <3> QED BY <3>2, <3>3 DEF KeysMet
  <2> QED BY <1>3, <2>1, <2>2 DEF Python
<1>4. ASSUME Running' = {}
      PROVE  KeysMet'
  BY <1>4 DEF KeysMet
<1>5. ASSUME UNCHANGED <<dict, adding>>
      PROVE  KeysMet'
  BY <1>5 DEF KeysMet, Running, MetInOrder, MetAreKeys, MetAreYielded
<1>6. ASSUME NEW n \in Names, AddEmptyNamespace(n)
      PROVE  KeysMet'
  BY <1>5, <1>6 DEF AddEmptyNamespace
<1>7. ASSUME NEW a \in Running, FinishAddNamespace(a) \/ AddNamespaceFails(a)
      PROVE  KeysMet'
  <2>1. Running' = {}
    BY <1>7 DEF FinishAddNamespace, AddNamespaceFails, Running
  <2> QED BY <1>4, <2>1
<1>8. CASE \/ \E v \in Validities : SetValidity(v)
           \/ \E k \in DeviceKeys : SetDeviceKey(k)
           \/ BuildIssuerSigned \/ CallWhileBorrowed \/ UNCHANGED vars
  BY <1>5, <1>8 DEF SetValidity, SetDeviceKey, BuildIssuerSigned, CallWhileBorrowed, vars
<1> QED BY <1>1, <1>2, <1>3, <1>6, <1>7, <1>8 DEF Next

(* The invariant of the refinement holds in every reachable state.         *)
LEMMA Invariance ==
  Spec => []Inv
<1>1. Init => KeysMet
  BY DEF Init, KeysMet, Running
<1>2. KeysMet /\ TypeOK /\ [Next]_vars => KeysMet'
  BY KeysMetInductive DEF Inv
<1> QED BY <1>1, <1>2, TypeCorrect, PTL DEF Spec, Inv

-----------------------------------------------------------------------------
(* Refinement                                                              *)

(* What is stored in the end: the keys of the dict, if none came or went,  *)
(* and otherwise keys it has had, as many as it has at the most.           *)
LEMMA StoredKeys ==
  ASSUME Inv, NEW a, adding = <<a>>, a.value # Broken, ~IteratorPanics(a), MayEnd(a)
  PROVE  /\ Inserted(a) \in [DOMAIN Inserted(a) -> Claims]
         /\ DOMAIN Inserted(a) \subseteq a.keys
         /\ a.stable => DOMAIN Inserted(a) = DOMAIN dict
         /\ Cardinality(DOMAIN Inserted(a)) <= Cardinality(DOMAIN dict)
<1> DEFINE met == DOMAIN a.claims \cup {a.key}
<1>1. a \in Calls /\ MetInOrder(a) /\ MetAreKeys(a) /\ MetAreYielded(a)
  BY RunningType, RunningCall DEF Inv, KeysMet
<1>2. DOMAIN Inserted(a) = met /\ Inserted(a) \in ClaimSets
  BY InsertedType DEF Inv
<1>3. ASSUME a.stable PROVE met = DOMAIN dict
  <2>1. DOMAIN dict \subseteq Nat /\ a.key \in Nat
    BY <1>1, DictEntries, KeysAssumption DEF Calls, Inv
  <2>2. DOMAIN dict = {k \in DOMAIN dict : k <= a.key}
    BY <1>3, <2>1 DEF MayEnd, After
  <2> QED BY <1>1, <1>3, <2>2 DEF MetInOrder
<1>4. Cardinality(met) <= Cardinality(DOMAIN dict)
  <2>1. Cardinality(DOMAIN dict) = a.used /\ a.remaining \in Nat /\ a.used \in Nat
    BY <1>1 DEF IteratorPanics, Calls
  <2>2. Cardinality(met) <= a.used - a.remaining /\ Cardinality(met) \in Nat
    BY <1>1, MetFinite DEF MetAreYielded
  <2> HIDE DEF met
  <2> QED BY <2>1, <2>2
<1>5. Inserted(a) \in [DOMAIN Inserted(a) -> Claims]
  BY <1>2 DEF ClaimSets, Maps
<1> QED BY <1>1, <1>2, <1>3, <1>4, <1>5 DEF MetAreKeys

(* What the atomic builder sees of a step of Python code.                  *)
LEMMA PythonRefines ==
  ASSUME Inv, Python
  PROVE  Atomic!Python
<1>1. dict' \in Dicts
  BY TypeInductive DEF Inv, Next, TypeOK
<1> DEFINE Changed(c) == [name   |-> c.name,
                          keys   |-> c.keys \cup DOMAIN dict',
                          stable |-> c.stable /\ DOMAIN dict' = DOMAIN dict]
<1>2. {Promise(b) : b \in Running'} = {Changed(c) : c \in {Promise(a) : a \in Running}}
  <2>1. CASE adding = <<>> /\ UNCHANGED adding
    BY <2>1 DEF Running
  <2>2. ASSUME NEW a \in Running,
               adding' = <<[a EXCEPT !.keys   = @ \cup DOMAIN dict',
                                     !.stable = @ /\ DOMAIN dict' = DOMAIN dict]>>
        PROVE  {Promise(b) : b \in Running'} = {Changed(c) : c \in {Promise(d) : d \in Running}}
    <3> DEFINE same == a.stable /\ DOMAIN dict' = DOMAIN dict
    <3>1. PICK b : /\ b = [a EXCEPT !.keys = @ \cup DOMAIN dict', !.stable = same]
                   /\ adding' = <<b>>
      BY <2>2
    <3>2. adding = <<a>>
      BY DEF Running, TypeOK, Inv
    <3>3. a \in Calls
      BY <3>2, RunningType DEF Inv
    <3>4. b.name = a.name /\ b.keys = a.keys \cup DOMAIN dict' /\ b.stable = same
      <4> HIDE DEF same
      <4> QED BY <3>1, <3>3 DEF Calls
    <3>5. Running = {a} /\ Running' = {b}
      BY <3>1, <3>2 DEF Running
    <3>6. Promise(a).name = a.name /\ Promise(a).keys = a.keys /\ Promise(a).stable = a.stable
      BY DEF Promise
    <3>7. Changed(Promise(a)) = [name |-> a.name, keys |-> a.keys \cup DOMAIN dict',
                                 stable |-> same]
      BY <3>6
    <3>8. Promise(b) = [name |-> a.name, keys |-> a.keys \cup DOMAIN dict', stable |-> same]
      <4> HIDE DEF same
      <4> QED BY <3>4 DEF Promise
    <3> HIDE DEF Changed, same
    <3>9. Promise(b) = Changed(Promise(a))
      BY <3>7, <3>8
    <3>10. {Promise(d) : d \in Running} = {Promise(a)}
      BY <3>5
    <3> QED BY <3>5, <3>9, <3>10
  <2> QED BY <2>1, <2>2 DEF Python
<1> QED BY <1>1, <1>2 DEF Python, Atomic!Python, Promise

(* Every step is one of the atomic builder, or changes nothing it sees.    *)
LEMMA StepRefines ==
  ASSUME Inv, [Next]_vars
  PROVE  [Atomic!Next]_(Atomic!vars)
<1> USE DEF Atomic!vars
<1> DEFINE calls == {Promise(a) : a \in Running}
<1>a. adding = <<>> => calls = {}
  BY DEF Running
<1>b. UNCHANGED adding => calls' = calls
  BY DEF Running
<1> HIDE DEF calls
<1>1. ASSUME NEW n \in Names, AddEmptyNamespace(n)
      PROVE  Atomic!Add(n)
  <2> DEFINE c == [k \in {} |-> {}]
  <2>1. c \in [DOMAIN dict -> Claims]
    BY <1>1 DEF AddEmptyNamespace
  <2>2. StoreNamespace(n, c) /\ UNCHANGED <<dict, validity, deviceKey, built>>
    BY <1>1 DEF AddEmptyNamespace
  <2>3. calls = {} /\ calls' = calls
    BY <1>a, <1>b, <1>1 DEF AddEmptyNamespace
  <2> HIDE DEF c
  <2> QED BY <2>1, <2>2, <2>3 DEF Atomic!Add, Atomic!Store, StoreNamespace, calls
<1>2. ASSUME NEW a \in Running, FinishAddNamespace(a)
      PROVE  Promise(a) \in calls /\ Atomic!Finish(Promise(a))
  <2>1. /\ adding = <<a>> /\ a.value # Broken /\ ~IteratorPanics(a) /\ MayEnd(a)
        /\ StoreNamespace(a.name, Inserted(a)) /\ adding' = <<>>
        /\ UNCHANGED <<dict, validity, deviceKey, built>>
    BY <1>2 DEF FinishAddNamespace
  <2>2. calls' = {} /\ Promise(a) \in calls
    BY <1>2, <2>1 DEF calls, Running
  <2> DEFINE c == Promise(a)
             S == DOMAIN Inserted(a)
  <2>3. c.name = a.name /\ c.keys = a.keys /\ c.stable = a.stable
    BY DEF Promise
  <2> HIDE DEF c
  <2>4. Inserted(a) \in [S -> Claims] /\ S \in Atomic!Offered(c)
    BY <2>1, <2>3, StoredKeys DEF Atomic!Offered, Atomic!Cardinality, Cardinality
  <2>5. Atomic!Store(c.name, Inserted(a))
    BY <2>1, <2>3 DEF Atomic!Store, StoreNamespace
  <2>6. Atomic!Finish(c)
    BY <2>2, <2>4, <2>5 DEF Atomic!Finish, calls
  <2> QED BY <2>2, <2>6 DEF c
<1>3. ASSUME NEW v \in Validities, SetValidity(v)
      PROVE  Atomic!SetValidity \/ UNCHANGED Atomic!vars
  <2>1. calls = {} /\ calls' = calls
    BY <1>a, <1>b, <1>3 DEF SetValidity
  <2>2. CASE BadDate \in {v[1], v[2], v[3]}
    BY <1>3, <2>1, <2>2 DEF SetValidity, calls
  <2>3. CASE BadDate \notin {v[1], v[2], v[3]}
    <3>1. v = <<v[1], v[2], v[3]>> /\ v[1] \in Dates /\ v[2] \in Dates /\ v[3] \in Dates
      BY <2>3, ValiditiesAssumption
    <3> QED BY <1>3, <2>1, <2>3, <3>1 DEF SetValidity, Atomic!SetValidity, calls
  <2> QED BY <2>2, <2>3
<1>4. ASSUME NEW k \in DeviceKeys, SetDeviceKey(k)
      PROVE  Atomic!SetDeviceKey
  BY <1>a, <1>b, <1>4 DEF SetDeviceKey, Atomic!SetDeviceKey, calls
<1>5. ASSUME BuildIssuerSigned
      PROVE  Atomic!Build \/ UNCHANGED Atomic!vars
  BY <1>a, <1>b, <1>5 DEF BuildIssuerSigned, BuildError, Atomic!Build, calls
<1>6. ASSUME NEW n \in Names, BeginAddNamespace(n)
      PROVE  Atomic!Begin(n)
  <2>1. /\ calls = {}
        /\ UNCHANGED <<dict, namespaces, validity, deviceKey, built>>
    BY <1>a, <1>6 DEF BeginAddNamespace
  <2>2. PICK b : /\ adding' = <<b>>
                 /\ b.name = n /\ b.keys = DOMAIN dict /\ b.stable = TRUE
    BY <1>6 DEF BeginAddNamespace
  <2>3. Running' = {b}
    BY <2>2 DEF Running
  <2>4. calls' = {[name |-> n, keys |-> DOMAIN dict, stable |-> TRUE]}
    BY <2>2, <2>3 DEF calls, Promise
  <2> QED BY <2>1, <2>4 DEF Atomic!Begin, calls
<1>7. ASSUME NEW a \in Running, NextClaim(a)
      PROVE  UNCHANGED Atomic!vars
  <2>1. PICK next \in Upcoming(a) : adding' = <<Yielded(a, next)>>
    BY <1>7 DEF NextClaim
  <2>2. adding = <<a>> /\ UNCHANGED <<dict, namespaces, validity, deviceKey, built>>
    BY <1>7 DEF NextClaim
  <2>3. Promise(Yielded(a, next)) = Promise(a)
    BY <1>7, <2>2, YieldedType DEF NextClaim, Promise, Inv
  <2>4. Running = {a} /\ Running' = {Yielded(a, next)}
    BY <2>1, <2>2 DEF Running
  <2>5. calls' = calls
    BY <2>3, <2>4 DEF calls
  <2> QED BY <2>2, <2>5 DEF calls
<1>8. ASSUME NEW a \in Running, AddNamespaceFails(a)
      PROVE  Atomic!Abandon
  <2>1. calls' = {}
    BY <1>8 DEF AddNamespaceFails, calls, Running
  <2> QED BY <1>8, <2>1 DEF AddNamespaceFails, Atomic!Abandon, calls
<1>9. CASE CallWhileBorrowed \/ UNCHANGED vars
  BY <1>b, <1>9 DEF CallWhileBorrowed, vars, calls
<1>10. ASSUME Python
       PROVE  Atomic!Python
  BY <1>10, PythonRefines
<1> QED BY <1>1, <1>2, <1>3, <1>4, <1>5, <1>6, <1>7, <1>8, <1>9, <1>10
        DEF Next, Atomic!Next, calls

(* The shared builder implements the atomic one, whatever conversions do   *)
(* to the dict, a key put in for each taken out included: a namespace is   *)
(* stored whole, with the keys of the dict unless keys came and went, and  *)
(* no conversion that calls back, no panic and no rejected call leaves a   *)
(* trace in the builder.                                                   *)
THEOREM ImplementsAtomicBuilder ==
  Spec => RefinesAtomicBuilder
<1>1. Init => Atomic!Init
  BY DEF Init, Atomic!Init, Running
<1>2. Inv /\ [Next]_vars => [Atomic!Next]_(Atomic!vars)
  BY StepRefines
<1> QED BY <1>1, <1>2, Invariance, PTL DEF Spec, Atomic!Spec, RefinesAtomicBuilder
=============================================================================
