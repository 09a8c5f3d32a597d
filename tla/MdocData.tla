------------------------------ MODULE MdocData ------------------------------
(***************************************************************************)
(* The data an ISO 18013-5 mobile document is made of, and the functions   *)
(* of src/mdoc that compute it: the conversion of Python values to CBOR,   *)
(* the salted IssuerSignedItems, the MobileSecurityObject (MSO) whose      *)
(* digests commit to them, the COSE_Sign1 around the MSO and the           *)
(* DeviceResponse that is handed to the wallet.                            *)
(*                                                                         *)
(* Abstractions.  An element name is a natural number, and the order of    *)
(* the numbers is the order a BTreeMap iterates the names in.  A hash is   *)
(* symbolic: the algorithm, the way its input was encoded and the item.    *)
(* A 16-byte random salt is the number of the create_issuer_signed_items   *)
(* call that drew it with the place it was drawn for, so two draws never   *)
(* give the same salt.  Encodings of whole structures are the structures.  *)
(***************************************************************************)
EXTENDS Integers, FiniteSets

-----------------------------------------------------------------------------
(* Python values: a record [type, data].                                   *)

(* External (PyO3): the extractions that succeed on a value of a type.     *)
(* bool is a subclass of int; an int beyond 64 bits still has a float;     *)
(* any sequence of small ints is a Vec<u8>; an "opaque" object has none of *)
(* the numeric protocols, and str() raises on an "unprintable" one.        *)
ExtractsAs ==
  [str    |-> {"String", "repr"},     int         |-> {"i64", "f64", "repr"},
   bool   |-> {"i64", "f64", "bool", "repr"},
   bigint |-> {"f64", "repr"},        float       |-> {"f64", "repr"},
   none   |-> {"none", "repr"},       bytes       |-> {"bytes", "repr"},
   opaque |-> {"repr"},               small_ints  |-> {"bytes", "repr"},
   unprintable |-> {}]

(* Mutation: float is tried before int.                                    *)
ConversionOrderFloatFirst == <<"String", "f64", "i64", "bool", "none", "bytes", "repr">>

(* The order in which python_to_cbor_value tries them.                     *)
ConversionOrder == <<"String", "i64", "f64", "bool", "none", "bytes", "repr">>

(* The CBOR variant each extraction becomes.                               *)
CborVariant ==
  [String |-> "Text", i64  |-> "Integer", f64   |-> "Float",
   bool   |-> "Bool", none |-> "Null",    bytes |-> "Bytes", repr |-> "Text"]

Branches(v) == {i \in DOMAIN ConversionOrder : ConversionOrder[i] \in ExtractsAs[v.type]}

ScalarToCbor(v) ==
  LET taken == CHOOSE i \in Branches(v) : \A j \in Branches(v) : i <= j
  IN  [variant |-> CborVariant[ConversionOrder[taken]], data |-> v.data]

(* A dict is convertible when everything in it is; one level of nesting is *)
(* modelled, the code treats every level alike.                            *)
Convertible(v) ==
  IF v.type = "dict" THEN \A k \in DOMAIN v.data : Branches(v.data[k]) # {}
                     ELSE Branches(v) # {}

PythonToCbor(v) ==
  IF v.type = "dict"
  THEN [variant |-> "Map", data |-> [k \in DOMAIN v.data |-> ScalarToCbor(v.data[k])]]
  ELSE ScalarToCbor(v)

ConvertClaims(claims) == [e \in DOMAIN claims |-> PythonToCbor(claims[e])]

-----------------------------------------------------------------------------
(* IssuerSignedItems: one per claim, numbered in BTreeMap order, each with *)
(* a salt of its own from the given draw.                                  *)

(* Mutation: the counter is never advanced.                                *)
RankNotCounted(e, S) == 0

Rank(e, S) == Cardinality({x \in S : x < e})

(* Mutation: the generator is seeded anew for every document.              *)
SaltAtReseeded(draw, ns, e) == <<1, ns, e>>

SaltAt(draw, ns, e) == <<draw, ns, e>>

(* Mutation: a hash map instead of the BTreeMap, in another order each time.*)
ItemInHashOrder(namespaces, draw, ns, e) ==
  LET names == DOMAIN namespaces[ns]
  IN  [digestID          |-> IF draw % 2 = 0 THEN Rank(e, names)
                             ELSE Cardinality(names) - 1 - Rank(e, names),
       random            |-> SaltAt(draw, ns, e),
       elementIdentifier |-> e,
       elementValue      |-> namespaces[ns][e]]

Item(namespaces, draw, ns, e) ==
  [digestID          |-> Rank(e, DOMAIN namespaces[ns]),
   random            |-> SaltAt(draw, ns, e),
   elementIdentifier |-> e,
   elementValue      |-> namespaces[ns][e]]

CreateIssuerSignedItems(namespaces, draw) ==
  [ns \in DOMAIN namespaces |->
     {Item(namespaces, draw, ns, e) : e \in DOMAIN namespaces[ns]}]

-----------------------------------------------------------------------------
(* The MSO.  ItemEncoding is the form of an item that is hashed: the plain *)
(* CBOR of the item ("bare"), as opposed to the bytes a document carries,  *)
(* which the isomdl library wraps in CBOR tag 24 ("tag24").                *)

SupportedAlgorithms == {"SHA-256", "SHA-384", "SHA-512"}

ItemEncoding == "bare"

Digest(alg, item) == [alg |-> alg, encoding |-> ItemEncoding, item |-> item]

(* The digests of one namespace, keyed by digest ID.                       *)
ValueDigests(items, alg) ==
  [id \in {i.digestID : i \in items} |-> Digest(alg, CHOOSE i \in items : i.digestID = id)]

(* Instants are counted in ticks; the MSO keeps whole seconds.             *)
TicksPerSecond == 2
DatetimeToOffset(t) == t \div TicksPerSecond

CreateMobileSecurityObject(docType, items, alg, validity, deviceKey) ==
  [docType         |-> docType,
   digestAlgorithm |-> alg,
   valueDigests    |-> [ns \in DOMAIN items |-> ValueDigests(items[ns], alg)],
   validityInfo    |-> [signed     |-> DatetimeToOffset(validity.signed),
                        validFrom  |-> DatetimeToOffset(validity.validFrom),
                        validUntil |-> DatetimeToOffset(validity.validUntil)],
   deviceKey       |-> deviceKey]

(* RFC 3339 reaches, by its offsets, a few hours beyond the last second of *)
(* an OffsetDateTime.                                                      *)
LastSecond == 5

(* Any unsupported algorithm, any date out of range, and any device key    *)
(* but a P-256 EC2 COSE_Key is an error; so is no key at all.              *)
MsoError(alg, validity, deviceKey) ==
  \/ alg \notin SupportedAlgorithms
  \/ \E f \in {"signed", "validFrom", "validUntil"} : DatetimeToOffset(validity[f]) > LastSecond
  \/ deviceKey # "P-256"

-----------------------------------------------------------------------------
(* What the signer returns and what becomes of it.  An answer is a DER     *)
(* signature: over which bytes (tbs), whether the signer was given those   *)
(* bytes as they are ("raw") or inside the Sig_structure that COSE signs,  *)
(* and its form: "p256" integers, integers too "wide" for 32 bytes, or     *)
(* "malformed" DER.                                                        *)

Framings == {"raw", "Sig_structure"}
Forms    == {"p256", "wide", "malformed"}

(* der_to_cose_signature (module DerSignature): wide integers are cut.     *)
DerToCose(answer) ==
  [tbs |-> answer.tbs, framing |-> answer.framing, intact |-> answer.form = "p256"]

CreateIssuerAuth(tbs, signature) == [payload |-> tbs, signature |-> signature]

(* The document a DeviceResponse carries; an empty namespace, like no      *)
(* namespace at all, cannot be built.                                      *)
ResponseError(items) == DOMAIN items = {} \/ \E ns \in DOMAIN items : items[ns] = {}

BuildDeviceResponse(docType, items, issuerAuth) ==
  [docType |-> docType, nameSpaces |-> items, issuerAuth |-> issuerAuth]

(* External (COSE): the issuer signature of a document verifies.           *)
IssuerAuthVerifies(doc) ==
  LET sig == doc.issuerAuth.signature
  IN  sig.intact /\ sig.framing = "Sig_structure" /\ sig.tbs = doc.issuerAuth.payload

-----------------------------------------------------------------------------
(* What a set of items says, and what an MSO commits to: namespaces and    *)
(* the value of each element.                                              *)

ClaimsOf(items) ==
  [ns \in DOMAIN items |->
     [e \in {i.elementIdentifier : i \in items[ns]} |->
        (CHOOSE i \in items[ns] : i.elementIdentifier = e).elementValue]]

DigestedItems(mso) ==
  [ns \in DOMAIN mso.valueDigests |->
     {mso.valueDigests[ns][id].item : id \in DOMAIN mso.valueDigests[ns]}]
=============================================================================
