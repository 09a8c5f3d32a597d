--------------------------- MODULE MdocHsmSigning ---------------------------
(***************************************************************************)
(* Issuing mobile documents with a signer that lives elsewhere             *)
(* (src/mdoc/bindings.rs, builder.rs, document.rs).                        *)
(*                                                                         *)
(* prepare_mdoc_for_hsm turns a request into an object that holds the      *)
(* bytes to sign (tbs_data, the MSO) and the items to disclose.  The       *)
(* caller sends those bytes to the HSM, which answers when it likes, and   *)
(* hands an answer to complete_with_signature.  The object lives in the    *)
(* memory of the process only, and nothing ties an answer to an object:    *)
(* an answer may be late, come twice, or be given to another object, also  *)
(* one that was prepared for the same purpose after a restart.             *)
(***************************************************************************)
EXTENDS MdocData

CONSTANTS Handles,   (* the variables of the caller that hold a preparation *)
          Requests,  (* the arguments callers pass to prepare_mdoc_for_hsm  *)
          BadDate,   (* a date that is missing, no str or not RFC 3339      *)
          MaxDraws,  (* bound: no preparation starts after so many draws    *)
          MaxAnswers (* bound: how many answers the HSM gives               *)

(* Element names are numbers, dicts are finite, dates that parse are       *)
(* instants.                                                               *)
ASSUME RequestsAssumption ==
  \A r \in Requests :
    /\ \A ns \in DOMAIN r.namespaces :
         /\ IsFiniteSet(DOMAIN r.namespaces[ns])
         /\ DOMAIN r.namespaces[ns] \subseteq Int
    /\ \A f \in {"signed", "validFrom", "validUntil"} :
         r.validity[f] \in Nat \cup {BadDate}

VARIABLES
  drawn,     (* how often create_issuer_signed_items has drawn salts        *)
  prepared,  (* the MdocPreparedForHsm a handle holds, for those that do    *)
  asked,     (* the signing requests the HSM has received                   *)
  answers,   (* the signatures the HSM has given, for ever deliverable      *)
  documents, (* the documents handed out                                    *)
  outcome    (* how the last call into the library ended                    *)

vars == <<drawn, prepared, asked, answers, documents, outcome>>

-----------------------------------------------------------------------------
(* prepare_mdoc_for_hsm                                                    *)

(* Errors before any salt is drawn: a date, a claim that cannot be         *)
(* converted (a namespace that is no dict ends the call alike), no         *)
(* namespace at all; the dates are looked at first.                        *)
BadValidity(r) == \E f \in {"signed", "validFrom", "validUntil"} : r.validity[f] = BadDate

Unconvertible(r) ==
  \E ns \in DOMAIN r.namespaces : \E e \in DOMAIN r.namespaces[ns] :
    ~Convertible(r.namespaces[ns][e])

InputError(r) == BadValidity(r) \/ Unconvertible(r) \/ DOMAIN r.namespaces = {}

(* The namespaces the builder holds once every claim is converted.         *)
BuilderNamespaces(r) == [ns \in DOMAIN r.namespaces |-> ConvertClaims(r.namespaces[ns])]

(* build_issuer_signed: the MSO over items drawn for it.                   *)
BuildIssuerSigned(r, draw) ==
  CreateMobileSecurityObject(r.docType, CreateIssuerSignedItems(BuilderNamespaces(r), draw),
                             r.digestAlgorithm, r.validity, r.deviceKey)

(* The items to disclose are drawn again, after the MSO was built: "draw"  *)
(* is the one the MSO used.                                                *)
DrawForItems(draw) == draw + 1

(* The object: its id, which the code does not have, names the preparation.*)
MdocPreparedForHsm(r, draw) ==
  [id      |-> draw,
   docType |-> r.docType,
   tbsData |-> BuildIssuerSigned(r, draw),
   items   |-> CreateIssuerSignedItems(BuilderNamespaces(r), DrawForItems(draw))]

(* Mutation: the error of create_mobile_security_object is dropped.        *)
PrepareIgnoringMsoError(h, r) ==
  /\ drawn < MaxDraws
  /\ ~InputError(r)
  /\ prepared' = [k \in DOMAIN prepared \cup {h} |->
                    IF k = h THEN MdocPreparedForHsm(r, drawn + 1) ELSE prepared[k]]
  /\ drawn' = drawn + 2
  /\ outcome' = "ok"
  /\ UNCHANGED <<asked, answers, documents>>

PrepareMdocForHsm(h, r) ==
  /\ drawn < MaxDraws
  /\ ~InputError(r) /\ ~MsoError(r.digestAlgorithm, r.validity, r.deviceKey)
  /\ prepared' = [k \in DOMAIN prepared \cup {h} |->
                    IF k = h THEN MdocPreparedForHsm(r, drawn + 1) ELSE prepared[k]]
  /\ drawn' = drawn + 2
  /\ outcome' = "ok"
  /\ UNCHANGED <<asked, answers, documents>>

(* An error raises: the handle keeps what it held.                         *)
PrepareRejected(r) ==
  /\ drawn < MaxDraws
  /\ \/ /\ InputError(r)
        /\ outcome' \in IF BadValidity(r) THEN {"TypeError", "ValueError"}
                       ELSE IF Unconvertible(r) THEN {"TypeError"} ELSE {"ValueError"}
        /\ UNCHANGED drawn
     \/ /\ ~InputError(r) /\ MsoError(r.digestAlgorithm, r.validity, r.deviceKey)
        /\ outcome' = "ValueError"
        /\ drawn' = drawn + 1
  /\ UNCHANGED <<prepared, asked, answers, documents>>

-----------------------------------------------------------------------------
(* The signer                                                              *)

(* The caller reads get_tbs_data and sends the bytes.                      *)
RequestSignature(h) ==
  /\ h \in DOMAIN prepared
  /\ asked' = asked \cup {[by |-> prepared[h].id, tbs |-> prepared[h].tbsData]}
  /\ outcome' = "ok"
  /\ UNCHANGED <<drawn, prepared, answers, documents>>

(* External: the HSM answers a request, in some framing and form.          *)
HsmSign(q, framing, form) ==
  /\ Cardinality(answers) < MaxAnswers
  /\ answers' = answers \cup {[tbs |-> q.tbs, framing |-> framing, form |-> form]}
  /\ UNCHANGED <<drawn, prepared, asked, documents, outcome>>

-----------------------------------------------------------------------------
(* complete_with_signature                                                 *)

(* Mutation: a plain Vec instead of the NonEmptyVec.                       *)
CompleteErrorOfDer(p, a) == a.form = "malformed"

CompleteError(p, a) == a.form = "malformed" \/ ResponseError(p.items)

(* Mutation: the payload is what the answer says was signed.               *)
IssuedDocumentAroundAnswer(p, a) ==
  [by  |-> p.id,
   doc |-> BuildDeviceResponse(p.docType, p.items, CreateIssuerAuth(a.tbs, DerToCose(a)))]

IssuedDocument(p, a) ==
  [by  |-> p.id,
   doc |-> BuildDeviceResponse(p.docType, p.items, CreateIssuerAuth(p.tbsData, DerToCose(a)))]

CompleteWithSignature(h, a) ==
  /\ h \in DOMAIN prepared
  /\ ~CompleteError(prepared[h], a)
  /\ documents' = documents \cup {IssuedDocument(prepared[h], a)}
  /\ outcome' = "ok"
  /\ UNCHANGED <<drawn, prepared, asked, answers>>

(* Malformed DER is an error or a panic of the parser, an empty namespace  *)
(* an error.                                                               *)
CompleteRejected(h, a) ==
  /\ h \in DOMAIN prepared
  /\ CompleteError(prepared[h], a)
  /\ outcome' \in IF a.form = "malformed" THEN {"ValueError", "PanicException"}
                                          ELSE {"ValueError"}
  /\ UNCHANGED <<drawn, prepared, asked, answers, documents>>

(* The process restarts: preparations are in memory only.                  *)
Restart ==
  /\ prepared' = [h \in {} |-> {}]
  /\ outcome' = "ok"
  /\ UNCHANGED <<drawn, asked, answers, documents>>

-----------------------------------------------------------------------------
Init ==
  /\ drawn = 0
  /\ prepared = [h \in {} |-> {}]
  /\ asked = {}
  /\ answers = {}
  /\ documents = {}
  /\ outcome = "ok"

Next ==
  \/ \E h \in Handles, r \in Requests : PrepareMdocForHsm(h, r)
  \/ \E r \in Requests : PrepareRejected(r)
  \/ \E h \in Handles : RequestSignature(h)
  \/ \E q \in asked, framing \in Framings, form \in Forms : HsmSign(q, framing, form)
  \/ \E h \in Handles, a \in answers : CompleteWithSignature(h, a)
  \/ \E h \in Handles, a \in answers : CompleteRejected(h, a)
  \/ Restart

Spec == Init /\ [][Next]_vars

-----------------------------------------------------------------------------
(* The objects a valid request can have become, by any draw so far.        *)
Preparable ==
  {r \in Requests : ~InputError(r) /\ ~MsoError(r.digestAlgorithm, r.validity, r.deviceKey)}
MadeObjects == {MdocPreparedForHsm(r, d) : r \in Preparable, d \in 1..drawn}

TypeOK ==
  /\ drawn \in Nat
  /\ DOMAIN prepared \subseteq Handles
  /\ \A h \in DOMAIN prepared : prepared[h] \in MadeObjects
  /\ asked \subseteq {[by |-> p.id, tbs |-> p.tbsData] : p \in MadeObjects}
  /\ answers \subseteq [tbs : {q.tbs : q \in asked}, framing : Framings, form : Forms]
  /\ documents \subseteq {IssuedDocument(p, a) : p \in MadeObjects, a \in answers}
  /\ outcome \in {"ok", "TypeError", "ValueError", "PanicException"}

-----------------------------------------------------------------------------
(* Safety                                                                  *)

(* A document whose issuer signature verifies was sent to the HSM by the   *)
(* very preparation whose items it discloses: a signature given for an     *)
(* earlier preparation, even of the same request, never completes another  *)
(* (complete_with_signature does not check what the signature covers; the  *)
(* fresh salts inside the MSO are what keeps answers apart, and the MSO of *)
(* a request without claims, which has none, must not become a document).  *)
SignatureIdentifiesPreparation ==
  \A d \in documents :
    IssuerAuthVerifies(d.doc) => [by |-> d.by, tbs |-> d.doc.issuerAuth.payload] \in asked

(* In a document the digest IDs of a namespace are unique, and each names, *)
(* in the MSO, a digest of an item with the same identifier and value; the *)
(* MSO has no other digests.  The two sets of items are enumerated apart   *)
(* (build_issuer_signed and prepare_mdoc_for_hsm), so both enumerations    *)
(* must number the claims alike.                                           *)
DigestIdsNameDisclosures ==
  \A d \in documents :
    LET disclosed == d.doc.nameSpaces
        digests   == d.doc.issuerAuth.payload.valueDigests
    IN  /\ DOMAIN digests = DOMAIN disclosed
        /\ \A ns \in DOMAIN disclosed :
             /\ DOMAIN digests[ns] = {i.digestID : i \in disclosed[ns]}
             /\ \A i, j \in disclosed[ns] : i.digestID = j.digestID => i = j
             /\ \A i \in disclosed[ns] :
                  LET c == digests[ns][i.digestID].item
                  IN  /\ c.elementIdentifier = i.elementIdentifier
                      /\ c.elementValue = i.elementValue

(* Two preparations that are held, or that a document came from, are the   *)
(* same one when they have the same id.                                    *)
Origin(d) ==
  [id      |-> d.by,
   docType |-> d.doc.docType,
   tbsData |-> d.doc.issuerAuth.payload,
   items   |-> d.doc.nameSpaces]
KnownObjects == {prepared[h] : h \in DOMAIN prepared} \cup {Origin(d) : d \in documents}
OneObjectPerId == \A o1, o2 \in KnownObjects : o1.id = o2.id => o1 = o2

(* However often and with whatever answers one preparation is completed,   *)
(* its documents differ in the signature only: retrying a completion never *)
(* makes a wallet hold two versions of a credential.                       *)
CompletionRepeatable ==
  \A d1, d2 \in documents :
    d1.by = d2.by => /\ d1.doc.docType = d2.doc.docType
                     /\ d1.doc.nameSpaces = d2.doc.nameSpaces
                     /\ d1.doc.issuerAuth.payload = d2.doc.issuerAuth.payload

(* The CBOR variant a scalar's own type has.                               *)
OwnVariant ==
  [str  |-> "Text", int  |-> "Integer", float |-> "Float",
   bool |-> "Bool", none |-> "Null",    bytes |-> "Bytes"]

(* A scalar is disclosed as what it is, but a boolean as an integer.       *)
KeepsType(v, variant) ==
  v.type \in DOMAIN OwnVariant =>
    variant = IF v.type = "bool" THEN "Integer" ELSE OwnVariant[v.type]

PreparedTypes ==
  \A h \in Handles, r \in Requests : PrepareMdocForHsm(h, r) =>
    \A ns \in DOMAIN r.namespaces : \A i \in prepared'[h].items[ns] :
      LET v == r.namespaces[ns][i.elementIdentifier]
      IN  /\ KeepsType(v, i.elementValue.variant)
          /\ v.type = "dict" => \A k \in DOMAIN v.data :
                                 KeepsType(v.data[k], i.elementValue.data[k].variant)

(* What is prepared for disclosure has the CBOR type of the Python value   *)
(* that was asked for, also inside a dict; booleans, and nothing else, are *)
(* the exception: a bool is an int for the extraction that is tried first, *)
(* while no int becomes a float and no bytes a text.                       *)
OnlyBooleansChangeType == [][PreparedTypes]_vars

-----------------------------------------------------------------------------
(* Refinement of SplitSigning                                              *)

(* The content of a request, the one an MSO commits to and the one a       *)
(* document discloses: document type and value of every element.           *)
RequestedContent(r) ==
  [docType |-> r.docType,
   claims  |-> [ns \in DOMAIN r.namespaces |->
                  [e \in DOMAIN r.namespaces[ns] |-> PythonToCbor(r.namespaces[ns][e])]]]
CommittedContent(mso) ==
  [docType |-> mso.docType, claims |-> ClaimsOf(DigestedItems(mso))]
DisclosedContent(doc) == [docType |-> doc.docType, claims |-> ClaimsOf(doc.nameSpaces)]

Promise == INSTANCE SplitSigning WITH
  Contents <- {RequestedContent(r) : r \in Preparable},
  approved <- [h \in DOMAIN prepared |-> CommittedContent(prepared[h].tbsData)],
  issued   <- {DisclosedContent(d.doc) : d \in documents}

(* What a preparation asks the HSM to sign is the whole content of one     *)
(* request, and what is issued from it is that content: nothing the caller *)
(* asked for is lost or exchanged between the two draws of items.          *)
RefinesSplitSigning == Promise!Spec

-----------------------------------------------------------------------------
(* What the documentation says and the code does not do                    *)

(* CHANGELOG: "bind each digest to the exact encoded disclosure", and "MSO *)
(* value digests authenticate the complete tagged IssuerSignedItemBytes":  *)
(* the digest under an item's ID is the digest of the tag-24 form of that  *)
(* item, salt included.                                                    *)
DigestsBindDisclosures ==
  \A d \in documents : \A ns \in DOMAIN d.doc.nameSpaces : \A i \in d.doc.nameSpaces[ns] :
    LET mso == d.doc.issuerAuth.payload
    IN  mso.valueDigests[ns][i.digestID] =
          [alg |-> mso.digestAlgorithm, encoding |-> "tag24", item |-> i]
=============================================================================
