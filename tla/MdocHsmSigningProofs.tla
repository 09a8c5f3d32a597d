------------------------ MODULE MdocHsmSigningProofs ------------------------
(***************************************************************************)
(* Theorems about MdocHsmSigning for every set of handles and requests.    *)
(* The argument: everything in the state was made by MdocPreparedForHsm    *)
(* from a valid request and an earlier draw (TypeOK); what such an object  *)
(* looks like is a matter of the operators of MdocData alone.              *)
(***************************************************************************)
EXTENDS MdocHsmSigning, FiniteSetTheorems, TLAPS

-----------------------------------------------------------------------------
(* Numbering                                                               *)

(* The digest IDs of one namespace are distinct: enumerate() over a        *)
(* BTreeMap numbers two names apart.                                       *)
LEMMA RankInjective ==
  ASSUME NEW S, IsFiniteSet(S), S \subseteq Int,
         NEW a \in S, NEW b \in S, Rank(a, S) = Rank(b, S)
  PROVE  a = b
<1> DEFINE Below(e) == {z \in S : z < e}
<1>1. ASSUME NEW x \in S, NEW y \in S, x < y
      PROVE  Rank(x, S) # Rank(y, S)
  <2>1. x \in Below(y) /\ x \notin Below(x)
    BY <1>1
  <2>2. Below(x) \in SUBSET Below(y)
    <3>1. ASSUME NEW z \in Below(x)
          PROVE  z \in Below(y)
      BY <1>1
    <3> QED BY <3>1
  <2>3. IsFiniteSet(Below(y))
    BY FS_Subset
  <2>4. Cardinality(Below(y)) # Cardinality(Below(x))
    <3> HIDE DEF Below
    <3> QED BY <2>1, <2>2, <2>3, FS_Subset
  <2> QED BY <2>4 DEF Rank
<1>2. a < b \/ b < a \/ a = b
  OBVIOUS
<1> QED BY <1>1, <1>2

-----------------------------------------------------------------------------
(* The objects prepare_mdoc_for_hsm makes                                  *)

(* The items of a namespace, by element.                                   *)
LEMMA ItemsOfRequest ==
  ASSUME NEW r \in Requests, NEW d, NEW ns \in DOMAIN r.namespaces
  PROVE  LET N     == BuilderNamespaces(r)
             items == CreateIssuerSignedItems(N, d)
         IN  /\ DOMAIN N = DOMAIN r.namespaces
             /\ DOMAIN N[ns] = DOMAIN r.namespaces[ns]
             /\ DOMAIN items = DOMAIN r.namespaces
             /\ items[ns] = {Item(N, d, ns, e) : e \in DOMAIN r.namespaces[ns]}
BY DEF BuilderNamespaces, ConvertClaims, CreateIssuerSignedItems

(* In one namespace an item is known by its digest ID and by its element.  *)
LEMMA ItemKeys ==
  ASSUME NEW r \in Requests, NEW d, NEW ns \in DOMAIN r.namespaces,
         NEW e \in DOMAIN r.namespaces[ns], NEW f \in DOMAIN r.namespaces[ns]
  PROVE  LET I(x) == Item(BuilderNamespaces(r), d, ns, x)
         IN  /\ I(e).digestID = I(f).digestID => e = f
             /\ I(e).elementIdentifier = I(f).elementIdentifier => e = f
<1> DEFINE N == BuilderNamespaces(r)
<1>1. /\ IsFiniteSet(DOMAIN r.namespaces[ns])
      /\ DOMAIN r.namespaces[ns] \subseteq Int
  BY RequestsAssumption
<1>2. DOMAIN N[ns] = DOMAIN r.namespaces[ns]
  BY ItemsOfRequest
<1>3. /\ Item(N, d, ns, e).digestID = Rank(e, DOMAIN r.namespaces[ns])
      /\ Item(N, d, ns, f).digestID = Rank(f, DOMAIN r.namespaces[ns])
      /\ Item(N, d, ns, e).elementIdentifier = e
      /\ Item(N, d, ns, f).elementIdentifier = f
  BY <1>2 DEF Item
<1> HIDE DEF N
<1>4. Item(N, d, ns, e).digestID = Item(N, d, ns, f).digestID => e = f
  BY <1>1, <1>3, RankInjective
<1> QED BY <1>3, <1>4 DEF N

(* The MSO has digests for exactly the namespaces of the request.          *)
LEMMA DigestedNamespaces ==
  ASSUME NEW r \in Requests, NEW d
  PROVE  DOMAIN BuildIssuerSigned(r, d).valueDigests = DOMAIN r.namespaces
<1> DEFINE items == CreateIssuerSignedItems(BuilderNamespaces(r), d)
<1>1. DOMAIN items = DOMAIN r.namespaces
  BY DEF CreateIssuerSignedItems, BuilderNamespaces
<1> HIDE DEF items
<1>2. BuildIssuerSigned(r, d).valueDigests
        = [n \in DOMAIN items |-> ValueDigests(items[n], r.digestAlgorithm)]
  BY DEF BuildIssuerSigned, CreateMobileSecurityObject, items
<1> QED BY <1>1, <1>2

(* The digest under an element's ID is the digest of its item.             *)
LEMMA DigestOfItem ==
  ASSUME NEW r \in Requests, NEW d, NEW ns \in DOMAIN r.namespaces
  PROVE  LET N       == BuilderNamespaces(r)
             digests == BuildIssuerSigned(r, d).valueDigests
         IN  /\ DOMAIN digests = DOMAIN r.namespaces
             /\ DOMAIN digests[ns] =
                  {Item(N, d, ns, e).digestID : e \in DOMAIN r.namespaces[ns]}
             /\ \A e \in DOMAIN r.namespaces[ns] :
                  digests[ns][Item(N, d, ns, e).digestID].item = Item(N, d, ns, e)
<1> DEFINE N       == BuilderNamespaces(r)
           items   == CreateIssuerSignedItems(N, d)
           digests == BuildIssuerSigned(r, d).valueDigests
           E       == DOMAIN r.namespaces[ns]
<1>1. /\ DOMAIN items = DOMAIN r.namespaces
      /\ items[ns] = {Item(N, d, ns, e) : e \in E}
  BY ItemsOfRequest
<1>2. digests = [n \in DOMAIN items |-> ValueDigests(items[n], r.digestAlgorithm)]
  BY DEF BuildIssuerSigned, CreateMobileSecurityObject
<1>3. /\ DOMAIN digests = DOMAIN r.namespaces
      /\ digests[ns] = ValueDigests(items[ns], r.digestAlgorithm)
  BY <1>1, <1>2
<1>4. ASSUME NEW e \in E
      PROVE  digests[ns][Item(N, d, ns, e).digestID].item = Item(N, d, ns, e)
  <2> DEFINE id     == Item(N, d, ns, e).digestID
             chosen == CHOOSE i \in items[ns] : i.digestID = id
  <2>1. Item(N, d, ns, e) \in items[ns]
    BY <1>1
  <2>2. chosen \in items[ns] /\ chosen.digestID = id
    <3> HIDE DEF items, N
    <3> QED BY <2>1
  <2>3. PICK f \in E : chosen = Item(N, d, ns, f)
    <3> HIDE DEF chosen
    <3> QED BY <1>1, <2>2
  <2>4. chosen = Item(N, d, ns, e)
    <3>1. Item(N, d, ns, f).digestID = Item(N, d, ns, e).digestID
      BY <2>2, <2>3
    <3>2. f = e
      BY <3>1, ItemKeys
    <3> QED BY <2>3, <3>2
  <2>5. digests[ns][id] = Digest(r.digestAlgorithm, chosen)
    <3> HIDE DEF items, N, digests
    <3> QED BY <1>3, <2>1 DEF ValueDigests
  <2> QED BY <2>4, <2>5 DEF Digest
<1>5. DOMAIN digests[ns] = {Item(N, d, ns, e).digestID : e \in E}
  <2>1. DOMAIN digests[ns] = {i.digestID : i \in items[ns]}
    BY <1>3 DEF ValueDigests
  <2> HIDE DEF items, N, digests
  <2> QED BY <1>1, <2>1
<1> QED BY <1>3, <1>4, <1>5

(* Every digest of an MSO carries a salt of the draw the MSO was made with.*)
LEMMA DigestsCarryDraw ==
  ASSUME NEW r \in Requests, NEW d, NEW ns \in DOMAIN r.namespaces,
         NEW id \in DOMAIN BuildIssuerSigned(r, d).valueDigests[ns]
  PROVE  BuildIssuerSigned(r, d).valueDigests[ns][id].item.random[1] = d
<1>1. PICK e \in DOMAIN r.namespaces[ns] :
        id = Item(BuilderNamespaces(r), d, ns, e).digestID
  BY DigestOfItem
<1>2. BuildIssuerSigned(r, d).valueDigests[ns][id].item = Item(BuilderNamespaces(r), d, ns, e)
  BY <1>1, DigestOfItem
<1> QED BY <1>2 DEF Item, SaltAt

-----------------------------------------------------------------------------
(* Type correctness                                                        *)

(* Drawing salts only adds to the objects that can have been made.         *)
LEMMA MadeObjectsGrow ==
  ASSUME drawn \in Nat, drawn' \in Nat, drawn <= drawn'
  PROVE  MadeObjects \subseteq MadeObjects'
<1>1. 1..drawn \subseteq 1..drawn'
  OBVIOUS
<1> QED BY <1>1 DEF MadeObjects

(* Every step keeps the types.                                             *)
LEMMA TypeInductive == TypeOK /\ [Next]_vars => TypeOK'
<1> SUFFICES ASSUME TypeOK, [Next]_vars PROVE TypeOK'
  OBVIOUS
<1> USE DEF TypeOK
<1>1. ASSUME NEW h \in Handles, NEW r \in Requests, PrepareMdocForHsm(h, r)
      PROVE  TypeOK'
  <2>1. drawn' = drawn + 2 /\ UNCHANGED <<asked, answers, documents>> /\ outcome' = "ok"
    BY <1>1 DEF PrepareMdocForHsm
  <2>2. MadeObjects \subseteq MadeObjects'
    BY <2>1, MadeObjectsGrow
  <2>3. MdocPreparedForHsm(r, drawn + 1) \in MadeObjects'
    <3>1. r \in Preparable
      BY <1>1 DEF PrepareMdocForHsm, Preparable
    <3>2. drawn + 1 \in 1..drawn'
      BY <2>1
    <3> QED BY <3>1, <3>2 DEF MadeObjects
  <2>4. prepared' = [k \in DOMAIN prepared \cup {h} |->
                       IF k = h THEN MdocPreparedForHsm(r, drawn + 1) ELSE prepared[k]]
    BY <1>1 DEF PrepareMdocForHsm
  <2>5. /\ DOMAIN prepared' \subseteq Handles
        /\ \A k \in DOMAIN prepared' : prepared'[k] \in MadeObjects'
    <3> HIDE DEF MadeObjects
    <3> QED BY <2>2, <2>3, <2>4
  <2> QED BY <2>1, <2>2, <2>5
<1>2. ASSUME NEW r \in Requests, PrepareRejected(r)
      PROVE  TypeOK'
  <2>1. /\ drawn' = drawn \/ drawn' = drawn + 1
        /\ outcome' \in {"TypeError", "ValueError"}
        /\ UNCHANGED <<prepared, asked, answers, documents>>
    BY <1>2 DEF PrepareRejected
  <2>2. MadeObjects \subseteq MadeObjects'
    BY <2>1, MadeObjectsGrow
  <2> QED BY <2>1, <2>2
<1>3. ASSUME NEW h \in Handles, RequestSignature(h)
      PROVE  TypeOK'
  <2>1. prepared[h] \in MadeObjects
    BY <1>3 DEF RequestSignature
  <2>2. /\ asked' = asked \cup {[by |-> prepared[h].id, tbs |-> prepared[h].tbsData]}
        /\ outcome' = "ok"
        /\ UNCHANGED <<drawn, prepared, answers, documents>>
    BY <1>3 DEF RequestSignature
  <2>3. MadeObjects' = MadeObjects
    BY <2>2 DEF MadeObjects
  <2> HIDE DEF MadeObjects
  <2> QED BY <2>1, <2>2, <2>3
<1>4. ASSUME NEW q \in asked, NEW framing \in Framings, NEW form \in Forms,
             HsmSign(q, framing, form)
      PROVE  TypeOK'
  <2>1. /\ answers' = answers \cup {[tbs |-> q.tbs, framing |-> framing, form |-> form]}
        /\ UNCHANGED <<drawn, prepared, asked, documents, outcome>>
    BY <1>4 DEF HsmSign
  <2>2. MadeObjects' = MadeObjects
    BY <2>1 DEF MadeObjects
  <2> QED BY <2>1, <2>2
<1>5. ASSUME NEW h \in Handles, NEW a \in answers, CompleteWithSignature(h, a)
      PROVE  TypeOK'
  <2>1. /\ prepared[h] \in MadeObjects
        /\ documents' = documents \cup {IssuedDocument(prepared[h], a)}
        /\ outcome' = "ok"
        /\ UNCHANGED <<drawn, prepared, asked, answers>>
    BY <1>5 DEF CompleteWithSignature
  <2>2. MadeObjects' = MadeObjects
    BY <2>1 DEF MadeObjects
  <2> QED BY <2>1, <2>2
<1>6. ASSUME NEW h \in Handles, NEW a \in answers, CompleteRejected(h, a)
      PROVE  TypeOK'
  <2>1. /\ outcome' \in {"ValueError", "PanicException"}
        /\ UNCHANGED <<drawn, prepared, asked, answers, documents>>
    BY <1>6 DEF CompleteRejected
  <2>2. MadeObjects' = MadeObjects
    BY <2>1 DEF MadeObjects
  <2> QED BY <2>1, <2>2
<1>7. CASE Restart
  <2>1. /\ prepared' = [h \in {} |-> {}]
        /\ outcome' = "ok"
        /\ UNCHANGED <<drawn, asked, answers, documents>>
    BY <1>7 DEF Restart
  <2>2. MadeObjects' = MadeObjects
    BY <2>1 DEF MadeObjects
  <2> QED BY <2>1, <2>2
<1>8. CASE UNCHANGED vars
  <2>1. MadeObjects' = MadeObjects
    BY <1>8 DEF MadeObjects, vars
  <2> QED BY <1>8, <2>1 DEF vars
<1> QED BY <1>1, <1>2, <1>3, <1>4, <1>5, <1>6, <1>7, <1>8 DEF Next

(* Everything in the state was made from a valid request: objects,         *)
(* signing requests, answers, documents.                                   *)
THEOREM TypeCorrect == Spec => []TypeOK
<1>1. Init => TypeOK
  BY DEF Init, TypeOK
<1> QED BY <1>1, TypeInductive, PTL DEF Spec

-----------------------------------------------------------------------------
(* Documents                                                               *)

(* What an object is: made from a valid request, by the draw it is named by.*)
LEMMA MadeObject ==
  ASSUME NEW p \in MadeObjects
  PROVE  /\ p = [id |-> p.id, docType |-> p.docType, tbsData |-> p.tbsData, items |-> p.items]
         /\ p.id \in 1..drawn
         /\ \E r \in Preparable : p = MdocPreparedForHsm(r, p.id)
BY DEF MadeObjects, MdocPreparedForHsm

(* The object a document came from can be read off the document.           *)
LEMMA OriginOfDocument ==
  ASSUME NEW p \in MadeObjects, NEW a
  PROVE  /\ Origin(IssuedDocument(p, a)) = p
         /\ IssuedDocument(p, a).by = p.id
         /\ IssuedDocument(p, a).doc.nameSpaces = p.items
         /\ IssuedDocument(p, a).doc.docType = p.docType
         /\ IssuedDocument(p, a).doc.issuerAuth.payload = p.tbsData
         /\ IssuedDocument(p, a).doc.issuerAuth.signature.tbs = a.tbs
BY MadeObject DEF Origin, IssuedDocument, BuildDeviceResponse, CreateIssuerAuth, DerToCose

(* No document with an empty namespace leaves the library, whatever was    *)
(* prepared: completion checks what preparation does not.                  *)
DocumentsNonEmpty == \A d \in documents : ~ResponseError(d.doc.nameSpaces)

LEMMA DocumentsAreNonEmpty == Spec => []DocumentsNonEmpty
<1>1. Init => DocumentsNonEmpty
  BY DEF Init, DocumentsNonEmpty
<1>2. TypeOK /\ DocumentsNonEmpty /\ [Next]_vars => DocumentsNonEmpty'
  <2> SUFFICES ASSUME TypeOK, DocumentsNonEmpty, [Next]_vars
               PROVE  DocumentsNonEmpty'
    OBVIOUS
  <2>1. ASSUME NEW h \in Handles, NEW a \in answers, CompleteWithSignature(h, a)
        PROVE  DocumentsNonEmpty'
    <3>1. /\ prepared[h] \in MadeObjects
          /\ ~ResponseError(prepared[h].items)
          /\ documents' = documents \cup {IssuedDocument(prepared[h], a)}
      BY <2>1 DEF TypeOK, CompleteWithSignature, CompleteError
    <3>2. ~ResponseError(IssuedDocument(prepared[h], a).doc.nameSpaces)
      BY <3>1, OriginOfDocument
    <3> QED BY <3>1, <3>2 DEF DocumentsNonEmpty
  <2>2. ASSUME UNCHANGED documents
        PROVE  DocumentsNonEmpty'
    BY <2>2 DEF DocumentsNonEmpty
  <2> QED BY <2>1, <2>2 DEF Next, vars, PrepareMdocForHsm, PrepareRejected,
             RequestSignature, HsmSign, CompleteRejected, Restart
<1> QED BY <1>1, <1>2, TypeCorrect, PTL DEF Spec

(* Two preparations whose items are not all empty have different bytes to  *)
(* sign, because each MSO carries salts of its own draw.                   *)
LEMMA TbsDataIdentifiesPreparation ==
  ASSUME NEW p \in MadeObjects, NEW q \in MadeObjects,
         ~ResponseError(p.items), p.tbsData = q.tbsData
  PROVE  p.id = q.id
<1>1. PICK r \in Preparable : p = MdocPreparedForHsm(r, p.id)
  BY MadeObject
<1>2. PICK s \in Preparable : q = MdocPreparedForHsm(s, q.id)
  BY MadeObject
<1> DEFINE dp == p.id
           dq == q.id
<1>3. /\ p.tbsData = BuildIssuerSigned(r, dp)
      /\ p.items = CreateIssuerSignedItems(BuilderNamespaces(r), DrawForItems(dp))
      /\ q.tbsData = BuildIssuerSigned(s, dq)
  BY <1>1, <1>2 DEF MdocPreparedForHsm
<1>4. r \in Requests /\ s \in Requests
  BY DEF Preparable
<1> HIDE DEF dp, dq
<1>5. PICK ns \in DOMAIN r.namespaces : DOMAIN r.namespaces[ns] # {}
  <2>1. DOMAIN p.items = DOMAIN r.namespaces
    BY <1>3, <1>4 DEF CreateIssuerSignedItems, BuilderNamespaces
  <2>2. PICK ns \in DOMAIN r.namespaces : p.items[ns] # {}
    BY <2>1 DEF ResponseError
  <2>3. p.items[ns] = {Item(BuilderNamespaces(r), DrawForItems(dp), ns, e) :
                         e \in DOMAIN r.namespaces[ns]}
    BY <1>3, <1>4, ItemsOfRequest
  <2> QED BY <2>2, <2>3
<1>6. PICK e \in DOMAIN r.namespaces[ns] : TRUE
  BY <1>5
<1> DEFINE id == Item(BuilderNamespaces(r), dp, ns, e).digestID
<1>7. id \in DOMAIN p.tbsData.valueDigests[ns]
  BY <1>3, <1>4, DigestOfItem
<1>8. p.tbsData.valueDigests[ns][id].item.random[1] = dp
  BY <1>3, <1>4, <1>7, DigestsCarryDraw
<1>9. ns \in DOMAIN s.namespaces
  <2>1. DOMAIN p.tbsData.valueDigests = DOMAIN r.namespaces
    BY <1>3, <1>4, DigestedNamespaces
  <2>2. DOMAIN q.tbsData.valueDigests = DOMAIN s.namespaces
    BY <1>3, <1>4, DigestedNamespaces
  <2> QED BY <2>1, <2>2
<1>10. q.tbsData.valueDigests[ns][id].item.random[1] = dq
  <2>1. id \in DOMAIN BuildIssuerSigned(s, dq).valueDigests[ns]
    BY <1>3, <1>7
  <2> HIDE DEF id
  <2>2. BuildIssuerSigned(s, dq).valueDigests[ns][id].item.random[1] = dq
    BY <1>4, <1>9, <2>1, DigestsCarryDraw
  <2> QED BY <1>3, <2>2
<1> QED BY <1>8, <1>10 DEF dp, dq

(* A verifying document was sent to the signer by the preparation whose    *)
(* items it discloses, for every set of handles and requests: an answer    *)
(* that is late, repeated or given to another object never verifies there. *)
THEOREM SignatureBindsPreparation == Spec => []SignatureIdentifiesPreparation
<1>1. TypeOK /\ DocumentsNonEmpty => SignatureIdentifiesPreparation
  <2> SUFFICES ASSUME TypeOK, DocumentsNonEmpty, NEW d \in documents, IssuerAuthVerifies(d.doc)
               PROVE  [by |-> d.by, tbs |-> d.doc.issuerAuth.payload] \in asked
    BY DEF SignatureIdentifiesPreparation
  <2>1. PICK p \in MadeObjects, a \in answers : d = IssuedDocument(p, a)
    BY DEF TypeOK
  <2>2. PICK q \in asked : a.tbs = q.tbs
    BY DEF TypeOK
  <2>3. PICK o \in MadeObjects : q = [by |-> o.id, tbs |-> o.tbsData]
    BY DEF TypeOK
  <2>4. /\ d.by = p.id
        /\ d.doc.issuerAuth.payload = p.tbsData
        /\ d.doc.issuerAuth.signature.tbs = a.tbs
        /\ d.doc.nameSpaces = p.items
    BY <2>1, OriginOfDocument
  <2>5. p.tbsData = o.tbsData
    BY <2>2, <2>3, <2>4 DEF IssuerAuthVerifies
  <2>6. ~ResponseError(p.items)
    BY <2>4 DEF DocumentsNonEmpty
  <2>7. p.id = o.id
    BY <2>5, <2>6, TbsDataIdentifiesPreparation
  <2> QED BY <2>3, <2>4, <2>5, <2>7
<1> QED BY <1>1, TypeCorrect, DocumentsAreNonEmpty, PTL

(* Digest IDs are unique in a namespace and name, in the MSO, the digest   *)
(* of an item with the identifier and value that is disclosed under them.  *)
THEOREM DigestIdsAgree == Spec => []DigestIdsNameDisclosures
<1>1. TypeOK => DigestIdsNameDisclosures
  <2> SUFFICES ASSUME TypeOK, NEW d \in documents
               PROVE  LET disclosed == d.doc.nameSpaces
                          digests   == d.doc.issuerAuth.payload.valueDigests
                      IN  /\ DOMAIN digests = DOMAIN disclosed
                          /\ \A ns \in DOMAIN disclosed :
                               /\ DOMAIN digests[ns] = {i.digestID : i \in disclosed[ns]}
                               /\ \A i, j \in disclosed[ns] : i.digestID = j.digestID => i = j
                               /\ \A i \in disclosed[ns] :
                                    LET c == digests[ns][i.digestID].item
                                    IN  /\ c.elementIdentifier = i.elementIdentifier
                                        /\ c.elementValue = i.elementValue
    BY DEF DigestIdsNameDisclosures
  <2>1. PICK p \in MadeObjects, a \in answers : d = IssuedDocument(p, a)
    BY DEF TypeOK
  <2>2. PICK r \in Preparable : p = MdocPreparedForHsm(r, p.id)
    BY MadeObject
  <2>3. r \in Requests
    BY DEF Preparable
  <2> DEFINE N         == BuilderNamespaces(r)
             m         == p.id
             k         == DrawForItems(p.id)
             digests   == BuildIssuerSigned(r, m).valueDigests
             disclosed == CreateIssuerSignedItems(N, k)
  <2>4. /\ d.doc.nameSpaces = disclosed
        /\ d.doc.issuerAuth.payload.valueDigests = digests
    <3>1. p.items = disclosed /\ p.tbsData = BuildIssuerSigned(r, m)
      BY <2>2 DEF MdocPreparedForHsm
    <3> QED BY <2>1, <3>1, OriginOfDocument
  <2> HIDE DEF m, k
  <2>5. DOMAIN disclosed = DOMAIN r.namespaces
    BY <2>3 DEF CreateIssuerSignedItems, BuilderNamespaces
  <2>6. DOMAIN digests = DOMAIN r.namespaces
    BY <2>3, DigestedNamespaces
  <2>7. ASSUME NEW ns \in DOMAIN r.namespaces
        PROVE  /\ DOMAIN digests[ns] = {i.digestID : i \in disclosed[ns]}
               /\ \A i, j \in disclosed[ns] : i.digestID = j.digestID => i = j
               /\ \A i \in disclosed[ns] :
                     /\ digests[ns][i.digestID].item.elementIdentifier = i.elementIdentifier
                     /\ digests[ns][i.digestID].item.elementValue = i.elementValue
    <3> DEFINE E == DOMAIN r.namespaces[ns]
    <3>1. disclosed[ns] = {Item(N, k, ns, e) : e \in E}
      BY <2>3, ItemsOfRequest
    <3>2. \A e \in E : /\ Item(N, k, ns, e).digestID = Item(N, m, ns, e).digestID
                       /\ Item(N, k, ns, e).elementIdentifier = Item(N, m, ns, e).elementIdentifier
                       /\ Item(N, k, ns, e).elementValue = Item(N, m, ns, e).elementValue
      BY DEF Item
    <3>3. DOMAIN digests[ns] = {Item(N, m, ns, e).digestID : e \in E}
      BY <2>3, DigestOfItem
    <3>4. \A e \in E : digests[ns][Item(N, m, ns, e).digestID].item = Item(N, m, ns, e)
      BY <2>3, DigestOfItem
    <3>5. \A e, f \in E : Item(N, k, ns, e).digestID = Item(N, k, ns, f).digestID => e = f
      BY <2>3, ItemKeys
    <3> HIDE DEF N, digests, disclosed
    <3>6. DOMAIN digests[ns] = {i.digestID : i \in disclosed[ns]}
      BY <3>1, <3>2, <3>3
    <3>7. \A i, j \in disclosed[ns] : i.digestID = j.digestID => i = j
      BY <3>1, <3>5
    <3>8. ASSUME NEW i \in disclosed[ns]
          PROVE  /\ digests[ns][i.digestID].item.elementIdentifier = i.elementIdentifier
                 /\ digests[ns][i.digestID].item.elementValue = i.elementValue
      <4>1. PICK e \in E : i = Item(N, k, ns, e)
        BY <3>1
      <4> QED BY <3>2, <3>4, <4>1
    <3> QED BY <3>6, <3>7, <3>8
  <2> HIDE DEF N, digests, disclosed
  <2> QED BY <2>4, <2>5, <2>6, <2>7
<1> QED BY <1>1, TypeCorrect, PTL

-----------------------------------------------------------------------------
(* One preparation, one document                                           *)

(* A preparation in the state, held or behind a document, was made before: *)
(* its id is at most drawn, so a new one gets an id of its own.            *)
LEMMA KnownObjectsAreMade == TypeOK => KnownObjects \subseteq MadeObjects
<1> SUFFICES ASSUME TypeOK, NEW o \in KnownObjects PROVE o \in MadeObjects
  OBVIOUS
<1>1. ASSUME NEW d \in documents, o = Origin(d)
      PROVE  o \in MadeObjects
  <2>1. PICK p \in MadeObjects, a \in answers : d = IssuedDocument(p, a)
    BY DEF TypeOK
  <2> QED BY <1>1, <2>1, OriginOfDocument
<1> QED BY <1>1 DEF KnownObjects, TypeOK

(* Every step keeps objects with the same id the same.                     *)
LEMMA OneObjectInductive ==
  TypeOK /\ OneObjectPerId /\ [Next]_vars => OneObjectPerId'
<1> SUFFICES ASSUME TypeOK, OneObjectPerId, [Next]_vars
             PROVE  OneObjectPerId'
  OBVIOUS
<1>1. ASSUME KnownObjects' \subseteq KnownObjects
      PROVE  OneObjectPerId'
  BY <1>1 DEF OneObjectPerId
<1>2. ASSUME NEW h \in Handles, NEW r \in Requests, PrepareMdocForHsm(h, r)
      PROVE  OneObjectPerId'
  <2> DEFINE new == MdocPreparedForHsm(r, drawn + 1)
  <2>1. /\ prepared' = [k \in DOMAIN prepared \cup {h} |-> IF k = h THEN new ELSE prepared[k]]
        /\ documents' = documents
    BY <1>2 DEF PrepareMdocForHsm
  <2>2. new.id = drawn + 1
    BY DEF MdocPreparedForHsm
  <2> HIDE DEF new
  <2>3. KnownObjects' \subseteq KnownObjects \cup {new}
    BY <2>1 DEF KnownObjects, Origin
  <2>4. \A o \in KnownObjects : o.id # new.id
    <3> SUFFICES ASSUME NEW o \in KnownObjects PROVE o.id # new.id
      OBVIOUS
    <3>1. o.id \in 1..drawn
      BY KnownObjectsAreMade, MadeObject
    <3> QED BY <2>2, <3>1 DEF TypeOK
  <2> QED BY <2>3, <2>4 DEF OneObjectPerId
<1>3. ASSUME NEW h \in Handles, NEW a \in answers, CompleteWithSignature(h, a)
      PROVE  OneObjectPerId'
  <2>1. /\ h \in DOMAIN prepared
        /\ prepared' = prepared
        /\ documents' = documents \cup {IssuedDocument(prepared[h], a)}
    BY <1>3 DEF CompleteWithSignature
  <2>2. Origin(IssuedDocument(prepared[h], a)) = prepared[h]
    BY <2>1, OriginOfDocument DEF TypeOK
  <2>3. KnownObjects' \subseteq KnownObjects
    <3> SUFFICES ASSUME NEW o \in KnownObjects' PROVE o \in KnownObjects
      OBVIOUS
    <3>1. CASE o \in {prepared'[k] : k \in DOMAIN prepared'}
      BY <2>1, <3>1 DEF KnownObjects
    <3>2. ASSUME NEW d \in documents', o = Origin(d)
          PROVE  o \in KnownObjects
      BY <2>1, <2>2, <3>2 DEF KnownObjects
    <3> QED BY <3>1, <3>2 DEF KnownObjects
  <2> QED BY <1>1, <2>3
<1>4. CASE Restart
  <2>1. prepared' = [h \in {} |-> {}] /\ documents' = documents
    BY <1>4 DEF Restart
  <2>2. KnownObjects' \subseteq KnownObjects
    BY <2>1 DEF KnownObjects
  <2> QED BY <1>1, <2>2
<1>5. ASSUME UNCHANGED <<prepared, documents>>
      PROVE  OneObjectPerId'
  <2>1. KnownObjects' = KnownObjects
    BY <1>5 DEF KnownObjects
  <2> QED BY <1>1, <2>1
<1> QED BY <1>2, <1>3, <1>4, <1>5 DEF Next, vars, PrepareRejected, RequestSignature,
           HsmSign, CompleteRejected

(* However often one preparation is completed, and with whatever answers,  *)
(* its documents differ in nothing but the signature.                      *)
THEOREM CompletionIsRepeatable == Spec => []CompletionRepeatable
<1>1. Init => OneObjectPerId
  BY DEF Init, OneObjectPerId, KnownObjects
<1>2. OneObjectPerId => CompletionRepeatable
  <2> SUFFICES ASSUME OneObjectPerId, NEW d1 \in documents, NEW d2 \in documents,
                      d1.by = d2.by
               PROVE  /\ d1.doc.docType = d2.doc.docType
                      /\ d1.doc.nameSpaces = d2.doc.nameSpaces
                      /\ d1.doc.issuerAuth.payload = d2.doc.issuerAuth.payload
    BY DEF CompletionRepeatable
  <2>1. Origin(d1) \in KnownObjects /\ Origin(d2) \in KnownObjects
    BY DEF KnownObjects
  <2>2. Origin(d1) = Origin(d2)
    BY <2>1 DEF OneObjectPerId, Origin
  <2> QED BY <2>2 DEF Origin
<1> QED BY <1>1, <1>2, OneObjectInductive, TypeCorrect, PTL DEF Spec

-----------------------------------------------------------------------------
(* How far the documentation is from the code                              *)

(* No digest of a document was taken over an item with the salt of an item *)
(* the document discloses.                                                 *)
DigestsOfOtherSalts ==
  \A d \in documents : \A ns \in DOMAIN d.doc.nameSpaces : \A i \in d.doc.nameSpaces[ns] :
    LET digests == d.doc.issuerAuth.payload.valueDigests
    IN  \A id \in DOMAIN digests[ns] : digests[ns][id].item.random # i.random

(* Items and MSO are of two draws of one preparation.                      *)
LEMMA SaltsDiffer == TypeOK => DigestsOfOtherSalts
<1> SUFFICES ASSUME TypeOK, NEW d \in documents, NEW ns \in DOMAIN d.doc.nameSpaces,
                    NEW i \in d.doc.nameSpaces[ns],
                    NEW id \in DOMAIN d.doc.issuerAuth.payload.valueDigests[ns]
             PROVE  d.doc.issuerAuth.payload.valueDigests[ns][id].item.random # i.random
  BY DEF DigestsOfOtherSalts
<1>1. PICK p \in MadeObjects, a \in answers : d = IssuedDocument(p, a)
  BY DEF TypeOK
<1>2. PICK r \in Preparable : p = MdocPreparedForHsm(r, p.id)
  BY MadeObject
<1>3. r \in Requests /\ p.id \in 1..drawn /\ drawn \in Nat
  BY MadeObject DEF Preparable, TypeOK
<1> DEFINE N == BuilderNamespaces(r)
           m == p.id
           k == DrawForItems(p.id)
<1>4. /\ d.doc.nameSpaces = CreateIssuerSignedItems(N, k)
      /\ d.doc.issuerAuth.payload = BuildIssuerSigned(r, m)
  <2>1. p.items = CreateIssuerSignedItems(N, k) /\ p.tbsData = BuildIssuerSigned(r, m)
    BY <1>2 DEF MdocPreparedForHsm
  <2> QED BY <1>1, <2>1, OriginOfDocument
<1>5. m # k
  BY <1>3 DEF DrawForItems
<1> HIDE DEF m, k
<1>6. ns \in DOMAIN r.namespaces /\ i \in {Item(N, k, ns, e) : e \in DOMAIN r.namespaces[ns]}
  <2>1. DOMAIN d.doc.nameSpaces = DOMAIN r.namespaces
    BY <1>4 DEF CreateIssuerSignedItems, BuilderNamespaces
  <2>2. CreateIssuerSignedItems(N, k)[ns] = {Item(N, k, ns, e) : e \in DOMAIN r.namespaces[ns]}
    BY <1>3, <2>1, ItemsOfRequest
  <2> HIDE DEF N
  <2> QED BY <1>4, <2>1, <2>2
<1>7. i.random[1] = k
  BY <1>6 DEF Item, SaltAt
<1>8. d.doc.issuerAuth.payload.valueDigests[ns][id].item.random[1] = m
  BY <1>3, <1>4, <1>6, DigestsCarryDraw
<1> QED BY <1>5, <1>7, <1>8

(* Not one document binds its digests to what it discloses                 *)
(* (DigestsBindDisclosures), whatever the request and whoever completes it:*)
(* no digest was taken over an item that was disclosed.                    *)
THEOREM NoDocumentBinds == Spec => [](documents # {} => ~DigestsBindDisclosures)
<1>1. TypeOK /\ DocumentsNonEmpty /\ DigestIdsNameDisclosures
        => (documents # {} => ~DigestsBindDisclosures)
  <2> SUFFICES ASSUME TypeOK, DocumentsNonEmpty, DigestIdsNameDisclosures,
                      DigestsBindDisclosures, NEW d \in documents
               PROVE  FALSE
    OBVIOUS
  <2> DEFINE disclosed == d.doc.nameSpaces
             digests   == d.doc.issuerAuth.payload.valueDigests
  <2>1. PICK ns \in DOMAIN disclosed : disclosed[ns] # {}
    BY DEF DocumentsNonEmpty, ResponseError
  <2>2. PICK i \in disclosed[ns] : TRUE
    BY <2>1
  <2>3. i.digestID \in DOMAIN digests[ns]
    <3>1. DOMAIN digests[ns] = {j.digestID : j \in disclosed[ns]}
      BY DEF DigestIdsNameDisclosures
    <3> HIDE DEF digests, disclosed
    <3> QED BY <2>1, <3>1
  <2>4. digests[ns][i.digestID].item = i
    <3>1. d.doc.issuerAuth.payload.valueDigests[ns][i.digestID] =
            [alg |-> d.doc.issuerAuth.payload.digestAlgorithm, encoding |-> "tag24", item |-> i]
      BY <2>1, <2>2 DEF DigestsBindDisclosures
    <3> QED BY <3>1
  <2>5. digests[ns][i.digestID].item.random # i.random
    BY <2>3, SaltsDiffer DEF DigestsOfOtherSalts
  <2> QED BY <2>4, <2>5
<1> QED BY <1>1, TypeCorrect, DocumentsAreNonEmpty, DigestIdsAgree, PTL

(* The extraction that is taken is the first that succeeds.                *)
LEMMA FirstBranchIsTaken ==
  ASSUME NEW v, NEW k \in Branches(v), \A j \in Branches(v) : k <= j
  PROVE  ScalarToCbor(v).variant = CborVariant[ConversionOrder[k]]
<1>1. Branches(v) \subseteq 1..7
  BY DEF Branches, ConversionOrder
<1> DEFINE taken == CHOOSE i \in Branches(v) : \A j \in Branches(v) : i <= j
<1>2. taken \in Branches(v) /\ \A j \in Branches(v) : taken <= j
  OBVIOUS
<1> HIDE DEF taken
<1>3. taken = k
  BY <1>1, <1>2
<1> QED BY <1>3 DEF ScalarToCbor, taken

(* The variants scalars become: their own, but Integer of a boolean.       *)
LEMMA VariantOfScalar ==
  ASSUME NEW v
  PROVE  KeepsType(v, ScalarToCbor(v).variant)
<1> SUFFICES ASSUME v.type \in DOMAIN OwnVariant
             PROVE  ScalarToCbor(v).variant =
                      IF v.type = "bool" THEN "Integer" ELSE OwnVariant[v.type]
  BY DEF KeepsType
<1>1. /\ ConversionOrder[1] = "String" /\ ConversionOrder[2] = "i64"
      /\ ConversionOrder[3] = "f64"    /\ ConversionOrder[4] = "bool"
      /\ ConversionOrder[5] = "none"   /\ ConversionOrder[6] = "bytes"
      /\ ConversionOrder[7] = "repr"   /\ DOMAIN ConversionOrder = 1..7
  BY DEF ConversionOrder
<1>2. Branches(v) = {i \in 1..7 : ConversionOrder[i] \in ExtractsAs[v.type]}
  BY <1>1 DEF Branches
<1>3. CASE v.type = "str"
  <2>1. 1 \in Branches(v) /\ \A j \in Branches(v) : 1 <= j
    BY <1>1, <1>2, <1>3 DEF ExtractsAs
  <2> QED BY <1>1, <1>3, <2>1, FirstBranchIsTaken DEF CborVariant, OwnVariant
<1>4. CASE v.type \in {"int", "bool"}
  <2>1. 2 \in Branches(v) /\ 1 \notin Branches(v)
    BY <1>1, <1>2, <1>4 DEF ExtractsAs
  <2>2. \A j \in Branches(v) : 2 <= j
    BY <1>2, <2>1
  <2> QED BY <1>1, <1>4, <2>1, <2>2, FirstBranchIsTaken DEF CborVariant, OwnVariant
<1>5. CASE v.type = "float"
  <2>1. 3 \in Branches(v) /\ 1 \notin Branches(v) /\ 2 \notin Branches(v)
    BY <1>1, <1>2, <1>5 DEF ExtractsAs
  <2>2. \A j \in Branches(v) : 3 <= j
    BY <1>2, <2>1
  <2> QED BY <1>1, <1>5, <2>1, <2>2, FirstBranchIsTaken DEF CborVariant, OwnVariant
<1>6. CASE v.type = "none"
  <2>1. 5 \in Branches(v) /\ \A j \in 1..4 : j \notin Branches(v)
    BY <1>1, <1>2, <1>6 DEF ExtractsAs
  <2>2. \A j \in Branches(v) : 5 <= j
    BY <1>2, <2>1
  <2> QED BY <1>1, <1>6, <2>1, <2>2, FirstBranchIsTaken DEF CborVariant, OwnVariant
<1>7. CASE v.type = "bytes"
  <2>1. 6 \in Branches(v) /\ \A j \in 1..5 : j \notin Branches(v)
    BY <1>1, <1>2, <1>7 DEF ExtractsAs
  <2>2. \A j \in Branches(v) : 6 <= j
    BY <1>2, <2>1
  <2> QED BY <1>1, <1>7, <2>1, <2>2, FirstBranchIsTaken DEF CborVariant, OwnVariant
<1> QED BY <1>3, <1>4, <1>5, <1>6, <1>7 DEF OwnVariant

(* Booleans are the only scalars that do not keep their type               *)
(* (OnlyBooleansChangeType), and none of them does: python_to_cbor_value   *)
(* treats every claim of every request, and every value in a dict, alike.  *)
THEOREM BooleansAlone == Spec => OnlyBooleansChangeType
<1>1. ASSUME NEW h \in Handles, NEW r \in Requests, PrepareMdocForHsm(h, r),
             NEW ns \in DOMAIN r.namespaces, NEW i \in prepared'[h].items[ns]
      PROVE  LET v == r.namespaces[ns][i.elementIdentifier]
             IN  /\ KeepsType(v, i.elementValue.variant)
                 /\ v.type = "dict" => \A k \in DOMAIN v.data :
                                        KeepsType(v.data[k], i.elementValue.data[k].variant)
  <2> DEFINE d == DrawForItems(drawn + 1)
             N == BuilderNamespaces(r)
  <2>1. prepared'[h].items = CreateIssuerSignedItems(N, d)
    BY <1>1 DEF PrepareMdocForHsm, MdocPreparedForHsm
  <2> HIDE DEF d
  <2>2. PICK e \in DOMAIN r.namespaces[ns] : i = Item(N, d, ns, e)
    BY <2>1, ItemsOfRequest
  <2> DEFINE v == r.namespaces[ns][e]
  <2>3. i.elementIdentifier = e /\ i.elementValue = PythonToCbor(v)
    BY <2>2 DEF Item, BuilderNamespaces, ConvertClaims
  <2> HIDE DEF v
  <2>4. CASE v.type = "dict"
    <3>1. KeepsType(v, i.elementValue.variant)
      BY <2>4 DEF KeepsType, OwnVariant
    <3>2. \A k \in DOMAIN v.data : i.elementValue.data[k] = ScalarToCbor(v.data[k])
      BY <2>3, <2>4 DEF PythonToCbor
    <3> QED BY <2>3, <3>1, <3>2, VariantOfScalar DEF v
  <2>5. CASE v.type # "dict"
    <3>1. i.elementValue = ScalarToCbor(v)
      BY <2>3, <2>5 DEF PythonToCbor
    <3> QED BY <2>3, <2>5, <3>1, VariantOfScalar DEF v
  <2> QED BY <2>4, <2>5
<1>2. [Next]_vars => [PreparedTypes]_vars
  BY <1>1 DEF PreparedTypes
<1> QED BY <1>2, PTL DEF Spec, OnlyBooleansChangeType
=============================================================================
