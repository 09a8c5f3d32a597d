----------------------- MODULE MdocHsmRefinementProofs -----------------------
(***************************************************************************)
(* MdocHsmSigning implements SplitSigning: what is committed to the signer *)
(* and what is disclosed later are both the whole content of one request.  *)
(***************************************************************************)
EXTENDS MdocHsmSigningProofs

(* The items drawn for a request say what the request says.                *)
LEMMA ClaimsOfItems ==
  ASSUME NEW r \in Requests, NEW d
  PROVE  ClaimsOf(CreateIssuerSignedItems(BuilderNamespaces(r), d)) = RequestedContent(r).claims
<1> DEFINE N     == BuilderNamespaces(r)
           items == CreateIssuerSignedItems(N, d)
           Names(ns) == {i.elementIdentifier : i \in items[ns]}
           Of(ns, e) == CHOOSE i \in items[ns] : i.elementIdentifier = e
<1>1. DOMAIN items = DOMAIN r.namespaces
  BY DEF CreateIssuerSignedItems, BuilderNamespaces
<1>2. ASSUME NEW ns \in DOMAIN r.namespaces
      PROVE  /\ Names(ns) = DOMAIN r.namespaces[ns]
             /\ \A e \in DOMAIN r.namespaces[ns] :
                  Of(ns, e).elementValue = PythonToCbor(r.namespaces[ns][e])
  <2> DEFINE E == DOMAIN r.namespaces[ns]
  <2>1. items[ns] = {Item(N, d, ns, e) : e \in E}
    BY ItemsOfRequest
  <2>2. \A e \in E : /\ Item(N, d, ns, e).elementIdentifier = e
                     /\ Item(N, d, ns, e).elementValue = PythonToCbor(r.namespaces[ns][e])
    BY DEF Item, BuilderNamespaces, ConvertClaims
  <2> HIDE DEF N, items
  <2>3. Names(ns) = E
    BY <2>1, <2>2
  <2>4. ASSUME NEW e \in E
        PROVE  Of(ns, e).elementValue = PythonToCbor(r.namespaces[ns][e])
    <3>1. Item(N, d, ns, e) \in items[ns] /\ Item(N, d, ns, e).elementIdentifier = e
      BY <2>1, <2>2
    <3>2. Of(ns, e) \in items[ns] /\ Of(ns, e).elementIdentifier = e
      BY <3>1
    <3> HIDE DEF Of
    <3>3. PICK f \in E : Of(ns, e) = Item(N, d, ns, f)
      BY <2>1, <3>2
    <3>4. f = e
      BY <2>2, <3>2, <3>3
    <3> QED BY <2>2, <3>3, <3>4
  <2> QED BY <2>3, <2>4
<1>3. ClaimsOf(items) = [ns \in DOMAIN items |-> [e \in Names(ns) |-> Of(ns, e).elementValue]]
  BY DEF ClaimsOf
<1>4. RequestedContent(r).claims
        = [ns \in DOMAIN r.namespaces |->
             [e \in DOMAIN r.namespaces[ns] |-> PythonToCbor(r.namespaces[ns][e])]]
  BY DEF RequestedContent
<1>5. ASSUME NEW ns \in DOMAIN r.namespaces
      PROVE  [e \in Names(ns) |-> Of(ns, e).elementValue]
               = [e \in DOMAIN r.namespaces[ns] |-> PythonToCbor(r.namespaces[ns][e])]
  <2> HIDE DEF Names, Of
  <2> QED BY <1>2
<1> HIDE DEF Names, Of, items
<1> QED BY <1>1, <1>3, <1>4, <1>5 DEF items

(* The digests of an MSO are digests of all the items it was built over.   *)
LEMMA DigestedAreDrawn ==
  ASSUME NEW r \in Requests, NEW d
  PROVE  DigestedItems(BuildIssuerSigned(r, d))
           = CreateIssuerSignedItems(BuilderNamespaces(r), d)
<1> DEFINE N       == BuilderNamespaces(r)
           items   == CreateIssuerSignedItems(N, d)
           digests == BuildIssuerSigned(r, d).valueDigests
<1>1. /\ items = [ns \in DOMAIN r.namespaces |-> items[ns]]
      /\ DOMAIN items = DOMAIN r.namespaces
  BY DEF CreateIssuerSignedItems, BuilderNamespaces
<1>2. DOMAIN digests = DOMAIN r.namespaces
  BY DigestedNamespaces
<1>3. ASSUME NEW ns \in DOMAIN r.namespaces
      PROVE  {digests[ns][id].item : id \in DOMAIN digests[ns]} = items[ns]
  <2> DEFINE E == DOMAIN r.namespaces[ns]
  <2>1. items[ns] = {Item(N, d, ns, e) : e \in E}
    BY ItemsOfRequest
  <2>2. DOMAIN digests[ns] = {Item(N, d, ns, e).digestID : e \in E}
    BY DigestOfItem
  <2>3. \A e \in E : digests[ns][Item(N, d, ns, e).digestID].item = Item(N, d, ns, e)
    BY DigestOfItem
  <2> HIDE DEF N, items, digests
  <2> QED BY <2>1, <2>2, <2>3
<1>4. DigestedItems(BuildIssuerSigned(r, d))
        = [ns \in DOMAIN digests |-> {digests[ns][id].item : id \in DOMAIN digests[ns]}]
  BY DEF DigestedItems
<1> HIDE DEF items, digests
<1> QED BY <1>1, <1>2, <1>3, <1>4 DEF items

(* An object commits to, and its documents disclose, one request.          *)
LEMMA ContentOfObject ==
  ASSUME NEW r \in Requests, NEW d
  PROVE  LET p == MdocPreparedForHsm(r, d)
         IN  /\ CommittedContent(p.tbsData) = RequestedContent(r)
             /\ \A a : DisclosedContent(IssuedDocument(p, a).doc) = RequestedContent(r)
<1> DEFINE p == MdocPreparedForHsm(r, d)
<1>1. /\ p.tbsData = BuildIssuerSigned(r, d)
      /\ p.items = CreateIssuerSignedItems(BuilderNamespaces(r), DrawForItems(d))
      /\ p.docType = r.docType
      /\ p.tbsData.docType = r.docType
  BY DEF MdocPreparedForHsm, BuildIssuerSigned, CreateMobileSecurityObject
<1>2. \A a : /\ IssuedDocument(p, a).doc.nameSpaces = p.items
             /\ IssuedDocument(p, a).doc.docType = p.docType
  BY DEF IssuedDocument, BuildDeviceResponse
<1>3. RequestedContent(r) = [docType |-> r.docType, claims |-> RequestedContent(r).claims]
  BY DEF RequestedContent
<1> HIDE DEF p
<1>4. CommittedContent(p.tbsData) = RequestedContent(r)
  <2>1. ClaimsOf(DigestedItems(p.tbsData)) = RequestedContent(r).claims
    BY <1>1, DigestedAreDrawn, ClaimsOfItems
  <2> QED BY <1>1, <1>3, <2>1 DEF CommittedContent
<1>5. ASSUME NEW a
      PROVE  DisclosedContent(IssuedDocument(p, a).doc) = RequestedContent(r)
  <2>1. ClaimsOf(IssuedDocument(p, a).doc.nameSpaces) = RequestedContent(r).claims
    BY <1>1, <1>2, ClaimsOfItems
  <2> QED BY <1>1, <1>2, <1>3, <2>1 DEF DisclosedContent
<1> QED BY <1>4, <1>5 DEF p

-----------------------------------------------------------------------------
(* Every step is one of SplitSigning, or changes nothing it sees.          *)
LEMMA StepRefines == TypeOK /\ [Next]_vars => [Promise!Next]_(Promise!vars)
<1> SUFFICES ASSUME TypeOK, [Next]_vars PROVE [Promise!Next]_(Promise!vars)
  OBVIOUS
<1> DEFINE approved == [h \in DOMAIN prepared |-> CommittedContent(prepared[h].tbsData)]
           issued   == {DisclosedContent(d.doc) : d \in documents}
<1>1. ASSUME NEW h \in Handles, NEW r \in Requests, PrepareMdocForHsm(h, r)
      PROVE  Promise!Approve(h)
  <2> DEFINE new == MdocPreparedForHsm(r, drawn + 1)
  <2>1. /\ prepared' = [k \in DOMAIN prepared \cup {h} |-> IF k = h THEN new ELSE prepared[k]]
        /\ documents' = documents
        /\ r \in Preparable
    BY <1>1 DEF PrepareMdocForHsm, Preparable
  <2>2. CommittedContent(new.tbsData) = RequestedContent(r)
    BY ContentOfObject
  <2>3. issued' = issued
    BY <2>1
  <2>4. approved' = [k \in DOMAIN approved \cup {h} |->
                       IF k = h THEN RequestedContent(r) ELSE approved[k]]
    <3> HIDE DEF new
    <3> QED BY <2>1, <2>2
  <2>5. RequestedContent(r) \in {RequestedContent(s) : s \in Preparable}
    BY <2>1
  <2> HIDE DEF approved, issued, new
  <2> QED BY <2>3, <2>4, <2>5 DEF Promise!Approve, approved, issued
<1>2. ASSUME NEW h \in Handles, NEW a \in answers, CompleteWithSignature(h, a)
      PROVE  Promise!Issue(h)
  <2>1. /\ h \in DOMAIN prepared
        /\ prepared' = prepared
        /\ documents' = documents \cup {IssuedDocument(prepared[h], a)}
    BY <1>2 DEF CompleteWithSignature
  <2>2. PICK r \in Requests, k \in 1..drawn : prepared[h] = MdocPreparedForHsm(r, k)
    BY <2>1 DEF TypeOK, MadeObjects, Preparable
  <2>3. DisclosedContent(IssuedDocument(prepared[h], a).doc) = CommittedContent(prepared[h].tbsData)
    BY <2>2, ContentOfObject
  <2>4. approved' = approved /\ h \in DOMAIN approved
    BY <2>1
  <2>5. issued' = issued \cup {approved[h]}
    BY <2>1, <2>3
  <2> QED BY <2>4, <2>5 DEF Promise!Issue
<1>3. ASSUME Restart
      PROVE  Promise!Lose
  <2>1. prepared' = [h \in {} |-> {}] /\ documents' = documents
    BY <1>3 DEF Restart
  <2>2. approved' = [h \in {} |-> {}]
    BY <2>1
  <2> QED BY <2>1, <2>2 DEF Promise!Lose
<1>4. ASSUME UNCHANGED <<prepared, documents>>
      PROVE  UNCHANGED Promise!vars
  BY <1>4 DEF Promise!vars
<1> QED BY <1>1, <1>2, <1>3, <1>4 DEF Next, vars, Promise!Next, PrepareRejected,
           RequestSignature, HsmSign, CompleteRejected

(* Every behaviour of the library with its signer is one of SplitSigning:  *)
(* a preparation freezes the content of one request, and all its documents *)
(* disclose exactly that content.                                          *)
THEOREM ImplementsSplitSigning == Spec => RefinesSplitSigning
<1>1. Init => Promise!Init
  BY DEF Init, Promise!Init
<1> QED BY <1>1, StepRefines, TypeCorrect, PTL DEF Spec, Promise!Spec, RefinesSplitSigning
=============================================================================
