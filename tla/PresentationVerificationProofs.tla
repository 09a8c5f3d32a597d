------------------- MODULE PresentationVerificationProofs -------------------
(***************************************************************************)
(* Theorems about PresentationVerification for any sessions, anchors,      *)
(* keys, documents and numbers of presentations.  The argument: while a    *)
(* report is looked at, it is what one binding made of one presentation    *)
(* that was sent; everything else is a fact about what the bindings pass   *)
(* to Core and return from it.                                             *)
(***************************************************************************)
EXTENDS PresentationVerification, WellFoundedInduction, TLAPS

(* What a report says of a presentation was made from it, by the binding   *)
(* the report names, with the arguments it names.                          *)
PresentationReport ==
  \E p \in sent, s \in Sessions, t \in Trusts :
    /\ p.format = "mdoc"
    /\ report = Report("verify_mdoc_presentation", p, s, t, MdocPresentation(p, s, t))

IssuerReport ==
  \E p \in sent, t \in Trusts : \E pinned \in {t.pinned, None} :
    /\ p.format = "mdoc"
    /\ report = Report("verify_mdoc_issuer", p, None, [roots |-> t.roots, pinned |-> pinned],
                       MdocIssuer(p, t.roots, pinned))

SignatureReport ==
  \E p \in sent, t \in Trusts :
    /\ p.format = "mdoc"
    /\ report = Report("verify_mdoc_signature", p, None, [roots |-> t.roots, pinned |-> None],
                       MdocSignature(p, t.roots))

NamespacesReport ==
  \E p \in sent : \E result \in {Returned(AllNamespaces(p.docs)), Raised("RuntimeError")} :
    /\ p.format = "mdoc"
    /\ report = Report("get_all_namespaces", p, None, None, result)

(* What verify_mdoc_cbor can return for a response.                        *)
CborResults(p) ==
  LET error == {Raised("RuntimeError")}
  IN  IF ~Parses(p) THEN error
      ELSE {Returned(fields) : fields \in MdlFields(p.docs)}
             \cup (IF WithNamespace(p.docs, MdlNamespace) = {} THEN error ELSE {})

CborReport ==
  \E p \in sent : \E result \in CborResults(p) :
    report = Report("verify_mdoc_cbor", p, None, None, result)

(* What verify_sd_jwt returns when it is called with these arguments.      *)
IsSdJwtReport(r, p, pem, algorithm, s, expects) ==
  \E result \in SdJwtResults(p, pem, IF algorithm = None THEN "ES256" ELSE algorithm,
                             Given("nonce", s.nonce, expects),
                             Given("audience", s.verifier, expects)) :
    /\ p.format = "sd_jwt"
    /\ r = Report("verify_sd_jwt", p, s,
                  [pem |-> pem, algorithm |-> algorithm, expects |-> expects], result)

SdJwtReport ==
  \E p \in sent, pem \in Keys, algorithm \in Algorithms \cup {None}, s \in Sessions,
     expects \in SUBSET {"nonce", "audience"} :
    IsSdJwtReport(report, p, pem, algorithm, s, expects)

VpTokenReport ==
  \E p \in sent, s \in Sessions :
    /\ p.format = "vp_jwt"
    /\ report = Report("verify_vp_token_jwt", p, s, None, Returned(VpTokenValid(p, s)))

BbsReport ==
  \E p \in sent, messages \in BbsLists, indices \in IndexLists, s \in Sessions,
     suite \in Suites \cup {None} :
    /\ p.format = "bbs"
    /\ report = Report("bbs_verify_proof", p, s,
                       [indices |-> indices, messages |-> Revealed(messages, indices),
                        suite |-> suite],
                       BbsProofResult(p, indices, Revealed(messages, indices), s, suite))

ReportMade ==
  /\ report.call = "verify_mdoc_presentation" => PresentationReport
  /\ report.call = "verify_mdoc_issuer" => IssuerReport
  /\ report.call = "verify_mdoc_signature" => SignatureReport
  /\ report.call = "get_all_namespaces" => NamespacesReport
  /\ report.call = "verify_mdoc_cbor" => CborReport
  /\ report.call = "verify_sd_jwt" => SdJwtReport
  /\ report.call = "verify_vp_token_jwt" => VpTokenReport
  /\ report.call = "bbs_verify_proof" => BbsReport

(* What accepting a presentation in a session takes.                       *)
IsAnswer(p, s) == Genuine(p) /\ AnswersTo(p, s)

IInv == TypeOK /\ ReportMade /\ AcceptedAnswersItsSession

-----------------------------------------------------------------------------
(* Presentations                                                           *)

(* Sessions are told apart by verifier and nonce.                          *)
LEMMA SameSession ==
  ASSUME NEW s \in Sessions, NEW u \in Sessions, s.verifier = u.verifier, s.nonce = u.nonce
  PROVE  s = u
BY SessionsAssumption

(* The fields that presentations of all formats have.                      *)
LEMMA PresentationFields ==
  ASSUME NEW p \in Presentations
  PROVE  /\ p.damage \in Damages
         /\ p.session \in Sessions \cup {None}
         /\ p.format \in {"mdoc", "sd_jwt", "vp_jwt", "bbs"}
         /\ p.format = "mdoc" => p \in MdocResponses
         /\ p.format = "sd_jwt" => p \in SdJwts
         /\ p.format = "vp_jwt" => p \in VpTokens
         /\ p.format = "bbs" => p \in BbsProofs
<1>1. CASE p \in MdocResponses
  BY <1>1 DEF MdocResponses
<1>2. CASE p \in SdJwts
  BY <1>2 DEF SdJwts
<1>3. CASE p \in VpTokens
  BY <1>3 DEF VpTokens
<1>4. CASE p \in BbsProofs
  BY <1>4 DEF BbsProofs
<1> QED BY <1>1, <1>2, <1>3, <1>4 DEF Presentations

(* Damage makes another presentation of the same format.                   *)
LEMMA DamagedIsPresentation ==
  ASSUME NEW p \in Presentations, NEW d \in Damages
  PROVE  [p EXCEPT !.damage = d] \in Presentations
<1>1. CASE p \in MdocResponses
  BY <1>1 DEF MdocResponses, Presentations
<1>2. CASE p \in SdJwts
  BY <1>2 DEF SdJwts, Presentations
<1>3. CASE p \in VpTokens
  BY <1>3 DEF VpTokens, Presentations
<1>4. CASE p \in BbsProofs
  BY <1>4 DEF BbsProofs, Presentations
<1> QED BY <1>1, <1>2, <1>3, <1>4 DEF Presentations

-----------------------------------------------------------------------------
(* What the bindings pass on                                               *)

(* The arguments reach Core as they were given: a presentation report in   *)
(* which everything is valid is one of an answer to the session.           *)
LEMMA PresentationAnswers ==
  ASSUME NEW p \in Presentations, NEW s \in Sessions, NEW t \in Trusts, p.format = "mdoc",
         MdocPresentation(p, s, t).issuer_signature_valid,
         MdocPresentation(p, s, t).device_authentication_valid
  PROVE  IsAnswer(p, s)
<1>1. p.damage \in Damages \ {"syntax", "issuer", "holder"} /\ p.session = s
  BY PresentationFields
     DEF MdocPresentation, CorePresentationResult, IssuerSigned, Parses, SessionTranscript
<1> QED BY <1>1, NoneAssumption DEF IsAnswer, Genuine, AnswersTo, Damages

(* An SD-JWT that is verified for both expectations is an answer.          *)
LEMMA SdJwtAnswers ==
  ASSUME NEW p \in Presentations, NEW s \in Sessions, NEW pem, NEW algorithm,
         p.format = "sd_jwt",
         NEW result \in SdJwtResults(p, pem, algorithm, s.nonce, s.verifier),
         "returned" \in DOMAIN result
  PROVE  IsAnswer(p, s) /\ IssuerKeyVerifies(p, pem)
<1>1. None # s.nonce /\ None # s.verifier /\ None \notin Sessions
  BY NoneAssumption
<1>2. ~DecodingKeyFails(pem, algorithm)
  BY DEF SdJwtResults, Raised
<1>3. result \in SdJwtVerifierNew(p, pem, s.verifier, s.nonce)
  BY <1>2 DEF SdJwtResults
<1>4. /\ IssuerKeyVerifies(p, pem)
      /\ p.session # None /\ p.damage # "holder"
      /\ p.session.verifier = s.verifier /\ p.session.nonce = s.nonce
  BY <1>1, <1>3 DEF SdJwtVerifierNew, Raised
<1>5. p.damage = "none"
  BY <1>4, PresentationFields DEF IssuerKeyVerifies, Damages
<1>6. p.session = s
  BY <1>4, SameSession, PresentationFields
<1> QED BY <1>1, <1>4, <1>5, <1>6 DEF IsAnswer, Genuine, AnswersTo

(* A VP token that is valid is an answer.                                  *)
LEMMA VpTokenAnswers ==
  ASSUME NEW p \in Presentations, NEW s \in Sessions, p.format = "vp_jwt", VpTokenValid(p, s)
  PROVE  IsAnswer(p, s)
<1>1. p.session \in Sessions
  BY PresentationFields DEF VpTokens
<1>2. p.damage = "none" /\ p.session = s
  BY <1>1, SameSession DEF VpTokenValid, EngineVerifies
<1> QED BY <1>1, <1>2, NoneAssumption DEF IsAnswer, Genuine, AnswersTo

(* A BBS proof that verifies was made with the nonce of the session.       *)
LEMMA BbsAnswers ==
  ASSUME NEW p \in Presentations, NEW s \in Sessions, NEW indices, NEW messages, NEW suite,
         p.format = "bbs",
         "returned" \in DOMAIN BbsProofResult(p, indices, messages, s, suite)
  PROVE  IsAnswer(p, s)
<1>1. p.session \in Sessions
  BY PresentationFields DEF BbsProofs
<1>2. p.damage = "none" /\ p.session.nonce = s.nonce
  BY DEF BbsProofResult, Raised
<1> QED BY <1>1, <1>2, NoneAssumption DEF IsAnswer, Genuine, AnswersTo

(* Passing all checks of a session takes an answer to it.                  *)
LEMMA PassedAnswers ==
  ASSUME TypeOK, ReportMade, Passed
  PROVE  /\ report.presentation \in sent
         /\ report.session \in Sessions
         /\ IsAnswer(report.presentation, report.session)
<1> USE DEF TypeOK
<1>1. CASE report.call = "verify_mdoc_presentation"
  <2>1. PICK p \in sent, s \in Sessions, t \in Trusts :
          /\ p.format = "mdoc"
          /\ report = Report("verify_mdoc_presentation", p, s, t, MdocPresentation(p, s, t))
    BY <1>1 DEF ReportMade, PresentationReport
  <2>2. /\ report.presentation = p /\ report.session = s
        /\ report.result = MdocPresentation(p, s, t)
    BY <2>1 DEF Report
  <2>3. /\ report.result.issuer_signature_valid
        /\ report.result.device_authentication_valid
    BY <1>1 DEF Passed
  <2> QED BY <2>1, <2>2, <2>3, PresentationAnswers
<1>2. CASE report.call = "verify_sd_jwt"
  <2>1. PICK p \in sent, pem \in Keys, algorithm \in Algorithms \cup {None}, s \in Sessions,
             expects \in SUBSET {"nonce", "audience"} :
          IsSdJwtReport(report, p, pem, algorithm, s, expects)
    BY <1>2 DEF ReportMade, SdJwtReport
  <2> DEFINE alg == IF algorithm = None THEN "ES256" ELSE algorithm
  <2>2. PICK result \in SdJwtResults(p, pem, alg, Given("nonce", s.nonce, expects),
                                     Given("audience", s.verifier, expects)) :
            /\ p.format = "sd_jwt"
            /\ report = Report("verify_sd_jwt", p, s,
                               [pem |-> pem, algorithm |-> algorithm, expects |-> expects],
                               result)
    BY <2>1 DEF IsSdJwtReport
  <2>3. /\ report.presentation = p /\ report.session = s /\ report.result = result
        /\ report.args.expects = expects
    BY <2>2 DEF Report
  <2>4. expects = {"nonce", "audience"} /\ "returned" \in DOMAIN result
    BY <1>2, <2>3 DEF Passed
  <2>5. Given("nonce", s.nonce, expects) = s.nonce
        /\ Given("audience", s.verifier, expects) = s.verifier
    BY <2>4 DEF Given
  <2> HIDE DEF alg
  <2>6. result \in SdJwtResults(p, pem, alg, s.nonce, s.verifier)
    BY <2>5
  <2>7. IsAnswer(p, s)
    BY <2>2, <2>4, <2>6, SdJwtAnswers
  <2> QED BY <2>3, <2>7
<1>3. CASE report.call = "verify_vp_token_jwt"
  <2>1. PICK p \in sent, s \in Sessions :
          /\ p.format = "vp_jwt"
          /\ report = Report("verify_vp_token_jwt", p, s, None, Returned(VpTokenValid(p, s)))
    BY <1>3 DEF ReportMade, VpTokenReport
  <2>2. /\ report.presentation = p /\ report.session = s
        /\ report.result.returned = VpTokenValid(p, s)
    BY <2>1 DEF Report, Returned
  <2>3. VpTokenValid(p, s)
    BY <1>3, <2>2 DEF Passed
  <2> QED BY <2>1, <2>2, <2>3, VpTokenAnswers
<1>4. CASE report.call = "bbs_verify_proof"
  <2>1. PICK p \in sent, messages \in BbsLists, indices \in IndexLists, s \in Sessions,
             suite \in Suites \cup {None} :
          /\ p.format = "bbs"
          /\ report = Report("bbs_verify_proof", p, s,
                             [indices |-> indices, messages |-> Revealed(messages, indices),
                              suite |-> suite],
                             BbsProofResult(p, indices, Revealed(messages, indices), s, suite))
    BY <1>4 DEF ReportMade, BbsReport
  <2>2. /\ report.presentation = p /\ report.session = s
        /\ report.result = BbsProofResult(p, indices, Revealed(messages, indices), s, suite)
    BY <2>1 DEF Report
  <2>3. "returned" \in DOMAIN report.result
    BY <1>4 DEF Passed
  <2> QED BY <2>1, <2>2, <2>3, BbsAnswers
<1> QED BY <1>1, <1>2, <1>3, <1>4 DEF Passed

-----------------------------------------------------------------------------
(* The invariant                                                           *)

(* Nothing is sent, reported or accepted at first.                         *)
LEMMA Initially == Init => IInv
BY DEF Init, IInv, TypeOK, ReportMade, AcceptedAnswersItsSession, Idle

(* A report stays what it is when more is sent.                            *)
LEMMA ReportKept ==
  ASSUME ReportMade, sent \subseteq sent', UNCHANGED report
  PROVE  ReportMade'
<1>1. PresentationReport => PresentationReport'
  BY DEF PresentationReport
<1>2. IssuerReport => IssuerReport'
  BY DEF IssuerReport
<1>3. SignatureReport => SignatureReport'
  BY DEF SignatureReport
<1>4. NamespacesReport => NamespacesReport'
  BY DEF NamespacesReport
<1>5. SdJwtReport => SdJwtReport'
  BY DEF SdJwtReport
<1>6. VpTokenReport => VpTokenReport'
  BY DEF VpTokenReport
<1>7. BbsReport => BbsReport'
  BY DEF BbsReport
<1>8. CborReport => CborReport'
  BY DEF CborReport
<1> QED BY <1>1, <1>2, <1>3, <1>4, <1>5, <1>6, <1>7, <1>8 DEF ReportMade

(* Sending a presentation leaves reports and acceptances what they were.   *)
LEMMA SendKeeps ==
  ASSUME IInv, NEW p \in Presentations, sent' = sent \cup {p},
         UNCHANGED <<accepted, report>>
  PROVE  IInv'
<1>1. TypeOK'
  BY DEF IInv, TypeOK
<1>2. ReportMade'
  BY ReportKept DEF IInv
<1>3. AcceptedAnswersItsSession'
  BY DEF IInv, AcceptedAnswersItsSession
<1> QED BY <1>1, <1>2, <1>3 DEF IInv

(* A binding that returns, and what may have been sent before.             *)
LEMMA ReturnKeeps ==
  ASSUME IInv, sent \subseteq sent', sent' \subseteq Presentations, UNCHANGED accepted,
         "call" \in DOMAIN report', ReportMade'
  PROVE  IInv'
<1>1. TypeOK'
  BY DEF IInv, TypeOK
<1>2. AcceptedAnswersItsSession'
  BY DEF IInv, AcceptedAnswersItsSession
<1> QED BY <1>1, <1>2 DEF IInv

(* What is sent is a presentation of one of the formats.                   *)
LEMMA HolderStep ==
  ASSUME IInv, Holder
  PROVE  IInv'
<1> USE DEF Send
<1>1. ASSUME NEW p \in Presentations, Answer(p)
      PROVE  IInv'
  BY <1>1, SendKeeps DEF Answer
<1>2. ASSUME NEW p \in sent, NEW d \in Damages, Damage(p, d)
      PROVE  IInv'
  <2>1. p \in Presentations
    BY DEF IInv, TypeOK
  <2>2. [p EXCEPT !.damage = d] \in Presentations
    BY <2>1, DamagedIsPresentation
  <2> QED BY <1>2, <2>2, SendKeeps DEF Damage
<1>3. ASSUME NEW key \in IssuerKeys, NEW fields \in SUBSET Claims, NEW s \in Sessions,
             NEW binds \in SUBSET {"nonce", "audience"},
             SdJwtCreatePresentation(key, fields, s, binds)
      PROVE  IInv'
  <2> DEFINE p == [format |-> "sd_jwt", key |-> key, disclosed |-> fields,
                   session |-> None, damage |-> "none"]
  <2>1. p \in Presentations
    BY DEF Presentations, SdJwts, Damages
  <2>2. sent' \in {sent, sent \cup {p}} /\ UNCHANGED accepted
    BY <1>3 DEF SdJwtCreatePresentation
  <2>3. \E result : report' = Report("sd_jwt_create_presentation", None, s, binds, result)
    BY <1>3 DEF SdJwtCreatePresentation, Return
  <2>4. report'.call = "sd_jwt_create_presentation" /\ "call" \in DOMAIN report'
    BY <2>3 DEF Report
  <2>5. ReportMade'
    BY <2>4 DEF ReportMade
  <2> QED BY <2>1, <2>2, <2>4, <2>5, ReturnKeeps DEF IInv, TypeOK
<1>4. ASSUME NEW messages \in BbsLists, NEW indices \in IndexLists, NEW s \in Sessions,
             NEW suite \in Suites \cup {None}, BbsCreateProof(messages, indices, s, suite)
      PROVE  IInv'
  <2> DEFINE p == [format |-> "bbs", messages |-> messages, indices |-> indices,
                   suite |-> suite, session |-> s, damage |-> "none"]
  <2>1. suite \in Suites /\ InRange(indices, messages) => p \in Presentations
    BY DEF Presentations, BbsProofs, Damages
  <2>2. /\ \/ sent' = sent
           \/ suite \in Suites /\ InRange(indices, messages) /\ sent' = sent \cup {p}
        /\ UNCHANGED accepted
    BY <1>4 DEF BbsCreateProof
  <2>3. \E result : report' = Report("bbs_create_proof", None, s,
                                     [indices |-> indices, suite |-> suite], result)
    BY <1>4 DEF BbsCreateProof, Return
  <2>4. report'.call = "bbs_create_proof" /\ "call" \in DOMAIN report'
    BY <2>3 DEF Report
  <2>5. ReportMade'
    BY <2>4 DEF ReportMade
  <2> QED BY <2>1, <2>2, <2>4, <2>5, ReturnKeeps DEF IInv, TypeOK
<1> QED BY <1>1, <1>2, <1>3, <1>4 DEF Holder

(* The bindings for mdocs report what they made of what was sent.          *)
LEMMA MdocStep ==
  ASSUME IInv, MdocVerifier
  PROVE  IInv'
<1>1. UNCHANGED <<sent, accepted>> /\ "call" \in DOMAIN report' /\ ReportMade'
  <2>1. ASSUME NEW p \in sent, NEW s \in Sessions, NEW t \in Trusts,
               VerifyMdocPresentation(p, s, t)
        PROVE  UNCHANGED <<sent, accepted>> /\ "call" \in DOMAIN report' /\ ReportMade'
    BY <2>1 DEF VerifyMdocPresentation, Return, Report, ReportMade, PresentationReport
  <2>2. ASSUME NEW p \in sent, NEW t \in Trusts, NEW pinned \in {t.pinned, None},
               VerifyMdocIssuer(p, t.roots, pinned)
        PROVE  UNCHANGED <<sent, accepted>> /\ "call" \in DOMAIN report' /\ ReportMade'
    BY <2>2 DEF VerifyMdocIssuer, Return, Report, ReportMade, IssuerReport
  <2>3. ASSUME NEW p \in sent, NEW t \in Trusts, VerifyMdocSignature(p, t.roots)
        PROVE  UNCHANGED <<sent, accepted>> /\ "call" \in DOMAIN report' /\ ReportMade'
    BY <2>3 DEF VerifyMdocSignature, Return, Report, ReportMade, SignatureReport
  <2>4. ASSUME NEW p \in sent, GetAllNamespaces(p)
        PROVE  UNCHANGED <<sent, accepted>> /\ "call" \in DOMAIN report' /\ ReportMade'
    BY <2>4 DEF GetAllNamespaces, Return, Report, ReportMade, NamespacesReport
  <2>5. ASSUME NEW p \in sent, GetMdlFields(p)
        PROVE  UNCHANGED <<sent, accepted>> /\ "call" \in DOMAIN report' /\ ReportMade'
    BY <2>5 DEF GetMdlFields, Return, Report, ReportMade
  <2>6. ASSUME NEW p \in sent, VerifyMdocCbor(p)
        PROVE  UNCHANGED <<sent, accepted>> /\ "call" \in DOMAIN report' /\ ReportMade'
    <3>1. PICK fields \in MdlFields(p.docs) :
            report' = Report("verify_mdoc_cbor", p, None, None, Returned(fields))
      BY <2>6 DEF VerifyMdocCbor, Return
    <3>2. Returned(fields) \in CborResults(p) /\ UNCHANGED <<sent, accepted>>
      BY <2>6 DEF VerifyMdocCbor, CborResults
    <3> QED BY <3>1, <3>2 DEF Report, ReportMade, CborReport
  <2>7. ASSUME NEW p \in sent,
               NEW call \in {"get_all_namespaces", "get_mdl_fields", "verify_mdoc_cbor"},
               ReadingFails(call, p)
        PROVE  UNCHANGED <<sent, accepted>> /\ "call" \in DOMAIN report' /\ ReportMade'
    <3>1. /\ p.format = "mdoc" /\ UNCHANGED <<sent, accepted>>
          /\ report' = Report(call, p, None, None, Raised("RuntimeError"))
      BY <2>7 DEF ReadingFails, Return
    <3>2. call = "verify_mdoc_cbor" => Raised("RuntimeError") \in CborResults(p)
      BY <2>7 DEF ReadingFails, CborResults
    <3> QED BY <3>1, <3>2 DEF Report, ReportMade, NamespacesReport, CborReport
  <2> QED BY <2>1, <2>2, <2>3, <2>4, <2>5, <2>6, <2>7 DEF MdocVerifier
<1> QED BY <1>1, ReturnKeeps DEF IInv, TypeOK

(* So do the bindings for tokens and proofs.                               *)
LEMMA TokenStep ==
  ASSUME IInv, TokenVerifier
  PROVE  IInv'
<1>1. UNCHANGED <<sent, accepted>> /\ "call" \in DOMAIN report' /\ ReportMade'
  <2>1. ASSUME NEW p \in sent, NEW pem \in Keys, NEW algorithm \in Algorithms \cup {None},
               NEW s \in Sessions, NEW expects \in SUBSET {"nonce", "audience"},
               VerifySdJwt(p, pem, algorithm, s, expects)
        PROVE  UNCHANGED <<sent, accepted>> /\ "call" \in DOMAIN report' /\ ReportMade'
    <3>1. PICK result \in SdJwtResults(p, pem, IF algorithm = None THEN "ES256" ELSE algorithm,
                                       Given("nonce", s.nonce, expects),
                                       Given("audience", s.verifier, expects)) :
            report' = Report("verify_sd_jwt", p, s,
                             [pem |-> pem, algorithm |-> algorithm, expects |-> expects],
                             result)
      BY <2>1 DEF VerifySdJwt, Return
    <3>2. UNCHANGED <<sent, accepted>> /\ p.format = "sd_jwt"
      BY <2>1 DEF VerifySdJwt
    <3>3. SdJwtReport'
      <4>1. IsSdJwtReport(report', p, pem, algorithm, s, expects)
        BY <3>1, <3>2 DEF IsSdJwtReport
      <4> QED BY <3>2, <4>1 DEF SdJwtReport
    <3>4. report'.call = "verify_sd_jwt" /\ "call" \in DOMAIN report'
      BY <3>1 DEF Report
    <3> QED BY <3>2, <3>3, <3>4 DEF ReportMade
  <2>2. ASSUME NEW p \in sent, NEW s \in Sessions, VerifyVpTokenJwt(p, s)
        PROVE  UNCHANGED <<sent, accepted>> /\ "call" \in DOMAIN report' /\ ReportMade'
    BY <2>2 DEF VerifyVpTokenJwt, Return, Report, ReportMade, VpTokenReport
  <2>3. ASSUME NEW p \in sent, NEW messages \in BbsLists, NEW indices \in IndexLists,
               NEW s \in Sessions, NEW suite \in Suites \cup {None},
               BbsVerifyProof(p, indices, Revealed(messages, indices), s, suite)
        PROVE  UNCHANGED <<sent, accepted>> /\ "call" \in DOMAIN report' /\ ReportMade'
    BY <2>3 DEF BbsVerifyProof, Return, Report, ReportMade, BbsReport
  <2> QED BY <2>1, <2>2, <2>3 DEF TokenVerifier
<1> QED BY <1>1, ReturnKeeps DEF IInv, TypeOK

(* Accepting: what passed is an answer to the session of the report.       *)
LEMMA DecideStep ==
  ASSUME IInv, Decide
  PROVE  IInv'
<1>1. report' = Idle /\ sent' = sent
  BY DEF Decide
<1>2. ReportMade' /\ "call" \in DOMAIN report'
  BY <1>1 DEF ReportMade, Idle
<1>3. CASE Passed
  <2>1. /\ report.presentation \in sent /\ report.session \in Sessions
        /\ IsAnswer(report.presentation, report.session)
    BY <1>3, PassedAnswers DEF IInv
  <2>2. accepted' = accepted \cup {[presentation |-> report.presentation,
                                    session |-> report.session]}
    BY <1>3 DEF Decide
  <2>3. AcceptedAnswersItsSession'
    BY <2>1, <2>2 DEF IInv, AcceptedAnswersItsSession, IsAnswer
  <2>4. TypeOK'
    BY <1>1, <1>2, <2>1, <2>2 DEF IInv, TypeOK
  <2> QED BY <1>2, <2>3, <2>4 DEF IInv
<1>4. CASE ~Passed
  <2>1. accepted' = accepted
    BY <1>4 DEF Decide
  <2> QED BY <1>1, <1>2, <2>1, ReturnKeeps DEF IInv, TypeOK
<1> QED BY <1>3, <1>4

(* Every step keeps the invariant.                                         *)
LEMMA Inductive == IInv /\ [Next]_vars => IInv'
<1> SUFFICES ASSUME IInv, [Next]_vars PROVE IInv'
  OBVIOUS
<1>1. CASE UNCHANGED vars
  BY <1>1, ReportKept DEF vars, IInv, TypeOK, AcceptedAnswersItsSession
<1> QED BY <1>1, HolderStep, MdocStep, TokenStep, DecideStep DEF Next

-----------------------------------------------------------------------------
(* What the bindings return                                                *)

(* Of some of the first n numbers one is the greatest.                     *)
LEMMA GreatestExists ==
  ASSUME NEW n \in Nat, NEW W \in SUBSET (1..n), W # {}
  PROVE  \E i \in W : \A j \in W : j <= i
<1> DEFINE T == {n - j : j \in W}
<1>1. T \subseteq Nat /\ T # {}
  <2>1. ASSUME NEW j \in W PROVE n - j \in Nat
    OBVIOUS
  <2>2. T \subseteq Nat
    BY <2>1
  <2>3. PICK j \in W : TRUE
    OBVIOUS
  <2>4. n - j \in T
    OBVIOUS
  <2> QED BY <2>2, <2>4
<1>2. IsWellFoundedOn(OpToRel(<, Nat), Nat)
  BY NatLessThanWellFounded
<1>3. PICK x \in T : \A y \in T : ~(<<y, x>> \in OpToRel(<, Nat))
  BY <1>1, <1>2, WFMin
<1>4. PICK i \in W : x = n - i
  BY <1>3
<1>5. ASSUME NEW j \in W PROVE j <= i
  <2>1. n - j \in T /\ n - j \in Nat /\ x \in Nat
    BY <1>1, <1>3
  <2>2. ~(n - j < x)
    BY <1>3, <2>1 DEF OpToRel
  <2> QED BY <1>4, <2>2
<1> QED BY <1>5

(* The dict of a namespace is the one the last document with it has.       *)
LEMMA NamespaceOfOneDocument ==
  ASSUME NEW docs \in DocLists, NEW ns \in NamespaceNames(docs)
  PROVE  \E i \in WithNamespace(docs, ns) : AllNamespaces(docs)[ns] = docs[i].namespaces[ns]
<1> DEFINE W == WithNamespace(docs, ns)
           last == CHOOSE i \in W : \A j \in W : j <= i
<1>1. W # {} /\ W \subseteq 1..Len(docs) /\ Len(docs) \in Nat
  BY DocListsAssumption DEF WithNamespace, NamespaceNames
<1>2. last \in W
  BY <1>1, GreatestExists
<1>3. AllNamespaces(docs)[ns] = docs[last].namespaces[ns]
  BY DEF AllNamespaces
<1> QED BY <1>2, <1>3

(* What an undamaged answer is verified to, with the right arguments.      *)
LEMMA SdJwtAccepts ==
  ASSUME NEW p \in SdJwts, NEW s \in Sessions, p.session = s, p.damage = "none",
         NEW algorithm, algorithm \in DOMAIN KeyFamily, KeyFamily[algorithm] = p.key.family,
         NEW result \in SdJwtResults(p, p.key, algorithm, s.nonce, s.verifier)
  PROVE  "returned" \in DOMAIN result
<1>1. result \in SdJwtVerifierNew(p, p.key, s.verifier, s.nonce)
  BY DEF SdJwtResults, DecodingKeyFails
<1>2. None # s.nonce /\ None # s.verifier /\ s # None
  BY NoneAssumption
<1>3. IssuerKeyVerifies(p, p.key)
  BY DEF IssuerKeyVerifies
<1>4. SdJwtVerifierNew(p, p.key, s.verifier, s.nonce) = {Returned(p.disclosed)}
  BY <1>2, <1>3 DEF SdJwtVerifierNew
<1> QED BY <1>1, <1>4 DEF Returned

(* With the right arguments an undamaged answer passes.                    *)
LEMMA GenuinePasses ==
  ASSUME TypeOK, ReportMade, RightArguments, report.presentation.damage = "none",
         report.presentation.session = report.session
  PROVE  Passed
<1> USE DEF TypeOK
<1>1. CASE report.call = "verify_mdoc_presentation"
  <2>1. PICK p \in sent, s \in Sessions, t \in Trusts :
          /\ p.format = "mdoc"
          /\ report = Report("verify_mdoc_presentation", p, s, t, MdocPresentation(p, s, t))
    BY <1>1 DEF ReportMade, PresentationReport
  <2>2. /\ report.presentation = p /\ report.session = s /\ report.args = t
        /\ report.result = MdocPresentation(p, s, t)
    BY <2>1 DEF Report
  <2>3. IssuersTrusted(p, t.roots, t.pinned) /\ p.damage = "none" /\ p.session = s
    BY <1>1, <2>2 DEF RightArguments
  <2>4. /\ MdocPresentation(p, s, t).issuer_signature_valid
        /\ MdocPresentation(p, s, t).issuer_trusted
        /\ MdocPresentation(p, s, t).device_authentication_valid
    BY <2>3 DEF MdocPresentation, CorePresentationResult, IssuerSigned, Parses
  <2> QED BY <1>1, <2>2, <2>4 DEF Passed
<1>2. CASE report.call = "verify_sd_jwt"
  <2>1. PICK p \in sent, pem \in Keys, algorithm \in Algorithms \cup {None}, s \in Sessions,
             expects \in SUBSET {"nonce", "audience"} :
          IsSdJwtReport(report, p, pem, algorithm, s, expects)
    BY <1>2 DEF ReportMade, SdJwtReport
  <2> DEFINE alg == IF algorithm = None THEN "ES256" ELSE algorithm
  <2>2. PICK result \in SdJwtResults(p, pem, alg, Given("nonce", s.nonce, expects),
                                     Given("audience", s.verifier, expects)) :
            /\ p.format = "sd_jwt"
            /\ report = Report("verify_sd_jwt", p, s,
                               [pem |-> pem, algorithm |-> algorithm, expects |-> expects],
                               result)
    BY <2>1 DEF IsSdJwtReport
  <2>3. /\ report.presentation = p /\ report.session = s /\ report.result = result
        /\ report.args = [pem |-> pem, algorithm |-> algorithm, expects |-> expects]
    BY <2>2 DEF Report
  <2>4. /\ pem = p.key /\ expects = {"nonce", "audience"}
        /\ IF algorithm = None
           THEN p.key.family = "EC"
           ELSE algorithm \in DOMAIN KeyFamily /\ KeyFamily[algorithm] = p.key.family
    BY <1>2, <2>3 DEF RightArguments
  <2>5. alg \in DOMAIN KeyFamily /\ KeyFamily[alg] = p.key.family
    BY <2>4 DEF KeyFamily
  <2>6. Given("nonce", s.nonce, expects) = s.nonce
        /\ Given("audience", s.verifier, expects) = s.verifier
    BY <2>4 DEF Given
  <2>7. p \in SdJwts /\ p.session = s /\ p.damage = "none"
    BY <2>2, <2>3, PresentationFields
  <2> HIDE DEF alg
  <2>8. result \in SdJwtResults(p, p.key, alg, s.nonce, s.verifier)
    BY <2>2, <2>4, <2>6
  <2>9. "returned" \in DOMAIN result
    BY <2>5, <2>7, <2>8, SdJwtAccepts
  <2> QED BY <1>2, <2>3, <2>4, <2>9 DEF Passed
<1>3. CASE report.call = "verify_vp_token_jwt"
  <2>1. PICK p \in sent, s \in Sessions :
          /\ p.format = "vp_jwt"
          /\ report = Report("verify_vp_token_jwt", p, s, None, Returned(VpTokenValid(p, s)))
    BY <1>3 DEF ReportMade, VpTokenReport
  <2>2. /\ report.presentation = p /\ report.session = s
        /\ report.result.returned = VpTokenValid(p, s)
    BY <2>1 DEF Report, Returned
  <2>3. p.holderKey /\ p.damage = "none" /\ p.session = s
    BY <1>3, <2>2 DEF RightArguments
  <2>4. VpTokenValid(p, s)
    BY <2>3 DEF VpTokenValid, EngineVerifies
  <2> QED BY <1>3, <2>2, <2>4 DEF Passed
<1>4. CASE report.call = "bbs_verify_proof"
  <2>1. PICK p \in sent, messages \in BbsLists, indices \in IndexLists, s \in Sessions,
             suite \in Suites \cup {None} :
          /\ p.format = "bbs"
          /\ report = Report("bbs_verify_proof", p, s,
                             [indices |-> indices, messages |-> Revealed(messages, indices),
                              suite |-> suite],
                             BbsProofResult(p, indices, Revealed(messages, indices), s, suite))
    BY <1>4 DEF ReportMade, BbsReport
  <2> DEFINE shown == Revealed(messages, indices)
  <2> HIDE DEF shown
  <2>2. /\ report.presentation = p /\ report.session = s
        /\ report.args = [indices |-> indices, messages |-> shown, suite |-> suite]
        /\ report.result = BbsProofResult(p, indices, shown, s, suite)
    BY <2>1 DEF Report, shown
  <2>3. /\ suite = p.suite /\ indices = p.indices /\ shown = Revealed(p.messages, p.indices)
        /\ p.damage = "none" /\ p.session = s
    BY <1>4, <2>2 DEF RightArguments
  <2>4. suite \in Suites
    BY <2>1, <2>3, PresentationFields DEF BbsProofs
  <2>5. BbsProofResult(p, indices, shown, s, suite) = Returned(TRUE)
    BY <2>3, <2>4 DEF BbsProofResult
  <2> QED BY <1>4, <2>2, <2>5 DEF Passed, Returned
<1> QED BY <1>1, <1>2, <1>3, <1>4 DEF RightArguments

(* The bindings pass the same anchors, or none where none are given.       *)
LEMMA Agreement == BindingsAgree
<1> SUFFICES ASSUME NEW p \in sent, p.format = "mdoc", NEW t \in Trusts, NEW s \in Sessions
             PROVE  LET presentation == MdocPresentation(p, s, t)
                        issuer       == MdocIssuer(p, t.roots, t.pinned)
                        unpinned     == MdocIssuer(p, t.roots, None)
                        signature    == MdocSignature(p, t.roots)
                    IN  /\ presentation.issuer_signature_valid = issuer.signature_valid
                        /\ presentation.issuer_trusted = issuer.issuer_trusted
                        /\ presentation.document_evidence = issuer.document_evidence
                        /\ signature.signature_valid = unpinned.signature_valid
                        /\ signature.issuer_verified = unpinned.issuer_trusted
                        /\ unpinned.issuer_trusted => issuer.issuer_trusted
                        /\ issuer.issuer_trusted /\ ~unpinned.issuer_trusted =>
                             \E i \in DOMAIN p.docs : p.docs[i].issuer \in t.pinned
  BY DEF BindingsAgree
<1>1. t.pinned # None
  BY NoneAssumption
<1>2. MdocPresentation(p, s, t) = CorePresentationResult(p, SessionTranscript(s), t.roots, t.pinned)
  BY DEF MdocPresentation
<1>3. MdocIssuer(p, t.roots, t.pinned) = CoreIssuerResult(p, t.roots, t.pinned)
  BY <1>1 DEF MdocIssuer
<1>4. MdocIssuer(p, t.roots, None) = CoreIssuerResult(p, t.roots, {})
  BY DEF MdocIssuer
<1>5. MdocSignature(p, t.roots) = Compatible(CoreIssuerResult(p, t.roots, {}))
  BY DEF MdocSignature
<1>6. /\ MdocPresentation(p, s, t).issuer_signature_valid = IssuerSigned(p)
      /\ MdocPresentation(p, s, t).issuer_trusted = IssuersTrusted(p, t.roots, t.pinned)
      /\ MdocPresentation(p, s, t).document_evidence = IF IssuerSigned(p) THEN p.docs ELSE <<>>
  BY <1>2 DEF CorePresentationResult
<1>7. \A roots, pinned :
        /\ CoreIssuerResult(p, roots, pinned).signature_valid = IssuerSigned(p)
        /\ CoreIssuerResult(p, roots, pinned).issuer_trusted = IssuersTrusted(p, roots, pinned)
        /\ CoreIssuerResult(p, roots, pinned).document_evidence =
             IF IssuerSigned(p) THEN p.docs ELSE <<>>
  BY DEF CoreIssuerResult
<1>8. /\ MdocSignature(p, t.roots).signature_valid = IssuerSigned(p)
      /\ MdocSignature(p, t.roots).issuer_verified = IssuersTrusted(p, t.roots, {})
  BY <1>5, <1>7 DEF Compatible
<1>9. IssuersTrusted(p, t.roots, {}) => IssuersTrusted(p, t.roots, t.pinned)
  BY DEF IssuersTrusted
<1>10. IssuersTrusted(p, t.roots, t.pinned) /\ ~IssuersTrusted(p, t.roots, {}) =>
         \E i \in DOMAIN p.docs : p.docs[i].issuer \in t.pinned
  BY DEF IssuersTrusted
<1> QED BY <1>3, <1>4, <1>6, <1>7, <1>8, <1>9, <1>10

(* No namespace is missing in a report, and none mixes documents.          *)
LEMMA OneDocumentEach ==
  ASSUME TypeOK, ReportMade
  PROVE  NamespacesAreNotMixed
<1> SUFFICES ASSUME report.call = "get_all_namespaces", "returned" \in DOMAIN report.result
             PROVE  LET all  == report.result.returned
                        docs == report.presentation.docs
                    IN  /\ DOMAIN all = NamespaceNames(docs)
                        /\ \A ns \in DOMAIN all :
                             \E i \in WithNamespace(docs, ns) : all[ns] = docs[i].namespaces[ns]
  BY DEF NamespacesAreNotMixed
<1>1. PICK p \in sent : \E result \in {Returned(AllNamespaces(p.docs)), Raised("RuntimeError")} :
        p.format = "mdoc" /\ report = Report("get_all_namespaces", p, None, None, result)
  BY DEF ReportMade, NamespacesReport
<1>2. /\ report.presentation = p /\ p.format = "mdoc"
      /\ report.result \in {Returned(AllNamespaces(p.docs)), Raised("RuntimeError")}
  BY <1>1 DEF Report
<1>3. report.result.returned = AllNamespaces(p.docs)
  BY <1>2 DEF Returned, Raised
<1>4. p.docs \in DocLists
  BY <1>2, PresentationFields DEF TypeOK, MdocResponses
<1>5. DOMAIN AllNamespaces(p.docs) = NamespaceNames(p.docs)
  BY DEF AllNamespaces
<1> QED BY <1>2, <1>3, <1>4, <1>5, NamespaceOfOneDocument

-----------------------------------------------------------------------------
(* The exchange without network, formats and bindings                      *)

(* Sending a presentation is an answer of a holder, or not seen.           *)
LEMMA SendRefines ==
  ASSUME NEW p \in Presentations, sent' \in {sent, sent \cup {p}}, UNCHANGED accepted
  PROVE  Exchange!Answer \/ UNCHANGED Exchange!vars
<1> DEFINE answered == {q \in sent : Genuine(q)}
<1>1. CASE sent' = sent
  BY <1>1 DEF Exchange!vars
<1>2. CASE sent' = sent \cup {p} /\ Genuine(p)
  <2>1. {q \in sent' : Genuine(q)} = answered \cup {p}
    BY <1>2
  <2>2. p \in GenuinePresentations
    BY <1>2 DEF GenuinePresentations
  <2> QED BY <2>1, <2>2 DEF Exchange!Answer
<1>3. CASE sent' = sent \cup {p} /\ ~Genuine(p)
  <2>1. {q \in sent' : Genuine(q)} = answered
    BY <1>3
  <2> QED BY <2>1 DEF Exchange!vars
<1> QED BY <1>1, <1>2, <1>3

(* What holders and the network do.                                        *)
LEMMA HolderRefines ==
  ASSUME IInv, Holder
  PROVE  Exchange!Answer \/ UNCHANGED Exchange!vars
<1> USE DEF Send
<1>1. ASSUME NEW p \in Presentations, Answer(p)
      PROVE  Exchange!Answer \/ UNCHANGED Exchange!vars
  BY <1>1, SendRefines DEF Answer
<1>2. ASSUME NEW p \in sent, NEW d \in Damages, Damage(p, d)
      PROVE  Exchange!Answer \/ UNCHANGED Exchange!vars
  <2>1. [p EXCEPT !.damage = d] \in Presentations
    BY DamagedIsPresentation DEF IInv, TypeOK
  <2> QED BY <1>2, <2>1, SendRefines DEF Damage
<1>3. ASSUME NEW key \in IssuerKeys, NEW fields \in SUBSET Claims, NEW s \in Sessions,
             NEW binds \in SUBSET {"nonce", "audience"},
             SdJwtCreatePresentation(key, fields, s, binds)
      PROVE  Exchange!Answer \/ UNCHANGED Exchange!vars
  <2> DEFINE p == [format |-> "sd_jwt", key |-> key, disclosed |-> fields,
                   session |-> None, damage |-> "none"]
  <2>1. p \in Presentations
    BY DEF Presentations, SdJwts, Damages
  <2>2. sent' \in {sent, sent \cup {p}} /\ UNCHANGED accepted
    BY <1>3 DEF SdJwtCreatePresentation
  <2> HIDE DEF p
  <2> QED BY <2>1, <2>2, SendRefines
<1>4. ASSUME NEW messages \in BbsLists, NEW indices \in IndexLists, NEW s \in Sessions,
             NEW suite \in Suites \cup {None}, BbsCreateProof(messages, indices, s, suite)
      PROVE  Exchange!Answer \/ UNCHANGED Exchange!vars
  <2> DEFINE p == [format |-> "bbs", messages |-> messages, indices |-> indices,
                   suite |-> suite, session |-> s, damage |-> "none"]
  <2>1. suite \in Suites /\ InRange(indices, messages) => p \in Presentations
    BY DEF Presentations, BbsProofs, Damages
  <2>2. /\ \/ sent' = sent
           \/ suite \in Suites /\ InRange(indices, messages) /\ sent' = sent \cup {p}
        /\ UNCHANGED accepted
    BY <1>4 DEF BbsCreateProof
  <2> HIDE DEF p
  <2>3. CASE sent' = sent
    BY <2>2, <2>3 DEF Exchange!vars
  <2> QED BY <2>1, <2>2, <2>3, SendRefines
<1> QED BY <1>1, <1>2, <1>3, <1>4 DEF Holder

(* Accepting is accepting an answer, and bindings are not seen.            *)
LEMMA VerifierRefines ==
  ASSUME IInv, MdocVerifier \/ TokenVerifier \/ Decide
  PROVE  Exchange!Accept \/ UNCHANGED Exchange!vars
<1>1. CASE MdocVerifier \/ TokenVerifier
  <2>1. UNCHANGED <<sent, accepted>>
    BY <1>1 DEF MdocVerifier, TokenVerifier, VerifyMdocPresentation, VerifyMdocIssuer,
                VerifyMdocSignature, GetAllNamespaces, GetMdlFields, VerifyMdocCbor,
                ReadingFails, VerifySdJwt, VerifyVpTokenJwt, BbsVerifyProof
  <2> QED BY <2>1 DEF Exchange!vars
<1>2. CASE Decide /\ Passed
  <2>1. /\ report.presentation \in sent /\ report.session \in Sessions
        /\ IsAnswer(report.presentation, report.session)
    BY <1>2, PassedAnswers DEF IInv
  <2>2. /\ accepted' = accepted \cup {[presentation |-> report.presentation,
                                       session |-> report.session]}
        /\ UNCHANGED sent
    BY <1>2 DEF Decide
  <2> QED BY <2>1, <2>2 DEF Exchange!Accept, IsAnswer
<1>3. CASE Decide /\ ~Passed
  BY <1>3 DEF Decide, Exchange!vars
<1> QED BY <1>1, <1>2, <1>3

-----------------------------------------------------------------------------
(* Theorems                                                                *)

(* IInv holds in every state of every verifier.                            *)
THEOREM Invariant == Spec => []IInv
<1>1. Init => IInv
  BY Initially
<1>2. IInv /\ [Next]_vars => IInv'
  BY Inductive
<1> QED BY <1>1, <1>2, PTL DEF Spec

(* What is on its way is a presentation, and what was accepted was sent    *)
(* (TypeOK).                                                               *)
THEOREM TypeCorrect == Spec => []TypeOK
<1>1. IInv => TypeOK
  BY DEF IInv
<1> QED BY <1>1, Invariant, PTL

(* What a verifier accepts was made for the request it is held against,    *)
(* and arrived undamaged (AcceptedAnswersItsSession), for any sessions and *)
(* however often and late presentations are delivered.                     *)
THEOREM AcceptedAreAnswers == Spec => []AcceptedAnswersItsSession
<1>1. IInv => AcceptedAnswersItsSession
  BY DEF IInv
<1> QED BY <1>1, Invariant, PTL

(* An undamaged answer held against its session with the right arguments   *)
(* passes (GenuineIsAccepted).                                             *)
THEOREM GenuineAreAccepted == Spec => []GenuineIsAccepted
<1>1. IInv => GenuineIsAccepted
  BY GenuinePasses DEF IInv, GenuineIsAccepted
<1> QED BY <1>1, Invariant, PTL

(* The bindings that authenticate issuers agree with each other, whatever  *)
(* the anchors (BindingsAgree).                                            *)
THEOREM BindingsDoAgree == Spec => []BindingsAgree
<1>1. BindingsAgree
  BY Agreement
<1> QED BY <1>1, PTL

(* get_all_namespaces returns every namespace and never combines elements  *)
(* of two documents (NamespacesAreNotMixed), however many a response has.  *)
THEOREM NamespacesKeptApart == Spec => []NamespacesAreNotMixed
<1>1. IInv => NamespacesAreNotMixed
  BY OneDocumentEach DEF IInv
<1> QED BY <1>1, Invariant, PTL

(* Elements are lost (AllItemsAreReturned) only where two documents of a   *)
(* response have a namespace in common.                                    *)
THEOREM LostWhereShared ==
  Spec => [](~AllItemsAreReturned =>
               \E i, j \in DOMAIN report.presentation.docs :
                 /\ i # j
                 /\ DOMAIN report.presentation.docs[i].namespaces
                      \cap DOMAIN report.presentation.docs[j].namespaces # {})
<1>1. NamespacesAreNotMixed =>
        (~AllItemsAreReturned =>
           \E i, j \in DOMAIN report.presentation.docs :
             /\ i # j
             /\ DOMAIN report.presentation.docs[i].namespaces
                  \cap DOMAIN report.presentation.docs[j].namespaces # {})
  <2> DEFINE docs == report.presentation.docs
             all  == report.result.returned
  <2> SUFFICES ASSUME NamespacesAreNotMixed,
                      report.call = "get_all_namespaces", "returned" \in DOMAIN report.result,
                      NEW i \in DOMAIN docs, NEW ns \in DOMAIN docs[i].namespaces,
                      NEW e \in DOMAIN docs[i].namespaces[ns],
                      ~(ns \in DOMAIN all /\ e \in DOMAIN all[ns])
               PROVE  \E x, y \in DOMAIN docs :
                        x # y /\ DOMAIN docs[x].namespaces \cap DOMAIN docs[y].namespaces # {}
    BY DEF AllItemsAreReturned
  <2>1. DOMAIN all = NamespaceNames(docs)
        /\ \A n \in DOMAIN all : \E j \in WithNamespace(docs, n) : all[n] = docs[j].namespaces[n]
    BY DEF NamespacesAreNotMixed
  <2> HIDE DEF docs, all
  <2>2. ns \in DOMAIN all
    BY <2>1 DEF NamespaceNames
  <2>3. PICK j \in WithNamespace(docs, ns) : all[ns] = docs[j].namespaces[ns]
    BY <2>1, <2>2
  <2>4. i # j /\ j \in DOMAIN docs /\ ns \in DOMAIN docs[j].namespaces
    BY <2>2, <2>3 DEF WithNamespace
  <2> QED BY <2>4
<1> QED BY <1>1, NamespacesKeptApart, PTL

(* verify_mdoc_cbor does not look at signatures (VerifiedFieldsAreSigned): *)
(* of a response with a licence it returns fields if and only if the       *)
(* response parses.                                                        *)
THEOREM FieldsOfWhatParses ==
  Spec => [](/\ report.call = "verify_mdoc_cbor"
             /\ WithNamespace(report.presentation.docs, MdlNamespace) # {}
             => ("returned" \in DOMAIN report.result <=> Parses(report.presentation)))
<1>1. IInv => (/\ report.call = "verify_mdoc_cbor"
               /\ WithNamespace(report.presentation.docs, MdlNamespace) # {}
               => ("returned" \in DOMAIN report.result <=> Parses(report.presentation)))
  <2> SUFFICES ASSUME IInv, report.call = "verify_mdoc_cbor",
                      WithNamespace(report.presentation.docs, MdlNamespace) # {}
               PROVE  "returned" \in DOMAIN report.result <=> Parses(report.presentation)
    OBVIOUS
  <2>1. PICK p \in sent : \E result \in CborResults(p) :
          report = Report("verify_mdoc_cbor", p, None, None, result)
    BY DEF IInv, ReportMade, CborReport
  <2> DEFINE result == report.result
  <2>2. report.presentation = p /\ result \in CborResults(p)
    BY <2>1 DEF Report
  <2> HIDE DEF result
  <2>3. CASE Parses(p)
    <3>1. result \in {Returned(fields) : fields \in MdlFields(p.docs)}
      BY <2>2, <2>3 DEF CborResults
    <3>2. "returned" \in DOMAIN result
      BY <3>1 DEF Returned
    <3> QED BY <2>2, <2>3, <3>2 DEF result
  <2>4. CASE ~Parses(p)
    BY <2>2, <2>4 DEF CborResults, Raised, result
  <2> QED BY <2>3, <2>4
<1> QED BY <1>1, Invariant, PTL

(* Verifiers accept as if they saw the holders' answers only               *)
(* (KeepsExchange): every step is one of PresentationExchange or not seen  *)
(* there, for any number of presentations, damaged and repeated at will.   *)
THEOREM ExchangeKept == Spec => KeepsExchange
<1>1. Init => Exchange!Init
  BY DEF Init, Exchange!Init
<1>2. IInv /\ [Next]_vars => [Exchange!Next]_(Exchange!vars)
  <2> SUFFICES ASSUME IInv, [Next]_vars
               PROVE  Exchange!Next \/ UNCHANGED Exchange!vars
    OBVIOUS
  <2>1. CASE UNCHANGED vars
    BY <2>1 DEF vars, Exchange!vars
  <2> QED BY <2>1, HolderRefines, VerifierRefines DEF Next, Exchange!Next
<1> QED BY <1>1, <1>2, Invariant, PTL DEF Spec, KeepsExchange, Exchange!Spec
=============================================================================
