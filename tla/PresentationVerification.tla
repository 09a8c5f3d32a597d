---------------------- MODULE PresentationVerification ----------------------
(***************************************************************************)
(* Verifying what holders present (src/mdoc/verification.rs, sd_jwt.rs,    *)
(* oid4vci.rs, bbs.rs, lib.rs).                                            *)
(*                                                                         *)
(* A verifier opens a session by sending a request with a nonce; a holder  *)
(* answers with a presentation: an mdoc DeviceResponse, an SD-JWT, a VP    *)
(* token or a BBS proof.  Presentations arrive late, more than once, in    *)
(* another session than the one they were made for, or damaged.  Each      *)
(* binding gets a presentation and what it is to be held against from the  *)
(* verifier, and hands both to Marty Core, which decides; whether that     *)
(* decision is about this presentation, this session and these trust       *)
(* anchors is up to the arguments the binding passes and to the results    *)
(* it picks from the answer.                                               *)
(***************************************************************************)
EXTENDS Integers, Sequences, FiniteSets

CONSTANTS
  Sessions,    (* requests: a verifier and the nonce it drew                *)
  Roots,       (* certificates of authorities                               *)
  Issuers,     (* certificates that sign mdocs                              *)
  RootOf,      (* the root an issuer's certificate chains to                *)
  DocLists,    (* the sequences of mdocs a wallet puts into one response    *)
  Trusts,      (* what verifiers trust: roots and pinned certificates       *)
  Keys,        (* public keys, [family, id]; family "none" for no PEM       *)
  Algorithms,  (* the names of algorithms callers use                       *)
  Claims,      (* claims of SD-JWTs                                         *)
  BbsLists,    (* the messages of the signed BBS credentials                *)
  IndexLists,  (* lists of indices holders reveal                           *)
  Suites,      (* BBS ciphersuites                                          *)
  None,        (* an optional argument that is not given                    *)
  MaxSent      (* bound: how many presentations there are                   *)

ASSUME SessionsAssumption ==
  \A s \in Sessions : s = [verifier |-> s.verifier, nonce |-> s.nonce]
ASSUME NoneAssumption ==
  /\ None \notin Sessions
  /\ \A s \in Sessions : None # s.nonce /\ None # s.verifier
  /\ \A t \in Trusts : None # t.pinned
ASSUME TrustAssumption ==
  /\ RootOf \in [Issuers -> Roots]
  /\ \A t \in Trusts : t.roots \subseteq Roots \cup Issuers /\ t.pinned \subseteq Roots \cup Issuers
ASSUME DocListsAssumption ==
  \A docs \in DocLists :
    /\ Len(docs) \in Nat \ {0} /\ DOMAIN docs = 1..Len(docs)
    /\ \A i \in DOMAIN docs : docs[i].issuer \in Issuers

VARIABLES
  sent,      (* the presentations on their way, for ever deliverable        *)
  accepted,  (* what verifiers have accepted, and in which session          *)
  report     (* what a binding has returned and its caller has not used yet *)

vars == <<sent, accepted, report>>

-----------------------------------------------------------------------------
(* Presentations.  "session" is the session a presentation was made for,   *)
(* "damage" what a transmission error has hit: the syntax, the signature   *)
(* of the issuer or that of the holder.                                    *)

Damages == {"none", "syntax", "issuer", "holder"}

IssuerKeys == {k \in Keys : k.family # "none"}

MdocResponses == [format : {"mdoc"}, docs : DocLists, session : Sessions, damage : Damages]
SdJwts        == [format : {"sd_jwt"}, key : IssuerKeys, disclosed : SUBSET Claims,
                  session : Sessions \cup {None}, damage : Damages]
VpTokens      == [format : {"vp_jwt"}, holderKey : BOOLEAN, session : Sessions, damage : Damages]

(* A proof reveals messages that there are; indices count from 0.          *)
InRange(indices, messages) == \A j \in DOMAIN indices : indices[j] < Len(messages)

BbsProofs ==
  {p \in [format : {"bbs"}, messages : BbsLists, indices : IndexLists,
          suite : Suites, session : Sessions, damage : Damages] : InRange(p.indices, p.messages)}

Presentations == MdocResponses \cup SdJwts \cup VpTokens \cup BbsProofs

Send(p) == Cardinality(sent) < MaxSent /\ sent' = sent \cup {p}

(* External: a holder's own software answers a session.                    *)
Answer(p) ==
  /\ p.damage = "none" /\ p.session # None
  /\ p.format # "bbs"
  /\ Send(p)
  /\ UNCHANGED <<accepted, report>>

(* External: a copy of a presentation is damaged on its way.               *)
Damage(p, d) ==
  /\ p.damage = "none"
  /\ Send([p EXCEPT !.damage = d])
  /\ UNCHANGED <<accepted, report>>

Idle == [call |-> "none"]

Report(call, p, s, args, result) ==
  [call |-> call, presentation |-> p, session |-> s, args |-> args, result |-> result]

(* A binding is called and returns; what it is called with is kept.        *)
Return(call, p, s, args, result) ==
  /\ report = Idle
  /\ report' = Report(call, p, s, args, result)

Raised(exception) == [raised |-> exception]
Returned(value)   == [returned |-> value]

-----------------------------------------------------------------------------
(* External (marty_verification::mdoc): the decisions on a DeviceResponse. *)
(* Trust in an issuer comes from the root its chain ends in, or from its   *)
(* own certificate being pinned.  What else a result says of the documents *)
(* (their types, their revocation, the error) the bindings copy as well;   *)
(* it decides nothing here and is left out.                                *)

SessionTranscript(s) == <<"SessionTranscript", s>>

Parses(p) == p.damage # "syntax"

IssuerSigned(p) == Parses(p) /\ p.damage # "issuer"

IssuersTrusted(p, roots, pinned) ==
  /\ Parses(p)
  /\ \A i \in DOMAIN p.docs : RootOf[p.docs[i].issuer] \in roots \/ p.docs[i].issuer \in pinned

CoreIssuerResult(p, roots, pinned) ==
  [signature_valid   |-> IssuerSigned(p),
   issuer_trusted    |-> IssuersTrusted(p, roots, pinned),
   document_evidence |-> IF IssuerSigned(p) THEN p.docs ELSE <<>>]

CorePresentationResult(p, transcript, roots, pinned) ==
  [issuer_signature_valid      |-> IssuerSigned(p),
   issuer_trusted              |-> IssuersTrusted(p, roots, pinned),
   device_authentication_valid |-> /\ Parses(p) /\ p.damage # "holder"
                                   /\ SessionTranscript(p.session) = transcript,
   document_evidence           |-> IF IssuerSigned(p) THEN p.docs ELSE <<>>]

-----------------------------------------------------------------------------
(* The bindings of verification.rs that verify.  Each copies the fields of *)
(* Core's result.                                                          *)

(* Mutation: the two lists of certificates are exchanged.                  *)
MdocPresentationExchanged(p, s, t) ==
  CorePresentationResult(p, SessionTranscript(s), t.pinned, t.roots)

(* Mutation: the transcript is the one the response brings along.          *)
MdocPresentationOwnTranscript(p, s, t) ==
  CorePresentationResult(p, SessionTranscript(p.session), t.roots, t.pinned)

MdocPresentation(p, s, t) ==
  CorePresentationResult(p, SessionTranscript(s), t.roots, t.pinned)

VerifyMdocPresentation(p, s, t) ==
  /\ p.format = "mdoc"
  /\ Return("verify_mdoc_presentation", p, s, t, MdocPresentation(p, s, t))
  /\ UNCHANGED <<sent, accepted>>

(* Issuer authentication of a stored mdoc; the pinned list may be left out.*)
MdocIssuer(p, roots, pinned) ==
  CoreIssuerResult(p, roots, IF pinned = None THEN {} ELSE pinned)

VerifyMdocIssuer(p, roots, pinned) ==
  /\ p.format = "mdoc"
  /\ Return("verify_mdoc_issuer", p, None, [roots |-> roots, pinned |-> pinned],
            MdocIssuer(p, roots, pinned))
  /\ UNCHANGED <<sent, accepted>>

Compatible(result) ==
  [signature_valid   |-> result.signature_valid,
   issuer_verified   |-> result.issuer_trusted,
   document_evidence |-> result.document_evidence]

(* Mutation: the certificates are pinned instead of trusted as roots.      *)
MdocSignaturePinned(p, roots) == Compatible(CoreIssuerResult(p, {}, roots))

MdocSignature(p, roots) == Compatible(CoreIssuerResult(p, roots, {}))

VerifyMdocSignature(p, roots) ==
  /\ p.format = "mdoc"
  /\ Return("verify_mdoc_signature", p, None, [roots |-> roots, pinned |-> None],
            MdocSignature(p, roots))
  /\ UNCHANGED <<sent, accepted>>

-----------------------------------------------------------------------------
(* The bindings that read.  namespaces of an mdoc: the elements and their  *)
(* values, by namespace.                                                   *)

WithNamespace(docs, ns) == {i \in DOMAIN docs : ns \in DOMAIN docs[i].namespaces}

NamespaceNames(docs) == UNION {DOMAIN docs[i].namespaces : i \in DOMAIN docs}

(* Mutation: the dicts of one namespace are merged.                        *)
AllNamespacesMerged(docs) ==
  [ns \in NamespaceNames(docs) |->
     LET Holding(e) == {i \in WithNamespace(docs, ns) : e \in DOMAIN docs[i].namespaces[ns]}
     IN  [e \in UNION {DOMAIN docs[i].namespaces[ns] : i \in WithNamespace(docs, ns)} |->
            docs[CHOOSE i \in Holding(e) : TRUE].namespaces[ns][e]]]

(* get_all_namespaces sets the dict of a namespace once for every document *)
(* that has it: the last one stays.                                        *)
AllNamespaces(docs) ==
  [ns \in NamespaceNames(docs) |->
     LET last == CHOOSE i \in WithNamespace(docs, ns) : \A j \in WithNamespace(docs, ns) : j <= i
     IN  docs[last].namespaces[ns]]

GetAllNamespaces(p) ==
  /\ p.format = "mdoc" /\ Parses(p)
  /\ Return("get_all_namespaces", p, None, None, Returned(AllNamespaces(p.docs)))
  /\ UNCHANGED <<sent, accepted>>

MdlNamespace == "org.iso.18013.5.1"

(* External: the fields are those of one document that has the namespace;  *)
(* without such a document they are none, or an error.                     *)
MdlFields(docs) ==
  IF WithNamespace(docs, MdlNamespace) = {}
  THEN {[e \in {} |-> None]}
  ELSE {docs[i].namespaces[MdlNamespace] : i \in WithNamespace(docs, MdlNamespace)}

GetMdlFields(p) ==
  /\ p.format = "mdoc" /\ Parses(p)
  /\ \E fields \in MdlFields(p.docs) : Return("get_mdl_fields", p, None, None, Returned(fields))
  /\ UNCHANGED <<sent, accepted>>

VerifyMdocCbor(p) ==
  /\ p.format = "mdoc" /\ Parses(p)
  /\ \E fields \in MdlFields(p.docs) : Return("verify_mdoc_cbor", p, None, None, Returned(fields))
  /\ UNCHANGED <<sent, accepted>>

(* Bytes that do not parse, and a response without the fields asked for.   *)
ReadingFails(call, p) ==
  /\ p.format = "mdoc"
  /\ \/ ~Parses(p)
     \/ call # "get_all_namespaces" /\ WithNamespace(p.docs, MdlNamespace) = {}
  /\ Return(call, p, None, None, Raised("RuntimeError"))
  /\ UNCHANGED <<sent, accepted>>

-----------------------------------------------------------------------------
(* SD-JWT.  The algorithm selects how the PEM is read, and nothing else.   *)

KeyFamily ==
  [ES256 |-> "EC",  ES384 |-> "EC",  EdDSA |-> "Ed",
   RS256 |-> "RSA", RS384 |-> "RSA", RS512 |-> "RSA",
   PS256 |-> "RSA", PS384 |-> "RSA", PS512 |-> "RSA"]

DecodingKeyFails(pem, algorithm) ==
  algorithm \notin DOMAIN KeyFamily \/ KeyFamily[algorithm] # pem.family

(* External (sd-jwt-rs): SDJWTVerifier::new.  The holder's signature over  *)
(* audience and nonce is checked when both are expected; when only one is, *)
(* the library may refuse or ignore it.                                    *)
IssuerKeyVerifies(p, pem) == p.damage \notin {"syntax", "issuer"} /\ p.key = pem

SdJwtVerifierNew(p, pem, audience, nonce) ==
  IF ~IssuerKeyVerifies(p, pem) THEN {Raised("RuntimeError")}
  ELSE IF audience = None /\ nonce = None THEN {Returned(p.disclosed)}
  ELSE IF audience = None \/ nonce = None THEN {Returned(p.disclosed), Raised("RuntimeError")}
  ELSE IF /\ p.session # None /\ p.damage # "holder"
          /\ p.session.verifier = audience /\ p.session.nonce = nonce
       THEN {Returned(p.disclosed)}
       ELSE {Raised("RuntimeError")}

(* Mutation: nonce and audience are exchanged.                             *)
SdJwtResultsExchanged(p, pem, algorithm, nonce, audience) ==
  IF DecodingKeyFails(pem, algorithm) THEN {Raised("ValueError")}
  ELSE SdJwtVerifierNew(p, pem, nonce, audience)

(* Mutation: the nonce is passed on only to an audience of its own.        *)
SdJwtResultsUnbound(p, pem, algorithm, nonce, audience) ==
  IF DecodingKeyFails(pem, algorithm) THEN {Raised("ValueError")}
  ELSE SdJwtVerifierNew(p, pem, None, None)

SdJwtResults(p, pem, algorithm, nonce, audience) ==
  IF DecodingKeyFails(pem, algorithm) THEN {Raised("ValueError")}
  ELSE SdJwtVerifierNew(p, pem, audience, nonce)

(* "expects" names the optional arguments that are given.                  *)
Given(name, value, expects) == IF name \in expects THEN value ELSE None

(* The default algorithm is ES256.                                         *)
VerifySdJwt(p, pem, algorithm, s, expects) ==
  /\ p.format = "sd_jwt"
  /\ \E result \in SdJwtResults(p, pem, IF algorithm = None THEN "ES256" ELSE algorithm,
                                Given("nonce", s.nonce, expects),
                                Given("audience", s.verifier, expects)) :
       Return("verify_sd_jwt", p, s,
              [pem |-> pem, algorithm |-> algorithm, expects |-> expects], result)
  /\ UNCHANGED <<sent, accepted>>

(* Disclosing claims of a stored SD-JWT, without a holder's signature: a   *)
(* nonce or an audience to bind the presentation to is refused.  Where the *)
(* SD-JWT does not parse or has not all the fields, Core fails.            *)
SdJwtCreatePresentation(key, fields, s, binds) ==
  /\ \/ /\ binds = {}
        /\ Send([format |-> "sd_jwt", key |-> key, disclosed |-> fields,
                 session |-> None, damage |-> "none"])
        /\ Return("sd_jwt_create_presentation", None, s, binds, Returned(fields))
     \/ /\ Return("sd_jwt_create_presentation", None, s, binds,
                  Raised(IF binds # {} THEN "ValueError" ELSE "RuntimeError"))
        /\ UNCHANGED sent
  /\ UNCHANGED accepted

-----------------------------------------------------------------------------
(* VP tokens                                                               *)

(* External (marty_oid4vci): the engine of a verifier checks audience,     *)
(* nonce and the signature by the key the token carries.                   *)
EngineVerifies(verifier, p, nonce) ==
  /\ p.damage = "none" /\ p.holderKey
  /\ p.session.verifier = verifier /\ p.session.nonce = nonce

(* Mutation: the nonce that is expected is the one the token has.          *)
VpTokenValidOwnNonce(p, s) == EngineVerifies(s.verifier, p, p.session.nonce)

VpTokenValid(p, s) == EngineVerifies(s.verifier, p, s.nonce)

VerifyVpTokenJwt(p, s) ==
  /\ p.format = "vp_jwt"
  /\ Return("verify_vp_token_jwt", p, s, None, Returned(VpTokenValid(p, s)))
  /\ UNCHANGED <<sent, accepted>>

-----------------------------------------------------------------------------
(* BBS.  Indices are in ascending order.  Issuer and signed header are the *)
(* same everywhere and left out; a public key that does not parse is the   *)
(* RuntimeError of a proof that does not verify.                           *)

Revealed(messages, indices) == [j \in DOMAIN indices |-> messages[indices[j] + 1]]

(* Mutation: the suite is passed on as it is.                              *)
BbsCreateProofAnySuite(messages, indices, s, suite) ==
  /\ InRange(indices, messages)
  /\ Send([format |-> "bbs", messages |-> messages, indices |-> indices,
           suite |-> suite, session |-> s, damage |-> "none"])
  /\ Return("bbs_create_proof", None, s, [indices |-> indices, suite |-> suite], Returned(TRUE))
  /\ UNCHANGED accepted

(* The nonce of the session is the presentation header.  A suite that does *)
(* not exist is a ValueError, an index out of range a RuntimeError.        *)
BbsCreateProof(messages, indices, s, suite) ==
  /\ IF suite \in Suites /\ InRange(indices, messages)
     THEN Send([format |-> "bbs", messages |-> messages, indices |-> indices,
                suite |-> suite, session |-> s, damage |-> "none"])
     ELSE UNCHANGED sent
  /\ Return("bbs_create_proof", None, s, [indices |-> indices, suite |-> suite],
            IF suite \notin Suites THEN Raised("ValueError")
            ELSE IF InRange(indices, messages) THEN Returned(TRUE) ELSE Raised("RuntimeError"))
  /\ UNCHANGED accepted

(* Mutation: the presentation header is the header of the signature.       *)
BbsProofResultUnbound(p, indices, messages, s, suite) ==
  IF suite \notin Suites THEN Raised("ValueError")
  ELSE IF p.damage = "none" /\ p.suite = suite /\ p.indices = indices
          /\ messages = Revealed(p.messages, p.indices)
       THEN Returned(TRUE)
       ELSE Raised("RuntimeError")

(* External (marty_crypto) but for the suite: the proof verifies for the   *)
(* indices and messages it reveals and the header it was made with.        *)
BbsProofResult(p, indices, messages, s, suite) ==
  IF suite \notin Suites THEN Raised("ValueError")
  ELSE IF p.damage = "none" /\ p.suite = suite /\ p.indices = indices
          /\ messages = Revealed(p.messages, p.indices) /\ p.session.nonce = s.nonce
       THEN Returned(TRUE)
       ELSE Raised("RuntimeError")

BbsVerifyProof(p, indices, messages, s, suite) ==
  /\ p.format = "bbs"
  /\ Return("bbs_verify_proof", p, s,
            [indices |-> indices, messages |-> messages, suite |-> suite],
            BbsProofResult(p, indices, messages, s, suite))
  /\ UNCHANGED <<sent, accepted>>

-----------------------------------------------------------------------------
(* External: the verifier looks at what a binding returned, and accepts a  *)
(* presentation when every check of a session that it asked for succeeded. *)

Passed ==
  \/ /\ report.call = "verify_mdoc_presentation"
     /\ report.result.issuer_signature_valid
     /\ report.result.issuer_trusted
     /\ report.result.device_authentication_valid
  \/ /\ report.call = "verify_sd_jwt"
     /\ report.args.expects = {"nonce", "audience"}
     /\ "returned" \in DOMAIN report.result
  \/ report.call = "verify_vp_token_jwt" /\ report.result.returned
  \/ report.call = "bbs_verify_proof" /\ "returned" \in DOMAIN report.result

Decide ==
  /\ report # Idle
  /\ accepted' = accepted \cup
       IF Passed THEN {[presentation |-> report.presentation, session |-> report.session]} ELSE {}
  /\ report' = Idle
  /\ UNCHANGED sent

-----------------------------------------------------------------------------
Init ==
  /\ sent = {}
  /\ accepted = {}
  /\ report = Idle

Holder ==
  \/ \E p \in Presentations : Answer(p)
  \/ \E p \in sent, d \in Damages \ {"none"} : Damage(p, d)
  \/ \E key \in IssuerKeys, fields \in SUBSET Claims, s \in Sessions,
       binds \in SUBSET {"nonce", "audience"} :
       SdJwtCreatePresentation(key, fields, s, binds)
  \/ \E messages \in BbsLists, indices \in IndexLists, s \in Sessions,
       suite \in Suites \cup {None} :
       BbsCreateProof(messages, indices, s, suite)

MdocVerifier ==
  \/ \E p \in sent, s \in Sessions, t \in Trusts : VerifyMdocPresentation(p, s, t)
  \/ \E p \in sent, t \in Trusts : \E pinned \in {t.pinned, None} :
       VerifyMdocIssuer(p, t.roots, pinned)
  \/ \E p \in sent, t \in Trusts : VerifyMdocSignature(p, t.roots)
  \/ \E p \in sent : GetAllNamespaces(p) \/ GetMdlFields(p) \/ VerifyMdocCbor(p)
  \/ \E p \in sent, call \in {"get_all_namespaces", "get_mdl_fields", "verify_mdoc_cbor"} :
       ReadingFails(call, p)

TokenVerifier ==
  \/ \E p \in sent, pem \in Keys, algorithm \in Algorithms \cup {None}, s \in Sessions,
       expects \in SUBSET {"nonce", "audience"} : VerifySdJwt(p, pem, algorithm, s, expects)
  \/ \E p \in sent, s \in Sessions : VerifyVpTokenJwt(p, s)
  \/ \E p \in sent, messages \in BbsLists, indices \in IndexLists, s \in Sessions,
       suite \in Suites \cup {None} :
       /\ InRange(indices, messages)
       /\ BbsVerifyProof(p, indices, Revealed(messages, indices), s, suite)

Next == Holder \/ MdocVerifier \/ TokenVerifier \/ Decide

Spec == Init /\ [][Next]_vars

-----------------------------------------------------------------------------
TypeOK ==
  /\ sent \subseteq Presentations
  /\ accepted \subseteq [presentation : sent, session : Sessions]
  /\ "call" \in DOMAIN report

-----------------------------------------------------------------------------
(* Safety                                                                  *)

(* Made by a holder for a session, and undamaged.                          *)
Genuine(p) == p.damage = "none" /\ p.session # None

(* Whether that session is s.  (A BBS proof knows of the nonce only.)      *)
AnswersTo(p, s) ==
  IF p.format = "bbs" THEN p.session.nonce = s.nonce ELSE p.session = s

(* What a verifier accepts was made by the holder for the very request the *)
(* verifier holds it against, and arrived undamaged: no presentation made  *)
(* for one session passes in another, neither one with another nonce nor   *)
(* one of another verifier, and none without a holder's signature passes   *)
(* at all.                                                                 *)
AcceptedAnswersItsSession ==
  \A a \in accepted : Genuine(a.presentation) /\ AnswersTo(a.presentation, a.session)

(* What was made for a session, arrives undamaged and is held against it   *)
(* with the right key, anchors or lists is accepted: no argument is lost   *)
(* or exchanged between the caller and Core.                               *)
RightArguments ==
  LET p    == report.presentation
      args == report.args
  IN  \/ /\ report.call = "verify_mdoc_presentation"
         /\ IssuersTrusted(p, args.roots, args.pinned)
      \/ /\ report.call = "verify_sd_jwt"
         /\ args.pem = p.key
         /\ args.expects = {"nonce", "audience"}
         /\ IF args.algorithm = None
            THEN p.key.family = "EC"
            ELSE /\ args.algorithm \in DOMAIN KeyFamily
                 /\ KeyFamily[args.algorithm] = p.key.family
      \/ report.call = "verify_vp_token_jwt" /\ p.holderKey
      \/ /\ report.call = "bbs_verify_proof"
         /\ args.suite = p.suite /\ args.indices = p.indices
         /\ args.messages = Revealed(p.messages, p.indices)

GenuineIsAccepted ==
  /\ RightArguments
  /\ report.presentation.damage = "none"
  /\ report.presentation.session = report.session
  => Passed

(* The three bindings that authenticate issuers agree on one response: on  *)
(* the signatures always, on trust when they are given the same anchors;   *)
(* a certificate that is pinned vouches for itself and for no other, and   *)
(* leaving the list of pinned certificates out pins none.                  *)
BindingsAgree ==
  \A p \in {q \in sent : q.format = "mdoc"}, t \in Trusts, s \in Sessions :
    LET presentation == MdocPresentation(p, s, t)
        issuer       == MdocIssuer(p, t.roots, t.pinned)
        unpinned     == MdocIssuer(p, t.roots, None)
        signature    == MdocSignature(p, t.roots)
    IN  /\ presentation.issuer_signature_valid = issuer.signature_valid
        /\ presentation.issuer_trusted = issuer.issuer_trusted
        /\ presentation.document_evidence = issuer.document_evidence
        /\ signature.signature_valid = unpinned.signature_valid
        /\ signature.issuer_verified = unpinned.issuer_trusted
        /\ unpinned.issuer_trusted => issuer.issuer_trusted
        /\ issuer.issuer_trusted /\ ~unpinned.issuer_trusted =>
             \E i \in DOMAIN p.docs : p.docs[i].issuer \in t.pinned

(* get_all_namespaces misses no namespace, and the dict it returns for one *)
(* is that of one document: it never combines elements of two documents,   *)
(* which may be of different issuers, to one set of attributes.            *)
NamespacesAreNotMixed ==
  report.call = "get_all_namespaces" /\ "returned" \in DOMAIN report.result =>
    LET all == report.result.returned
        docs == report.presentation.docs
    IN  /\ DOMAIN all = NamespaceNames(docs)
        /\ \A ns \in DOMAIN all :
             \E i \in WithNamespace(docs, ns) : all[ns] = docs[i].namespaces[ns]

GenuinePresentations == {p \in Presentations : Genuine(p)}

Exchange ==
  INSTANCE PresentationExchange WITH Answers  <- GenuinePresentations,
                                     answered <- {p \in sent : Genuine(p)}

(* However presentations are damaged, delayed, repeated and taken to other *)
(* sessions, and whatever verifiers ask the bindings first: they accept as *)
(* if they saw nothing but the holders' answers (PresentationExchange).    *)
KeepsExchange == Exchange!Spec

-----------------------------------------------------------------------------
(* What the documentation says and the code does not do                    *)

(* "Get all namespaces and their items" (verification.rs): every element   *)
(* of every document is in the result.                                      *)
AllItemsAreReturned ==
  report.call = "get_all_namespaces" /\ "returned" \in DOMAIN report.result =>
    LET docs == report.presentation.docs
        all  == report.result.returned
    IN  \A i \in DOMAIN docs : \A ns \in DOMAIN docs[i].namespaces :
          \A e \in DOMAIN docs[i].namespaces[ns] :
            ns \in DOMAIN all /\ e \in DOMAIN all[ns]

(* "Verify an mDoc and return the extracted fields" (verify_mdoc_cbor):    *)
(* fields are returned only of a response whose issuer signature verifies. *)
VerifiedFieldsAreSigned ==
  /\ report.call = "verify_mdoc_cbor"
  /\ "returned" \in DOMAIN report.result
  /\ DOMAIN report.result.returned # {}
  => IssuerSigned(report.presentation)
=============================================================================
