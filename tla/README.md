# TLA+ models of marty-credentials

This directory holds TLA+ specifications of the stateful parts of the
repository, TLC models that check them on small instances, and TLAPS proofs
about them. It says first what the system consists of, then which module models
what, what each run and each theorem shows, and what is left out.

`tlc -config X.cfg M` checks a model, `tlapm M.tla` the proofs of a module.

## 1. The system

marty-credentials is the Python (and WebAssembly) face of Marty Core: a Rust
crate, `rust/marty-rs`, that exposes issuing and verifying digital credentials.
Cryptographic decisions are made in Marty Core, a pinned dependency whose source
is not in the repository; what the crate does itself is prepare and assemble
mobile documents around a signature that an HSM makes elsewhere, and translate
everything else. Around the crate, scripts and workflows build and test it.

| Component | State | Operations | Interacts with | Hard about it |
|---|---|---|---|---|
| mdoc split signing (`mdoc/bindings.rs`, `document.rs`, `helpers.rs`, `types.rs`) | `MdocPreparedForHsm` objects in the memory of one process | `prepare_mdoc_for_hsm`, `get_tbs_data`, `complete_with_signature` | builder (call), HSM (through the caller, asynchronously), wallets (the document) | answers that are late, repeated or exchanged; restarts; two enumerations of the claims that must agree |
| DER to COSE (`helpers.rs`) | none | `der_to_cose_signature` | split signing | lengths from the input, leading zeros, truncation |
| `MdocBuilder` (`mdoc/builder.rs`, `types.rs`) | namespaces, validity, device key | `add_namespace`, `set_validity`, `set_device_key`, `build_issuer_signed`, `get_tbs_data` | Python code (conversions call back) | shared by threads, re-entered from conversions, partial failure |
| Verification of presentations (`mdoc/verification.rs`, `sd_jwt.rs`, `oid4vci.rs`, `bbs.rs`, `lib.rs`) | a parsed response; the verifier's sessions are the caller's | parse, getters, `verify_mdoc_*`, `verify_sd_jwt`, `sd_jwt_create_presentation`, `verify_vp_token_jwt`, `bbs_create_proof`, `bbs_verify_proof` | Marty Core (decides), holders (presentations), verifiers (sessions, trust) | presentations that are late, repeated, damaged or of another session; arguments of the same type in different orders; results of several documents combined |
| Errors and tracing (`error.rs`, `lib.rs`) | the span captured in an error, the process-wide subscriber | make, report, log, convert to an exception; `init_tracing` | Rust code that links the crate, Python, `tracing` | converted later, on another thread and in another span; initialised by two parties; five tables kept by hand |
| OID4VCI issuance (`oid4vci.rs`), canonical verification, status lists, WebAssembly | none of their own | one call of Marty Core each | Marty Core | translation of arguments |
| Retry of CI commands (`scripts/retry-command.sh`) | attempt counter, status | run, decide, sleep | the command | off-by-one, lost status, endless retry |
| Private fork access (`.github/scripts/private-forks.py`) | environment of a step | check, fetch, update-core, credential | cargo, git | failure between manifests, who holds the credential |
| CI pipeline (`.github/workflows`) | caches, artifacts, job results | restore, build, validate, upload, test, gate | caches shared by runs | cancelled and failed lanes, caches saved by another run |
| Core dependency check (`scripts/ci/check_core_kms_graph.py`) | none | `check` | cargo metadata | predicate |

How the parts meet. An issuing service calls `prepare_mdoc_for_hsm`, which fills
an `MdocBuilder` and keeps the bytes to sign; the service sends these bytes to
its HSM over a channel of its own, and hands the DER signature it gets to
`complete_with_signature`, which converts it (`der_to_cose_signature`) and
returns the DeviceResponse a wallet stores. Everything a preparation consists of
is in memory; nothing but the caller's variables connects an answer to it.
Building and testing meet through the caches and artifacts of CI: both workflows
fill one cache of Core wheels, the Python tests install what their own run
uploaded, network commands go through `retry-command.sh`.

A verifier draws a nonce for a session and keeps it with its own identity and its
trust anchors. What comes back from the holder it hands to a binding together
with these; the binding passes all of it on to Marty Core and returns Core's
result, or raises. The issuing side and the verifying side meet in the mdoc only:
what `complete_with_signature` returns to a wallet is what a wallet puts into a
response, which is abstracted here to its issuer and its namespaces.

What makes each part correct:

* **Split signing.** What the HSM is asked to sign commits to the whole request,
  and what is issued from a preparation is that content; a document whose
  signature verifies was approved for exactly that preparation; completing twice
  is harmless; digests name the items they are digests of.
* **DER to COSE.** A whole signature becomes exactly the two numbers the signer
  computed; a damaged one is refused, with an error.
* **Builder.** A call takes effect at once and whole or not at all, whoever
  shares the builder. A conversion may change the dict: as long as it keeps the
  keys, the namespace has all of them; if it takes some out and puts as many in,
  the namespace has keys the dict had at some time of the call, no more than the
  dict has, and perhaps not the ones it has at the end; if the size changes, the
  call panics. The builder always becomes usable again.
* **Retry.** The status tells what happened, the number of attempts is the
  configured one, the script ends.
* **CI wheels.** What lies under a cache key is what the key says; a gate that
  passes vouches for tests of the pinned wheels; every run gets a verdict.
* **Presentations.** A verifier accepts nothing but an undamaged answer to the
  session it holds it against, and every such answer; the bindings agree on the
  anchors they are given, and attributes of two documents are never mixed.
* **Errors.** What is shown of an error names where it failed; an exception that
  the log's filter lets through is in the log, and every line has one call of
  `log()` or the conversion to account for it; the tables agree. The bindings of
  this crate raise Python exceptions themselves: `MartyError` is exported for Rust
  code that links the crate, and none of the other parts makes one.
* **Private forks, KMS graph** (not modelled): the source credential is in the
  environment of no step that runs foreign code; a forbidden dependency is found
  wherever it is reachable.

## 2. Modules

| Module | Models | Extends / instantiates |
|---|---|---|
| `MdocData` | pure functions: Python value to CBOR, items, MSO, COSE_Sign1, DeviceResponse | |
| `MdocHsmSigning` | preparations, signer, completions, restarts | extends `MdocData`, implements `SplitSigning` |
| `SplitSigning` | the promise of split signing, without salts, digests and signatures | |
| `DerSignature` | `der_to_cose_signature`, byte by byte | |
| `MdocBuilder` | one builder shared by threads and re-entered by conversions | implements `AtomicBuilder` |
| `AtomicBuilder` | the promise of the builder: atomic calls | |
| `RetryCommand` | `scripts/retry-command.sh` | |
| `CoreWheelPipeline` | Core wheel jobs, their cache, Python tests, gate, concurrency groups | implements `WheelPromise` |
| `WheelPromise` | the promise of the pipeline: every run has wheels of its own | |
| `PresentationVerification` | sessions, presentations on their way, the bindings that verify and read them, a verifier that decides | implements `PresentationExchange` |
| `PresentationExchange` | the promise of verification: what a verifier accepts is what a holder answered it | |
| `MartyErrors` | errors from where they are made to the exception, their tables, the subscriber of tracing | |
| `MC...` | instances for TLC | extend the module they instantiate |
| `...Proofs` | theorems | extend the module they are about |

The modules abstract each other where they meet. `MdocHsmSigning` calls the
builder in one step, since `prepare_mdoc_for_hsm` has a builder of its own that
no other thread sees; `MdocBuilder` is about the builders that Python code makes
and shares. `MdocHsmSigning` keeps of a signature whether its integers fit
(`DerToCose`), `DerSignature` has the bytes.

### Correspondence with the code

`PROJECT.json` maps every definition to its lines. In short:

* **`MdocData`.** `PythonToCbor` takes the first extraction of `ConversionOrder`
  that succeeds (`types.rs`), `CreateIssuerSignedItems` numbers the claims in
  BTreeMap order, `CreateMobileSecurityObject` takes a digest of every item and
  cuts instants to seconds (`helpers.rs`), of which one too late to be a date
  (`LastSecond`) is an error, `BuildDeviceResponse` and `ResponseError` are
  `document.rs`. Hashes are symbolic: two digests are equal
  when algorithm, encoding and item are. Salts are the number of the draw and
  the place, so that two draws never coincide, as with 128 random bits.
  CBOR encodings and the texts of errors are left out.
* **`MdocHsmSigning`.** `prepared` is the caller's variables and the objects they
  hold; `drawn` counts calls of `create_issuer_signed_items`, two per
  preparation and one for a request whose MSO fails; `asked` and `answers` are
  what went to and came from the HSM, and only grow, because any message may be
  delivered late or again; `documents` is what was handed out, each with the
  preparation it came from. `PrepareMdocForHsm`/`PrepareRejected`,
  `RequestSignature`, `CompleteWithSignature`/`CompleteRejected` are the methods
  with their success and error paths; `HsmSign` and `Restart` are external.
* **`DerSignature`.** Positions are those of the code. A read or a slice beyond
  the end is the status "Panic", as the indexing of Rust has it.
* **`MdocBuilder`.** `add_namespace` takes a step per claim, because converting
  one may run Python code: in between, others change the dict (`Python`) or call
  the builder (`CallWhileBorrowed`, refused by PyO3's borrow check).
  `adding` holds the local variables of the call and PyO3's iterator with both its
  checks, the size and the count of entries that remain; after a key came or went
  the iterator may meet any entry, since what is where in the table is CPython's
  business. `keys` and `stable` are histories. The digest algorithm is a constant
  in the builder and no field of it; dates are those of `set_validity`, which
  parse or not, and one too late for the MSO is in `MdocHsmSigning` only.
* **`RetryCommand`.** One action per piece of the loop between two commands.
  The limit is checked as a string of digits; beyond the shell's largest integer
  (`IntMax`) the comparison is an error, which counts as no, and the counter
  wraps around.
* **`PresentationVerification`.** One action per function exported to Python; an
  action chooses a presentation among those `sent` and a session, anchors, key or
  lists of the verifier, and leaves arguments and result in `report`. `Decide`,
  the caller's code, looks at the result before the next call. The results of the
  mdoc functions are records of the fields a verifier decides on; document types,
  revocation and the error, which the bindings copy from Core's result as well,
  are left out. The results of the others are a value or an exception. Of BBS the
  issuer's key and the header signed by it are the same everywhere and left out; a
  key that does not parse ends as a proof that does not verify. What Core decides
  (`Core...`, `IssuerSigned`, `IssuersTrusted`, `SdJwtVerifierNew`,
  `EngineVerifies`) is external: a signature verifies if its part of the
  presentation arrived undamaged and what it was made over is what it is held
  against. Nothing is ever removed from `sent`, so that any presentation may
  arrive late, repeatedly and in any session.
* **`MartyErrors`.** `inside` is the span a thread is in and whether a subscriber
  with an ErrorLayer saw it entered; `errors` are values alive somewhere, and any
  thread may convert one, since they are passed along. `madeIn` is a history of
  where an error was made, `logged` one of the calls of `log()` on each. The
  subscriber has the levels its filter lets through and the spans it records,
  which RUST_LOG or the application choose; a line that is not heard is dropped. A
  span stands for the chain of spans around an operation. Display texts are kept
  as the code they begin with.
* **`CoreWheelPipeline`.** `phase` is the concurrency group's view of a run, `job`
  the step a build job is at and the wheels in its `core-wheels` directory,
  `cache` and `artifacts` what outlives a job. Wheels of the revisions in
  `Exporting` export what is expected; only `ci.yml` validates that. `Restore` to
  `Save` are the steps of `build-core-python-wheels` and of the warming job,
  `StepFails` and `CancelJob` end a job anywhere between, `TestPython` and
  `CiGate` are the later jobs. How GitHub schedules, cancels, scopes caches and
  skips jobs is external, modelled from what the workflows rely on.

## 3. Runs

Passing runs:

| Run | Question | Bounds |
|---|---|---|
| `hsm_signing` | Does split signing implement `SplitSigning`, do digest IDs name what is disclosed, does a verifying signature belong to its preparation, when answers are late, repeated, exchanged or malformed and the process restarts? Which values change their type? | 2 handles, 12 requests (4 that are prepared, two of them with empty namespaces, and 8 that are refused), `MaxDraws` = 4, `MaxAnswers` = 2 |
| `der_signature` | Is the conversion exact on whole signatures, of curves narrower and wider than that of COSE too, and does it refuse every prefix? | COSE coordinates of 2 bytes, signers of 1 to 3 bytes over {0, 1, 127, 128}, `LongForm` = 8, every cut |
| `shared_builder` | Do the calls on a shared builder act at once, as the promise says, and is the builder always given back, whatever Python code does to the dict? | 1 name, dicts over 3 keys with a claim that fails, 3 arguments of `set_validity`, 2 device keys |
| `retry` | Status, number of attempts, termination, and that each step uses up one of finitely many | limits 0 to 8, of which 7 and 8 are beyond `IntMax` = 6, four statuses |
| `core_wheels` | Are cached wheels what their key says, does a passing gate vouch for the pinned wheels, are only wheels with validated exports tested, does every run get a verdict, is it final, does the pipeline implement `WheelPromise`? | 6 runs (two of a pull request that changes the revision, a push, a warming run, and a push and a warming run of a revision without the exports), up to 3 in a behaviour, 2 platforms, 3 revisions |
| `presentations` | Is what a verifier accepts an answer to its session, is every genuine answer accepted, do the bindings agree, are documents kept apart, do bindings and network implement `PresentationExchange`? | 3 sessions of 2 verifiers that share a nonce, `MaxSent` = 2, 3 responses of up to two documents, 5 choices of anchors, 3 keys, 3 algorithms, 2 lists of messages, 3 of indices |
| `errors` | Do exceptions and reports name the origin, is each exception that is let through in the log and each line accounted for, do the tables agree? | 2 threads (symmetric), 1 span, 3 variants of the crate's own failures and 3 of other crates' (one of each exception type), 2 filters, `MaxErrors` = 2, `MaxLogs` = 1 |

Runs that TLC must find violated: each checks what a document, a comment or a
test of the repository says, and shows that the code does otherwise.

| Run | The statement | What happens |
|---|---|---|
| `digest_binding` | CHANGELOG.md:115 and :123: value digests authenticate the complete tagged items that are disclosed | items are drawn a second time, with other salts, after the MSO was built (bindings.rs:56-57), and the plain CBOR is hashed (helpers.rs:40): no digest matches |
| `der_truncated` | helpers.rs:185, :191: bad DER is an error | a cut signature of eight bytes or more panics (helpers.rs:223) |
| `namespaces_lost` | verification.rs:79: all namespaces and their items | two documents of a response have the same namespace: the elements of the last only are returned (verification.rs:90) |
| `unverified_fields` | verification.rs:104: verify an mDoc and return the extracted fields | the fields are returned whatever the signatures are (verification.rs:106-123) |
| `validation_level` | error.rs:474: validation errors are expected, log at info/debug | they are logged with `warn!` (error.rs:475), like those of the other kinds that are not serious |

Why the bounds are enough. *Signing*: two preparations (four draws) are what an
exchange of answers takes, two answers are a right one and a wrong or a second
one; the requests contain two namespaces, two claims whose hash order could
differ, a nested value, a boolean, two requests with the same names and exchanged
values, one with an empty namespace and one with nothing else, an instant between
two seconds (`TicksPerSecond` = 2) and one beyond the last. A dict is nested one
level deep, the code treats every level alike. *DER*: what matters of a byte is
zero, top bit, or neither; two bytes are the least width where a zero may be
leading or last; the signers are narrower than COSE, as wide, and wider; the
length at which DER changes to its long form is a constant, 8 instead of 128, so
that short signatures take either form; the properties are proved for every width.
*Builder*: three keys allow a change of the dict before, at and after the
iterator's place; one name allows replacing a namespace. Three keys also let
Python code take out and put in keys between any two steps of the iterator, so
that it meets an entry twice, misses one, or yields one more than the size.
*Retry*: failures are counted up to the limit plus one, so that an endless retry
has finitely many states. *Pipeline*: a cancelled run, its successor and a third
that shares the cache, and separately a warming run that saves wheels before a
push restores them; Linux stands for the platforms where a step's first failure
ends it, Windows for the other; the theorems have any number. *Presentations*: two
of them are what a damaged or a foreign copy beside an original takes; one nonce
shared by two verifiers and two nonces of one are the two ways in which sessions
differ; one issuer is trusted through a root and the other only if pinned.
*Errors*: two errors and two threads are what an error converted while another is
alive, and in another thread's span, takes; the span is distinguished from none
and from one nobody recorded; one call of `log()` beside the conversion is what it
takes to have two lines; one filter drops a level that occurs and one drops none.
Threads are interchangeable in `errors`, which is why symmetry is sound: nothing
but the state of its own span tells one from another, and the run has invariants
only.

Three statements leave out a case on purpose. The `retry` properties are about
limits that the shell can compare; beyond them the script is modelled too, and
never ends if the command keeps failing. `VerdictReached` is about runs that
start: a waiting run that a newer one of its group replaces gets no verdict.
`ConversionIsExact` says of a signer with coordinates wider than COSE's what the
code does (it keeps the first bytes), not that it should.

Fairness. `BorrowIsReturned` assumes `ConversionsReturn`: the Python code that
converts a claim returns; the rest of `add_namespace` is sequential Rust code.
That there are finitely many conversions is not assumed: the iterator panics when
it has yielded more entries than it began with. `Ends` assumes that the shell
proceeds and each attempt of the command ends; the script has no time limit of its
own. `VerdictReached` assumes `Progressing`: while some triggered run can make a
step, some run eventually makes one; the CI service supplies runners and ends jobs
that exceed their time. No fairness is assumed of triggers, evictions, callers or
HSM. Deadlock is checked where the program never stops by itself; conversion,
script and finished pipeline do stop.

No fairness is assumed of presentations and errors: a holder may never answer and
an error may be dropped, and their properties are safety.

Every property of a passing run has a mutant in `PROJECT.json`: a plausible bug
in a mapped definition (operators marked "Mutation" beside the originals) that
makes TLC find the property violated.

## 4. Proofs

`tlapm` proves, for all values of the constants:

| Module | Theorem | Says |
|---|---|---|
| `MdocHsmSigningProofs` | `TypeCorrect`, `SignatureBindsPreparation`, `DigestIdsAgree`, `CompletionIsRepeatable` | the invariants of `hsm_signing`, for any requests, handles and numbers of draws and answers |
| | `BooleansAlone` | `Spec => OnlyBooleansChangeType`, for any requests |
| | `NoDocumentBinds` | how far the finding of `digest_binding` reaches: no document whatever binds its disclosures |
| `MdocHsmRefinementProofs` | `ImplementsSplitSigning` | `Spec => RefinesSplitSigning` |
| `DerSignatureProofs` | `TypeCorrect`, `ConversionReturnsTheCoordinates`, `PrefixesAreRefused` | the invariants of `der_signature`, for any bytes, every width of COSE and of signers up to P-521, both forms of the length |
| | `CutSignaturesPanic` | how far the finding of `der_truncated` reaches: cut signatures of eight bytes and more panic, all of them, and no shorter ones |
| `MdocBuilderProofs` | `TypeCorrect`, `ImplementsAtomicBuilder` | type, and `Spec => RefinesAtomicBuilder`, for any keys and dicts |
| `RetryCommandProofs` | `TypeCorrect`, `ExitIsTruthful`, `AttemptsDoRunOut` | all properties of `retry` but `Ends`, for every limit |
| `CoreWheelPipelineProofs` | `TypeCorrect`, `CachedWheelsKeyed`, `TestedExports`, `GateVouches`, `VerdictsStand`, `PromiseKept` | all properties of `core_wheels` but `VerdictReached`, among them `Spec => KeepsPromise`, for any runs, revisions and platforms |
| `PresentationVerificationProofs` | `TypeCorrect`, `AcceptedAreAnswers`, `GenuineAreAccepted`, `BindingsDoAgree`, `NamespacesKeptApart`, `ExchangeKept` | all properties of `presentations`, among them `Spec => KeepsExchange`, for any sessions, anchors, keys and responses of any length |
| | `LostWhereShared`, `FieldsOfWhatParses` | how far the findings of `namespaces_lost` and `unverified_fields` reach: items are lost only where two documents share a namespace; fields are returned for everything that parses |
| `MartyErrorsProofs` | `TypeCorrect`, `OriginsAreShown`, `RaisedAreLogged`, `TablesDoAgree` | all properties of `errors`, for any threads, spans, filters, numbers of errors and of calls of `log()`, and variants that occur |

A run that must be violated shows one counterexample; the theorem beside it, where
there is one, says for which inputs the statement fails and for which it holds.

Arguments.

* **Signing.** `TypeOK` is inductive already: it says that everything in the state
  descends from an object that some accepted request makes with some draw
  (`MadeObjects`). Digest IDs, contents and non-emptiness (`DocumentsAreNonEmpty`)
  are then facts about such objects, proved from `MdocData` alone. That a
  signature belongs to one preparation rests on the salts: MSOs of different draws
  differ as soon as one item exists, and a document without items is never built.
  `CompletionRepeatable` is not inductive: it takes `OneObjectPerId`, that an id
  is never given to two objects, also across restarts.
* **Digests and types.** The two draws of a preparation have different
  numbers, so that an item of one has no digest in the MSO of the other
  (`SaltsDiffer`, `DigestsOfOtherSalts`). A value other than a boolean is
  extracted at the first type that is its own.
* **Refinement of `SplitSigning`.** The abstract content is read from the
  committed MSO and from the disclosed items; both equal the content of the
  request, because the two enumerations of the claims number them alike.
* **DER.** Lemmas about the layout of a DER encoding (where each length, tag and
  integer begins) turn the conversion of a whole encoding into the identity on
  coordinates, and show of every cut which read goes beyond the end. They hold of
  either form of the whole's length (`LengthBytes`) and of every width of the
  signer: a coordinate that fits COSE comes out padded on the left, of one that
  does not the first bytes remain (`Fitted`). `ResultOfPrefix` gives the exact
  result of every cut, from which both `PrefixesAreRefused` and
  `CutSignaturesPanic` follow.
* **Builder.** While an `add_namespace` is in progress and no key came or went,
  the keys already converted are exactly those up to the current one
  (`MetInOrder`), so that at the end the claims have the dict's keys. In any case
  the keys converted are ones the dict has had (`MetAreKeys`), and no more of them
  than entries were yielded (`MetAreYielded`): with the iterator's two checks, no
  more than the dict has when the call ends. `FinishAddNamespace` is then the
  atomic `Add`, everything else of the call a stutter.
* **Retry.** The counter is the number of failures, plus one while an attempt
  runs. `StepsLeft` is a number that every step makes smaller, as long as the
  limit is one the shell can compare; beyond it the counter wraps around.
* **Pipeline.** `CachedWheelsAreKeyed` needs what jobs hold: their wheels are
  pinned ones (built, or restored under a key that names what they are), and after
  the check all of them (`JobWheels`), so that what is saved is what the key names
  (`CacheOrigin`). `GateVouchesForPinnedWheels` needs `ArtifactsPinned`, that a
  job which went past the checks did upload, and `GateSaw`, that a job which
  succeeded stays so. `TestedWheelsExport` is inductive already.
  `VerdictsAreFinal` takes `ResultsFollowJobs`: a run whose gate has spoken, or
  whose tests ran, has no build job left, so that no step of a job is one of that
  run.
* **Refinement of `WheelPromise`.** An upload is `Give`, tests that run or are
  skipped are `Test`, the gate is `Judge`; restoring, building, saving, evicting,
  failing, cancelling and everything about concurrency groups are stutters. That
  an upload is the pinned wheels is the inductive invariant of
  `GateVouchesForPinnedWheels`; that it is the first for its platform is
  `UploadedOnce`.
* **Presentations.** Acceptance is decided a step after the call, so the invariant
  says what every report is the result of (`ReportMade`): a call of that binding
  with some arguments the verifier had. From there each format has a lemma on what
  a positive result implies (`PresentationAnswers`, `SdJwtAnswers` and so on) and
  one on what an undamaged answer leads to. That the last document with a
  namespace exists, so that `AllNamespaces` returns the dict of one document,
  takes a greatest element of a set of positions (`GreatestExists`), from the
  well-foundedness of the naturals.
* **Refinement of `PresentationExchange`.** A holder's answer, made with a binding
  or without, is `Answer`; a damaged copy and every call that verifies or reads
  are stutters; a decision that accepts is `Accept`, since what a binding passed
  is an undamaged answer to that session (`PassedAnswers`, from `ReportMade`).
* **Errors.** Errors that are alive have numbers of their own (`Distinct`), as
  many lines in the log as there were calls of `log()` on them at most
  (`AliveOK`), and numbers not given yet have none (`UnusedOK`); a conversion adds
  the one line that `RaisedOK` allows beyond that. The span an error carries is
  the one of the place it was made in (`ErrorsOK`). A text that is shown begins
  with the code of its variant (`CodesShown`), and codes are distinct, so that it
  tells the variant apart.

Assumptions on the constants, each in the module that declares them and evaluated
by TLC: `RequestsAssumption` (dicts are finite, dates are instants or bad),
`KeysAssumption`, `BrokenAssumption`, `ValiditiesAssumption` (the distinguished
values are distinct), `WidthsAssumption` (an integer's length takes one byte, the
whole's one byte after the one that announces the long form: true of all curves in
use, P-521 included), `BytesAssumption`, `RetryAssumption`, `PipelineAssumption`
(three kinds of events; pull requests are built on Linux), `SessionsAssumption` (a
session is a verifier and a nonce), `NoneAssumption` (an argument that is not
given is none of those given), `TrustAssumption` (an issuer's certificate chains
to one root), `DocListsAssumption` (a response has documents, each of an issuer),
`SpanAssumption`, `FiltersAssumption` (a filter is a set of levels),
`BoundAssumption`, `FailingAssumption` (operations fail with variants of the
table).

Model-checked only: the liveness properties `BorrowIsReturned`, `Ends` and
`VerdictReached`, since the prover does not reach properties under fairness. What
`Ends` rests on is proved: `AttemptsRunOut` says, without fairness, that there are
finitely many steps to make.

## 5. Not modelled

* *Getters of a parsed response* (`get_mdl_element`, `is_age_over_21`,
  `get_family_name`, `get_given_name`, `document_types`): one value of what
  `get_mdl_fields` is modelled to return.
* *OID4VCI issuance, presentation definitions and submissions* (`oid4vci.rs`):
  JSON translated once into a call of `marty_oid4vci`, whose source is not in the
  repository; no state, and no second step. `create_presentation_definition`
  builds the same descriptor for every format (oid4vci.rs:198-204) under constant
  identifiers; what that means is decided where submissions are matched.
* *`bbs_verify`, canonical verification, status lists, VCDM credentials,
  WebAssembly*: one call of an external library each, its answer passed on.
* *`user_message`* (`error.rs`): wording.
* *Private forks and KMS graph*: scripts outside the crate; planned.
* *Pipeline*: lanes other than the Core wheels and the Python tests are a result
  each; cargo and compiler caches change how long a build takes and nothing
  else; what wheels are built with beyond their revision is not modelled, so
  the key's hand-kept version is not checked; two pushes to one branch are not in
  the instance.
* *`get_tbs_data` of the builder* (builder.rs:142): `MdocBuilder` keeps the state
  a call was built from and not the salts it drew.
* *Cryptography, CBOR and JSON encodings, texts of errors.*

## 6. Plan

Done, in this order: `MdocData`, `MdocHsmSigning` with `SplitSigning`,
`DerSignature`, `MdocBuilder` with `AtomicBuilder`, `RetryCommand`,
`CoreWheelPipeline` with `WheelPromise`, `PresentationVerification` with
`PresentationExchange`, `MartyErrors`, each with its proofs.

Next:

1. `PrivateForks`: which step's environment holds the credential, and fetching
   several manifests with a failure in between; theorem: no step that runs
   foreign code has it.
2. `KmsGraph`: the forbidden reachability over a dependency graph, against a
   reference definition.
3. The salts of `MdocBuilder.get_tbs_data`, and the recipe of cached wheels beyond
   their revision.
