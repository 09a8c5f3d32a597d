----------------------------- MODULE MartyErrors -----------------------------
(***************************************************************************)
(* The errors of the crate on their way to Python (src/error.rs).          *)
(*                                                                         *)
(* An error is made where an operation fails: it captures the span the     *)
(* thread is in.  It is then passed on, perhaps to another thread, and is  *)
(* logged, reported or converted to a Python exception later, when the     *)
(* thread is in another span or in none and when tracing may have been     *)
(* initialised in between, by this library or by the application.  A span  *)
(* stands for the chain of spans around an operation.                      *)
(***************************************************************************)
EXTENDS Integers, FiniteSets, Sequences

CONSTANTS Threads,
          Spans,     (* the spans operations run in                         *)
          NoSpan,
          Failing,   (* the variants operations of the model fail with      *)
          Filters,   (* the sets of levels a subscriber may let through     *)
          MaxErrors, (* bound: how many errors are made                     *)
          MaxLogs    (* bound: how often log() is called on an error        *)

ASSUME SpanAssumption == NoSpan \notin Spans
ASSUME FiltersAssumption == Filters \subseteq SUBSET {"error", "warn", "info", "debug"}
ASSUME BoundAssumption == MaxErrors \in Nat /\ MaxLogs \in Nat

-----------------------------------------------------------------------------
(* The tables about the variants of MartyError.                            *)

(* The code at the head of the Display text of a variant, and code().      *)
DisplayCode ==
  [CredentialIssuanceFailed |-> <<"CRED", "ISSUANCE_FAILED">>,
   CredentialVerificationFailed |-> <<"CRED", "VERIFICATION_FAILED">>,
   CredentialRevoked |-> <<"CRED", "REVOKED">>, CredentialExpired |-> <<"CRED", "EXPIRED">>,
   CredentialInvalidFormat |-> <<"CRED", "INVALID_FORMAT">>,
   CredentialSerializationError |-> <<"CRED", "SERIALIZATION_ERROR">>,
   KeyNotFound |-> <<"KEY", "NOT_FOUND">>, KeyGenerationFailed |-> <<"KEY", "GENERATION_FAILED">>,
   KeyInvalidFormat |-> <<"KEY", "INVALID_FORMAT">>,
   KeyUnsupportedAlgorithm |-> <<"KEY", "UNSUPPORTED_ALGORITHM">>,
   KeyImportFailed |-> <<"KEY", "IMPORT_FAILED">>,
   StatusIndexOutOfBounds |-> <<"STATUS", "INDEX_OUT_OF_BOUNDS">>,
   StatusInvalidFormat |-> <<"STATUS", "INVALID_FORMAT">>,
   StatusCompressionError |-> <<"STATUS", "COMPRESSION_ERROR">>,
   StatusEncodingError |-> <<"STATUS", "ENCODING_ERROR">>,
   ValidationRequiredField |-> <<"VAL", "REQUIRED_FIELD">>,
   ValidationInvalidFormat |-> <<"VAL", "INVALID_FORMAT">>,
   ValidationOutOfRange |-> <<"VAL", "OUT_OF_RANGE">>,
   ValidationConstraintViolated |-> <<"VAL", "CONSTRAINT_VIOLATED">>,
   CryptoSignatureFailed |-> <<"CRYPTO", "SIGNATURE_FAILED">>,
   CryptoVerificationFailed |-> <<"CRYPTO", "VERIFICATION_FAILED">>,
   CryptoEncryptionFailed |-> <<"CRYPTO", "ENCRYPTION_FAILED">>,
   CryptoDecryptionFailed |-> <<"CRYPTO", "DECRYPTION_FAILED">>,
   CryptoHashFailed |-> <<"CRYPTO", "HASH_FAILED">>,
   DidResolutionFailed |-> <<"DID", "RESOLUTION_FAILED">>,
   DidInvalidFormat |-> <<"DID", "INVALID_FORMAT">>,
   DidUnsupportedMethod |-> <<"DID", "UNSUPPORTED_METHOD">>,
   InternalError |-> <<"SRV", "INTERNAL_ERROR">>,
   ExternalServiceError |-> <<"SRV", "EXTERNAL_SERVICE">>, IoError |-> <<"SRV", "IO_ERROR">>]

(* Mutation: a code is copied from the variant above.                      *)
CodeCopied == [DisplayCode EXCEPT !.CryptoDecryptionFailed = DisplayCode.CryptoEncryptionFailed]

Code ==
  [CredentialIssuanceFailed |-> <<"CRED", "ISSUANCE_FAILED">>,
   CredentialVerificationFailed |-> <<"CRED", "VERIFICATION_FAILED">>,
   CredentialRevoked |-> <<"CRED", "REVOKED">>, CredentialExpired |-> <<"CRED", "EXPIRED">>,
   CredentialInvalidFormat |-> <<"CRED", "INVALID_FORMAT">>,
   CredentialSerializationError |-> <<"CRED", "SERIALIZATION_ERROR">>,
   KeyNotFound |-> <<"KEY", "NOT_FOUND">>, KeyGenerationFailed |-> <<"KEY", "GENERATION_FAILED">>,
   KeyInvalidFormat |-> <<"KEY", "INVALID_FORMAT">>,
   KeyUnsupportedAlgorithm |-> <<"KEY", "UNSUPPORTED_ALGORITHM">>,
   KeyImportFailed |-> <<"KEY", "IMPORT_FAILED">>,
   StatusIndexOutOfBounds |-> <<"STATUS", "INDEX_OUT_OF_BOUNDS">>,
   StatusInvalidFormat |-> <<"STATUS", "INVALID_FORMAT">>,
   StatusCompressionError |-> <<"STATUS", "COMPRESSION_ERROR">>,
   StatusEncodingError |-> <<"STATUS", "ENCODING_ERROR">>,
   ValidationRequiredField |-> <<"VAL", "REQUIRED_FIELD">>,
   ValidationInvalidFormat |-> <<"VAL", "INVALID_FORMAT">>,
   ValidationOutOfRange |-> <<"VAL", "OUT_OF_RANGE">>,
   ValidationConstraintViolated |-> <<"VAL", "CONSTRAINT_VIOLATED">>,
   CryptoSignatureFailed |-> <<"CRYPTO", "SIGNATURE_FAILED">>,
   CryptoVerificationFailed |-> <<"CRYPTO", "VERIFICATION_FAILED">>,
   CryptoEncryptionFailed |-> <<"CRYPTO", "ENCRYPTION_FAILED">>,
   CryptoDecryptionFailed |-> <<"CRYPTO", "DECRYPTION_FAILED">>,
   CryptoHashFailed |-> <<"CRYPTO", "HASH_FAILED">>,
   DidResolutionFailed |-> <<"DID", "RESOLUTION_FAILED">>,
   DidInvalidFormat |-> <<"DID", "INVALID_FORMAT">>,
   DidUnsupportedMethod |-> <<"DID", "UNSUPPORTED_METHOD">>,
   InternalError |-> <<"SRV", "INTERNAL_ERROR">>,
   ExternalServiceError |-> <<"SRV", "EXTERNAL_SERVICE">>, IoError |-> <<"SRV", "IO_ERROR">>]

Variants == DOMAIN Code

ASSUME FailingAssumption == Failing \subseteq Variants

Family(v) == Code[v][1]

IsRetryable(v) == v \in {"ExternalServiceError", "IoError", "DidResolutionFailed"}

(* Mutation: a catch-all of families instead of the list of variants.      *)
ExceptionByFamily(v) ==
  CASE v = "StatusIndexOutOfBounds"             -> "IndexError"
    [] v = "KeyNotFound"                        -> "KeyError"
    [] Family(v) \in {"VAL", "DID"}             -> "ValueError"
    [] OTHER                                    -> "RuntimeError"

(* Mutation: the catch-all is a class that is not one of Python's.         *)
ExceptionTypeOwn(v) ==
  LET type == ExceptionByFamily(v) IN IF type = "RuntimeError" THEN "MartyError" ELSE type

ExceptionType(v) ==
  CASE v = "StatusIndexOutOfBounds" -> "IndexError"
    [] v = "KeyNotFound"            -> "KeyError"
    [] v \in {"ValidationRequiredField", "ValidationInvalidFormat", "ValidationOutOfRange",
              "ValidationConstraintViolated", "CredentialInvalidFormat", "KeyInvalidFormat",
              "StatusInvalidFormat", "DidInvalidFormat"} -> "ValueError"
    [] v \in {"KeyUnsupportedAlgorithm", "DidUnsupportedMethod"} -> "TypeError"
    [] OTHER -> "RuntimeError"

LogLevel(v) == IF Family(v) \in {"SRV", "CRYPTO"} THEN "error" ELSE "warn"

(* What errors of other crates become.                                     *)
FromExternal == [io |-> "IoError", serde_json |-> "CredentialSerializationError",
                 base64 |-> "ValidationInvalidFormat"]

-----------------------------------------------------------------------------
VARIABLES
  subscriber,  (* the global subscriber of tracing: whether there is one,   *)
               (* the levels it lets through of this crate, and the spans   *)
               (* its ErrorLayer records                                    *)
  inside,      (* the span each thread is in, and whether it is recorded    *)
  errors,      (* the errors that are alive                                 *)
  made,        (* how many were made                                        *)
  logged,      (* history: how often log() was called on each               *)
  log,         (* the lines about each error that were written, in order    *)
  shown        (* exceptions raised and debug reports given                 *)

vars == <<subscriber, inside, errors, made, logged, log, shown>>

Outside == [span |-> NoSpan, traced |-> FALSE]

(* A subscriber is installed, unless there is one.                         *)
Install(levels, records) ==
  subscriber' = IF subscriber.installed THEN subscriber
                ELSE [installed |-> TRUE, levels |-> levels, records |-> records]

(* Called whenever the Python module is imported, and by Rust consumers:   *)
(* try_init, whose refusal is ignored.  The directive for INFO replaces    *)
(* the general one of RUST_LOG; those for single targets may silence this  *)
(* crate or spans.                                                         *)
InitTracing ==
  /\ \E levels \in Filters, records \in SUBSET Spans : Install(levels, records)
  /\ UNCHANGED <<inside, errors, made, logged, log, shown>>

(* External: the application installs a subscriber with filters of its     *)
(* own, and perhaps with an ErrorLayer.                                    *)
HostInitTracing ==
  /\ \E levels \in Filters, records \in SUBSET Spans : Install(levels, records)
  /\ UNCHANGED <<inside, errors, made, logged, log, shown>>

(* External: threads enter and leave spans.                                *)
EnterSpan(t, s) ==
  /\ inside' = [inside EXCEPT ![t] = [span |-> s, traced |-> s \in subscriber.records]]
  /\ UNCHANGED <<subscriber, errors, made, logged, log, shown>>

LeaveSpan(t) ==
  /\ inside' = [inside EXCEPT ![t] = Outside]
  /\ UNCHANGED <<subscriber, errors, made, logged, log, shown>>

(* SpanTrace::capture in a thread: a status other than CAPTURED is NoSpan. *)
CaptureSpanTrace(t) == IF inside[t].traced THEN inside[t].span ELSE NoSpan

(* The diagnostics are captured when the error is made; "madeIn", which    *)
(* the code does not have, is where that was.                              *)
WithDiagnostics(t, v) ==
  /\ made < MaxErrors
  /\ made' = made + 1
  /\ errors' = errors \cup {[id |-> made + 1, variant |-> v, spanTrace |-> CaptureSpanTrace(t),
                             madeIn |-> inside[t]]}
  /\ UNCHANGED <<subscriber, inside, logged, log, shown>>

OperationFails(t, v) == WithDiagnostics(t, v)

DependencyFails(t, crate) == WithDiagnostics(t, FromExternal[crate])

(* The subscriber lets lines about the error through.                      *)
Heard(e) == LogLevel(e.variant) \in subscriber.levels

Text(e, how, type, span) ==
  [id |-> e.id, how |-> how, variant |-> e.variant, type |-> type, code |-> Code[e.variant],
   displayed |-> DisplayCode[e.variant], spanTrace |-> span, madeIn |-> e.madeIn,
   heard |-> Heard(e)]

DebugReport(e) ==
  /\ shown' = shown \cup {Text(e, "report", "none", e.spanTrace)}
  /\ UNCHANGED <<subscriber, inside, errors, made, logged, log>>

Line(v) == [code |-> Code[v], level |-> LogLevel(v)]

(* A line that nobody subscribes to, or that is filtered out, is dropped.  *)
Log(e) == log' = IF Heard(e) THEN [log EXCEPT ![e.id] = Append(@, Line(e.variant))] ELSE log

(* log(), which is public, called on an error that stays alive.            *)
LogError(e) ==
  /\ logged[e.id] < MaxLogs
  /\ logged' = [logged EXCEPT ![e.id] = @ + 1]
  /\ Log(e)
  /\ UNCHANGED <<subscriber, inside, errors, made, shown>>

(* Mutation: the span trace is captured when the error is converted.       *)
IntoPyErrHere(t, e) ==
  /\ Log(e)
  /\ shown' = shown \cup {Text(e, "exception", ExceptionType(e.variant), CaptureSpanTrace(t))}
  /\ errors' = errors \ {e}
  /\ UNCHANGED <<subscriber, inside, made, logged>>

(* Mutation: an error that was logged before is not logged again.          *)
IntoPyErrQuietly(t, e) ==
  /\ IF logged[e.id] > 0 THEN UNCHANGED log ELSE Log(e)
  /\ shown' = shown \cup {Text(e, "exception", ExceptionType(e.variant), e.spanTrace)}
  /\ errors' = errors \ {e}
  /\ UNCHANGED <<subscriber, inside, made, logged>>

(* Mutation: the exception and its cause are logged.                       *)
IntoPyErrTwice(t, e) ==
  /\ log' = IF Heard(e)
            THEN [log EXCEPT ![e.id] = @ \o <<Line(e.variant), Line(e.variant)>>]
            ELSE log
  /\ shown' = shown \cup {Text(e, "exception", ExceptionType(e.variant), e.spanTrace)}
  /\ errors' = errors \ {e}
  /\ UNCHANGED <<subscriber, inside, made, logged>>

(* Converting consumes the error, in whichever thread has it then.         *)
IntoPyErr(t, e) ==
  /\ Log(e)
  /\ shown' = shown \cup {Text(e, "exception", ExceptionType(e.variant), e.spanTrace)}
  /\ errors' = errors \ {e}
  /\ UNCHANGED <<subscriber, inside, made, logged>>

-----------------------------------------------------------------------------
Init ==
  /\ subscriber = [installed |-> FALSE, levels |-> {}, records |-> {}]
  /\ inside = [t \in Threads |-> Outside]
  /\ errors = {}
  /\ made = 0
  /\ logged = [i \in 1..MaxErrors |-> 0]
  /\ log = [i \in 1..MaxErrors |-> <<>>]
  /\ shown = {}

Next ==
  \/ InitTracing \/ HostInitTracing
  \/ \E t \in Threads, s \in Spans : EnterSpan(t, s)
  \/ \E t \in Threads : LeaveSpan(t)
  \/ \E t \in Threads, v \in Failing : OperationFails(t, v)
  \/ \E t \in Threads, crate \in DOMAIN FromExternal : DependencyFails(t, crate)
  \/ \E e \in errors : DebugReport(e) \/ LogError(e)
  \/ \E t \in Threads, e \in errors : IntoPyErr(t, e)

Spec == Init /\ [][Next]_vars

-----------------------------------------------------------------------------
Places == [span : Spans \cup {NoSpan}, traced : BOOLEAN]

PythonExceptions == {"ValueError", "KeyError", "IndexError", "TypeError", "RuntimeError"}

Lines == {Line(v) : v \in Variants}

TypeOK ==
  /\ subscriber \in [installed : BOOLEAN, levels : Filters \cup {{}},
                     records : SUBSET Spans]
  /\ inside \in [Threads -> Places]
  /\ made \in 0..MaxErrors
  /\ \A e \in errors : /\ e.id \in 1..made /\ e.variant \in Variants
                       /\ e.spanTrace \in Spans \cup {NoSpan} /\ e.madeIn \in Places
  /\ \A x \in shown : /\ x.id \in 1..made /\ x.variant \in Variants
                      /\ x.type \in IF x.how = "exception" THEN PythonExceptions ELSE {"none"}
  /\ logged \in [1..MaxErrors -> 0..MaxLogs]
  /\ log \in [1..MaxErrors -> Seq(Lines)]

(* What Python or a developer is shown of an error names the span of the   *)
(* operation that failed, and never that of whoever converted or reported  *)
(* it later; it names none only when tracing did not record that span.     *)
Traced(place) == IF place.traced THEN place.span ELSE NoSpan

OriginIsShown == \A x \in shown : x.spanTrace = Traced(x.madeIn)

(* An exception whose level the subscriber lets through is in the log when *)
(* Python sees it, and whoever counts lines counts right: every line about *)
(* an error comes from one call of log() on it or from its conversion, in  *)
(* the code and at the level of its kind, also when threads log it and     *)
(* convert it before and after tracing is initialised.  An error that was  *)
(* never logged nor converted leaves none.                                 *)
LinesOf(id) == Len(log[id])

RaisedIsLogged ==
  /\ \A x \in shown : x.how = "exception" =>
       /\ x.heard => LinesOf(x.id) > 0
       /\ LinesOf(x.id) <= logged[x.id] + 1
       /\ \A i \in 1..LinesOf(x.id) : log[x.id][i] = Line(x.variant)
  /\ \A e \in errors : LinesOf(e.id) <= logged[e.id]

(* Whatever a client can tell an error by agrees: the code a text begins   *)
(* with is the one code() gives and names one variant, whatever is called  *)
(* an invalid format or a validation error is a ValueError, and nothing    *)
(* that is the caller's mistake for Python is an error to retry.           *)
TablesAgree ==
  /\ \A x, y \in shown : x.displayed = y.code => x.variant = y.variant
  /\ DOMAIN DisplayCode = Variants
  /\ \A v \in Variants :
       /\ DisplayCode[v] = Code[v]
       /\ Family(v) = "VAL" \/ Code[v][2] = "INVALID_FORMAT" <=> ExceptionType(v) = "ValueError"
       /\ IsRetryable(v) => ExceptionType(v) = "RuntimeError"
  /\ \A v, w \in Variants : Code[v] = Code[w] => v = w

(* What the comment in log() says: validation errors are expected, and are *)
(* logged below the level of warnings.                                     *)
ValidationIsLoggedLow ==
  \A id \in 1..MaxErrors : \A i \in 1..LinesOf(id) :
    log[id][i].code[1] = "VAL" => log[id][i].level \in {"info", "debug"}
=============================================================================
