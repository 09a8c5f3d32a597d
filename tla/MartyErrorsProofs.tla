--------------------------- MODULE MartyErrorsProofs ---------------------------
(***************************************************************************)
(* What the errors of MartyErrors show and log, for any threads, spans and *)
(* number of errors.  The argument is about identities: an error that is   *)
(* alive is the only one of its number, and none of that number was        *)
(* converted; the lines of its number are its own and no more than the     *)
(* calls of log(), so that its conversion may write one more and nothing   *)
(* does after it.  What it shows is the span captured when it was made.    *)
(***************************************************************************)
EXTENDS MartyErrors, TLAPS

StateOK ==
  /\ subscriber \in [installed : BOOLEAN, levels : Filters \cup {{}}, records : SUBSET Spans]
  /\ inside \in [Threads -> Places]
  /\ made \in 0..MaxErrors
  /\ logged \in [1..MaxErrors -> 0..MaxLogs]
  /\ log \in [1..MaxErrors -> Seq(Lines)]

ErrorsOK ==
  \A e \in errors : /\ e.id \in 1..made /\ e.variant \in Variants
                    /\ e.spanTrace \in Spans \cup {NoSpan} /\ e.madeIn \in Places
                    /\ e.spanTrace = Traced(e.madeIn)

(* Errors that are alive have numbers of their own, and none that was      *)
(* converted.                                                              *)
Distinct ==
  /\ \A e, f \in errors : e.id = f.id => e = f
  /\ \A e \in errors, x \in shown : x.how = "exception" => x.id # e.id

ShownOK ==
  \A x \in shown : /\ x.id \in 1..made /\ x.variant \in Variants
                   /\ x.type \in IF x.how = "exception" THEN PythonExceptions ELSE {"none"}

(* The lines that were written all say what an error of this variant says. *)
LinesSay(lines, v) == \A i \in 1..Len(lines) : lines[i] = Line(v)

(* A number that no error has yet has no lines; an error that is alive has *)
(* one for each call of log() at most.                                     *)
UnusedOK == \A id \in 1..MaxErrors : id \notin 1..made => log[id] = <<>>

AliveOK ==
  \A e \in errors : LinesOf(e.id) <= logged[e.id] /\ LinesSay(log[e.id], e.variant)

RaisedOK ==
  \A x \in shown : x.how = "exception" =>
    /\ x.heard => LinesOf(x.id) > 0
    /\ LinesOf(x.id) <= logged[x.id] + 1
    /\ LinesSay(log[x.id], x.variant)

Invariant ==
  /\ StateOK /\ ErrorsOK /\ Distinct /\ ShownOK
  /\ OriginIsShown /\ UnusedOK /\ AliveOK /\ RaisedOK

-----------------------------------------------------------------------------
(* The exception of every variant is one of Python's.                      *)
LEMMA ExceptionsArePythons == \A v \in Variants : ExceptionType(v) \in PythonExceptions
  BY DEF ExceptionType, PythonExceptions

(* What errors of other crates become are variants.                        *)
LEMMA ExternalVariants == \A crate \in DOMAIN FromExternal : FromExternal[crate] \in Variants
  BY DEF FromExternal, Variants, Code

(* A capture is the recorded span of the place the thread is in.           *)
LEMMA Captured ==
  ASSUME StateOK, NEW t \in Threads
  PROVE  /\ inside[t] \in Places
         /\ CaptureSpanTrace(t) = Traced(inside[t])
         /\ CaptureSpanTrace(t) \in Spans \cup {NoSpan}
  BY DEF StateOK, CaptureSpanTrace, Traced, Places

(* Logging an error adds one line about it when it is heard, none when it  *)
(* is not, and leaves the lines about others alone.                        *)
LEMMA LoggingAdds ==
  ASSUME StateOK, ErrorsOK, NEW e \in errors, Log(e), LinesSay(log[e.id], e.variant)
  PROVE  /\ log' \in [1..MaxErrors -> Seq(Lines)]
         /\ \A id \in 1..MaxErrors : id # e.id => log'[id] = log[id]
         /\ Len(log[e.id]) \in Nat
         /\ Len(log'[e.id]) \in {Len(log[e.id]), Len(log[e.id]) + 1}
         /\ Heard(e) => Len(log'[e.id]) = Len(log[e.id]) + 1
         /\ LinesSay(log'[e.id], e.variant)
<1> DEFINE line == Line(e.variant)
<1>1. e.id \in 1..MaxErrors /\ e.variant \in Variants
  BY BoundAssumption DEF StateOK, ErrorsOK
<1>2. line \in Lines
  BY <1>1 DEF Lines
<1>3. log[e.id] \in Seq(Lines) /\ Len(log[e.id]) \in Nat
  BY <1>1 DEF StateOK
<1>4. CASE Heard(e)
  <2>1. log' = [log EXCEPT ![e.id] = Append(@, line)]
    BY <1>4 DEF Log
  <2> HIDE DEF line
  <2>2. /\ Append(log[e.id], line) \in Seq(Lines)
        /\ Len(Append(log[e.id], line)) = Len(log[e.id]) + 1
        /\ \A i \in 1..Len(log[e.id]) : Append(log[e.id], line)[i] = log[e.id][i]
        /\ Append(log[e.id], line)[Len(log[e.id]) + 1] = line
    BY <1>2, <1>3
  <2>3. log'[e.id] = Append(log[e.id], line)
    BY <1>1, <2>1 DEF StateOK
  <2>4. /\ log' \in [1..MaxErrors -> Seq(Lines)]
        /\ \A id \in 1..MaxErrors : id # e.id => log'[id] = log[id]
    BY <1>1, <2>1, <2>2 DEF StateOK
  <2>5. \A i \in 1..Len(log[e.id]) + 1 : Append(log[e.id], line)[i] = line
    BY <1>3, <2>2 DEF LinesSay, line
  <2>6. LinesSay(log'[e.id], e.variant)
    BY <2>2, <2>3, <2>5 DEF LinesSay, line
  <2> QED
    BY <1>3, <2>2, <2>3, <2>4, <2>6
<1>5. CASE ~Heard(e)
  BY <1>3, <1>5 DEF Log, StateOK
<1> QED
  BY <1>4, <1>5

(* Initially nothing has happened.                                         *)
LEMMA InitInvariant == Init => Invariant
<1> SUFFICES ASSUME Init PROVE Invariant
  OBVIOUS
<1>1. StateOK
  <2>1. subscriber \in [installed : BOOLEAN, levels : Filters \cup {{}}, records : SUBSET Spans]
    BY DEF Init
  <2>2. inside \in [Threads -> Places]
    BY DEF Init, Outside, Places
  <2>3. made \in 0..MaxErrors /\ logged \in [1..MaxErrors -> 0..MaxLogs]
    BY BoundAssumption DEF Init
  <2>4. <<>> \in Seq(Lines)
    OBVIOUS
  <2>5. log \in [1..MaxErrors -> Seq(Lines)]
    BY <2>4 DEF Init
  <2> QED
    BY <2>1, <2>2, <2>3, <2>5 DEF StateOK
<1>2. errors = {} /\ shown = {} /\ UnusedOK
  BY DEF Init, UnusedOK
<1> QED
  BY <1>1, <1>2 DEF Invariant, ErrorsOK, Distinct, ShownOK, OriginIsShown, AliveOK, RaisedOK

(* Making an error: it gets a number that neither an error nor a line has. *)
LEMMA MakingKeeps ==
  ASSUME Invariant, NEW t \in Threads, NEW v \in Variants, WithDiagnostics(t, v)
  PROVE  Invariant'
<1> PICK e : e = [id |-> made + 1, variant |-> v, spanTrace |-> CaptureSpanTrace(t),
                  madeIn |-> inside[t]]
  OBVIOUS
<1>1. /\ made \in Nat /\ made' = made + 1 /\ made' \in 0..MaxErrors
      /\ 1..made \subseteq 1..made' /\ made' \in 1..made' /\ made' \notin 1..made
      /\ made' \in 1..MaxErrors
  BY BoundAssumption DEF Invariant, StateOK, WithDiagnostics
<1>2. errors' = errors \cup {e} /\ UNCHANGED <<subscriber, inside, logged, log, shown>>
  BY DEF WithDiagnostics
<1>3. e.id = made' /\ e.variant = v /\ e.spanTrace = CaptureSpanTrace(t) /\ e.madeIn = inside[t]
  BY <1>1
<1>4. StateOK'
  BY <1>1, <1>2 DEF Invariant, StateOK
<1>5. ErrorsOK'
  BY <1>1, <1>2, <1>3, Captured DEF Invariant, ErrorsOK
<1>6. Distinct'
  BY <1>1, <1>2, <1>3 DEF Invariant, ErrorsOK, Distinct, ShownOK
<1>7. ShownOK' /\ OriginIsShown'
  BY <1>1, <1>2 DEF Invariant, ShownOK, OriginIsShown
<1>8. UnusedOK' /\ RaisedOK'
  BY <1>1, <1>2 DEF Invariant, UnusedOK, RaisedOK, LinesOf
<1>9. /\ Len(log[e.id]) <= logged[e.id] /\ LinesSay(log[e.id], e.variant)
  <2>1. log[made'] = <<>> /\ logged[made'] \in Nat
    BY <1>1, BoundAssumption DEF Invariant, UnusedOK, StateOK
  <2> QED
    BY <1>3, <2>1 DEF LinesSay
<1>10. AliveOK'
  BY <1>2, <1>9 DEF Invariant, AliveOK, LinesOf
<1> QED
  BY <1>4, <1>5, <1>6, <1>7, <1>8, <1>10 DEF Invariant

(* A report shows an error as it is and leaves no line.                    *)
LEMMA ReportKeeps ==
  ASSUME Invariant, NEW e \in errors, DebugReport(e)
  PROVE  Invariant'
<1> DEFINE x == Text(e, "report", "none", e.spanTrace)
<1>1. shown' = shown \cup {x} /\ UNCHANGED <<subscriber, inside, errors, made, logged, log>>
  BY DEF DebugReport
<1>2. /\ x.id = e.id /\ x.variant = e.variant /\ x.how = "report" /\ x.type = "none"
      /\ x.spanTrace = e.spanTrace /\ x.madeIn = e.madeIn
  BY DEF Text
<1>3. e.id \in 1..made /\ e.variant \in Variants /\ e.spanTrace = Traced(e.madeIn)
  BY DEF Invariant, ErrorsOK
<1> HIDE DEF x
<1>4. StateOK' /\ ErrorsOK' /\ UnusedOK' /\ AliveOK'
  BY <1>1 DEF Invariant, StateOK, ErrorsOK, UnusedOK, AliveOK, LinesOf
<1>5. Distinct'
  BY <1>1, <1>2 DEF Invariant, Distinct
<1>6. ShownOK'
  BY <1>1, <1>2, <1>3 DEF Invariant, ShownOK
<1>7. OriginIsShown'
  BY <1>1, <1>2, <1>3 DEF Invariant, OriginIsShown
<1>8. RaisedOK'
  BY <1>1, <1>2 DEF Invariant, RaisedOK, LinesOf
<1> QED
  BY <1>4, <1>5, <1>6, <1>7, <1>8 DEF Invariant

(* A call of log() adds a line, if any, to one more call.                  *)
LEMMA LogKeeps ==
  ASSUME Invariant, NEW e \in errors, LogError(e)
  PROVE  Invariant'
<1>1. /\ logged[e.id] < MaxLogs /\ logged' = [logged EXCEPT ![e.id] = @ + 1] /\ Log(e)
      /\ UNCHANGED <<subscriber, inside, errors, made, shown>>
  BY DEF LogError
<1>2. e.id \in 1..made /\ e.id \in 1..MaxErrors /\ LinesSay(log[e.id], e.variant)
      /\ LinesOf(e.id) <= logged[e.id]
  BY BoundAssumption DEF Invariant, StateOK, ErrorsOK, AliveOK
<1>3. /\ log' \in [1..MaxErrors -> Seq(Lines)]
      /\ \A id \in 1..MaxErrors : id # e.id => log'[id] = log[id]
      /\ Len(log[e.id]) \in Nat
      /\ Len(log'[e.id]) \in {Len(log[e.id]), Len(log[e.id]) + 1}
      /\ LinesSay(log'[e.id], e.variant)
  BY <1>1, <1>2, LoggingAdds DEF Invariant
<1>4. /\ logged[e.id] \in Nat /\ logged' \in [1..MaxErrors -> 0..MaxLogs]
      /\ logged'[e.id] = logged[e.id] + 1
      /\ \A id \in 1..MaxErrors : id # e.id => logged'[id] = logged[id]
  BY <1>1, <1>2, BoundAssumption DEF Invariant, StateOK
<1>5. StateOK' /\ ErrorsOK' /\ Distinct' /\ ShownOK' /\ OriginIsShown'
  BY <1>1, <1>3, <1>4
  DEF Invariant, StateOK, ErrorsOK, Distinct, ShownOK, OriginIsShown
<1>6. 1..made \subseteq 1..MaxErrors
  BY BoundAssumption DEF Invariant, StateOK
<1>7. UnusedOK'
  BY <1>1, <1>2, <1>3 DEF Invariant, UnusedOK
<1>8. AliveOK'
  <2> SUFFICES ASSUME NEW f \in errors
               PROVE  LinesOf(f.id)' <= logged'[f.id] /\ LinesSay(log'[f.id], f.variant)
    BY <1>1 DEF AliveOK
  <2>1. CASE f = e
    BY <1>2, <1>3, <1>4, <2>1 DEF LinesOf
  <2>2. CASE f # e
    <3>1. f.id # e.id /\ f.id \in 1..MaxErrors
      BY <1>6, <2>2 DEF Invariant, Distinct, ErrorsOK
    <3> QED
      BY <1>3, <1>4, <3>1 DEF Invariant, AliveOK, LinesOf
  <2> QED
    BY <2>1, <2>2
<1>9. RaisedOK'
  <2> SUFFICES ASSUME NEW x \in shown, x.how = "exception"
               PROVE  /\ x.heard => LinesOf(x.id)' > 0
                      /\ LinesOf(x.id)' <= logged'[x.id] + 1
                      /\ LinesSay(log'[x.id], x.variant)
    BY <1>1 DEF RaisedOK
  <2>1. x.id # e.id /\ x.id \in 1..MaxErrors
    BY <1>6 DEF Invariant, Distinct, ShownOK
  <2> QED
    BY <1>3, <1>4, <2>1 DEF Invariant, RaisedOK, LinesOf
<1> QED
  BY <1>5, <1>7, <1>8, <1>9 DEF Invariant

(* A conversion writes one line more, if anybody listens, and the error is *)
(* gone.                                                                   *)
LEMMA ConversionKeeps ==
  ASSUME Invariant, NEW t \in Threads, NEW e \in errors, IntoPyErr(t, e)
  PROVE  Invariant'
<1> DEFINE x == Text(e, "exception", ExceptionType(e.variant), e.spanTrace)
<1>1. /\ shown' = shown \cup {x} /\ errors' = errors \ {e} /\ Log(e)
      /\ UNCHANGED <<subscriber, inside, made, logged>>
  BY DEF IntoPyErr
<1>2. /\ x.id = e.id /\ x.variant = e.variant /\ x.how = "exception"
      /\ x.type = ExceptionType(e.variant)
      /\ x.spanTrace = e.spanTrace /\ x.madeIn = e.madeIn
  BY DEF Text
<1>3. x.heard => Heard(e)
  BY DEF Text
<1> HIDE DEF x
<1>4. /\ e.id \in 1..made /\ e.id \in 1..MaxErrors /\ e.variant \in Variants
      /\ e.spanTrace = Traced(e.madeIn) /\ LinesSay(log[e.id], e.variant)
      /\ LinesOf(e.id) <= logged[e.id]
  BY BoundAssumption DEF Invariant, StateOK, ErrorsOK, AliveOK
<1>5. /\ log' \in [1..MaxErrors -> Seq(Lines)]
      /\ \A id \in 1..MaxErrors : id # e.id => log'[id] = log[id]
      /\ Len(log[e.id]) \in Nat
      /\ Len(log'[e.id]) \in {Len(log[e.id]), Len(log[e.id]) + 1}
      /\ Heard(e) => Len(log'[e.id]) = Len(log[e.id]) + 1
      /\ LinesSay(log'[e.id], e.variant)
  BY <1>1, <1>4, LoggingAdds DEF Invariant
<1>6. logged[e.id] \in Nat /\ 1..made \subseteq 1..MaxErrors
  BY <1>4, BoundAssumption DEF Invariant, StateOK
<1>7. StateOK' /\ ErrorsOK'
  BY <1>1, <1>5 DEF Invariant, StateOK, ErrorsOK
<1>8. Distinct'
  BY <1>1, <1>2 DEF Invariant, Distinct
<1>9. ShownOK'
  BY <1>1, <1>2, <1>4, ExceptionsArePythons DEF Invariant, ShownOK
<1>10. OriginIsShown'
  BY <1>1, <1>2, <1>4 DEF Invariant, OriginIsShown
<1>11. UnusedOK'
  BY <1>1, <1>4, <1>5 DEF Invariant, UnusedOK
<1>12. AliveOK'
  <2> SUFFICES ASSUME NEW f \in errors, f # e
               PROVE  LinesOf(f.id)' <= logged'[f.id] /\ LinesSay(log'[f.id], f.variant)
    BY <1>1 DEF AliveOK
  <2>1. f.id # e.id /\ f.id \in 1..MaxErrors
    BY <1>6 DEF Invariant, Distinct, ErrorsOK
  <2> QED
    BY <1>1, <1>5, <2>1 DEF Invariant, AliveOK, LinesOf
<1>13. RaisedOK'
  <2> SUFFICES ASSUME NEW y \in shown', y.how = "exception"
               PROVE  /\ y.heard => LinesOf(y.id)' > 0
                      /\ LinesOf(y.id)' <= logged'[y.id] + 1
                      /\ LinesSay(log'[y.id], y.variant)
    BY DEF RaisedOK
  <2>1. CASE y \in shown
    <3>1. y.id # e.id /\ y.id \in 1..MaxErrors
      BY <1>6, <2>1 DEF Invariant, Distinct, ShownOK
    <3> QED
      BY <1>1, <1>5, <2>1, <3>1 DEF Invariant, RaisedOK, LinesOf
  <2>2. CASE y = x
    <3>1. LinesOf(y.id)' <= logged'[y.id] + 1
      BY <1>1, <1>2, <1>4, <1>5, <1>6, <2>2 DEF LinesOf
    <3>2. y.heard => LinesOf(y.id)' > 0
      BY <1>2, <1>3, <1>5, <2>2 DEF LinesOf
    <3> QED
      BY <1>2, <1>5, <2>2, <3>1, <3>2
  <2> QED
    BY <1>1, <2>1, <2>2
<1> QED
  BY <1>7, <1>8, <1>9, <1>10, <1>11, <1>12, <1>13 DEF Invariant

(* Installing a subscriber, or finding one, leaves a subscriber.           *)
LEMMA InstallKeeps ==
  ASSUME StateOK, NEW levels \in Filters, NEW records \in SUBSET Spans, Install(levels, records)
  PROVE  subscriber' \in [installed : BOOLEAN, levels : Filters \cup {{}},
                          records : SUBSET Spans]
  BY DEF StateOK, Install

(* Subscribers and spans change nothing that was made, logged or shown.    *)
LEMMA SurroundingsKeep ==
  ASSUME Invariant,
         \/ InitTracing \/ HostInitTracing
         \/ \E t \in Threads, s \in Spans : EnterSpan(t, s)
         \/ \E t \in Threads : LeaveSpan(t)
         \/ UNCHANGED vars
  PROVE  Invariant'
<1>1. UNCHANGED <<errors, made, logged, log, shown>>
  BY DEF InitTracing, HostInitTracing, EnterSpan, LeaveSpan, vars
<1>2. StateOK'
  <2>1. CASE InitTracing
    BY <2>1, <1>1, InstallKeeps DEF InitTracing, Invariant, StateOK
  <2>2. CASE HostInitTracing
    BY <2>2, <1>1, InstallKeeps DEF HostInitTracing, Invariant, StateOK
  <2>3. ASSUME NEW t \in Threads, NEW s \in Spans, EnterSpan(t, s) PROVE StateOK'
    <3>1. [span |-> s, traced |-> s \in subscriber.records] \in Places
      BY DEF Places
    <3> QED
      BY <1>1, <2>3, <3>1 DEF EnterSpan, Invariant, StateOK
  <2>4. ASSUME NEW t \in Threads, LeaveSpan(t) PROVE StateOK'
    BY <1>1, <2>4 DEF LeaveSpan, Outside, Invariant, StateOK, Places
  <2>5. CASE UNCHANGED vars
    BY <2>5 DEF vars, Invariant, StateOK
  <2> QED
    BY <2>1, <2>2, <2>3, <2>4, <2>5
<1>3. /\ ErrorsOK' /\ Distinct' /\ ShownOK' /\ OriginIsShown'
      /\ UnusedOK' /\ AliveOK' /\ RaisedOK'
  BY <1>1 DEF Invariant, ErrorsOK, Distinct, ShownOK, OriginIsShown, UnusedOK, AliveOK, RaisedOK,
              LinesOf
<1> QED
  BY <1>2, <1>3 DEF Invariant

(* Every step keeps the invariant.                                         *)
LEMMA StepKeeps == Invariant /\ [Next]_vars => Invariant'
<1> SUFFICES ASSUME Invariant, [Next]_vars PROVE Invariant'
  OBVIOUS
<1>1. ASSUME NEW t \in Threads, NEW v \in Failing, OperationFails(t, v) PROVE Invariant'
  BY <1>1, MakingKeeps, FailingAssumption DEF OperationFails
<1>2. ASSUME NEW t \in Threads, NEW crate \in DOMAIN FromExternal, DependencyFails(t, crate)
      PROVE Invariant'
  BY <1>2, MakingKeeps, ExternalVariants DEF DependencyFails
<1>3. ASSUME NEW e \in errors, DebugReport(e) PROVE Invariant'
  BY <1>3, ReportKeeps
<1>4. ASSUME NEW e \in errors, LogError(e) PROVE Invariant'
  BY <1>4, LogKeeps
<1>5. ASSUME NEW t \in Threads, NEW e \in errors, IntoPyErr(t, e) PROVE Invariant'
  BY <1>5, ConversionKeeps
<1> QED
  BY <1>1, <1>2, <1>3, <1>4, <1>5, SurroundingsKeep DEF Next

(* The invariant holds in every reachable state.                           *)
THEOREM InvariantHolds == Spec => []Invariant
  BY InitInvariant, StepKeeps, PTL DEF Spec

(* Numbers, variants, spans and exceptions are what they should be; above  *)
(* all, every exception raised is of one of Python's own types.            *)
THEOREM TypeCorrect == Spec => []TypeOK
<1>1. Invariant => TypeOK
  BY DEF Invariant, StateOK, ErrorsOK, ShownOK, TypeOK
<1> QED
  BY <1>1, InvariantHolds, PTL

(* However many threads pass an error on, what is shown of it names the    *)
(* span it was made in.                                                    *)
THEOREM OriginsAreShown == Spec => []OriginIsShown
<1>1. Invariant => OriginIsShown
  BY DEF Invariant
<1> QED
  BY <1>1, InvariantHolds, PTL

(* Every exception whose level is let through has a line in the log, and   *)
(* neither it nor an error that is alive has a line that no call of log()  *)
(* on it and no conversion of it wrote.                                    *)
THEOREM RaisedAreLogged == Spec => []RaisedIsLogged
<1>1. Invariant => RaisedIsLogged
  BY DEF Invariant, AliveOK, RaisedOK, LinesSay, LinesOf, RaisedIsLogged
<1> QED
  BY <1>1, InvariantHolds, PTL

-----------------------------------------------------------------------------
(* Tables                                                                  *)

(* What a text begins with is what code() gives.                           *)
LEMMA TextsBeginWithCodes == DisplayCode = Code
  BY DEF DisplayCode, Code

(* A code names one variant.                                               *)
LEMMA CodesAreDistinct == \A v, w \in Variants : Code[v] = Code[w] => v = w
  BY DEF Variants, Code

(* What is called an invalid format is a ValueError, and nothing else is   *)
(* but what validation finds; what may be retried is nobody's mistake.     *)
LEMMA ExceptionsFollowCodes ==
  \A v \in Variants :
    /\ Family(v) = "VAL" \/ Code[v][2] = "INVALID_FORMAT" <=> ExceptionType(v) = "ValueError"
    /\ IsRetryable(v) => ExceptionType(v) = "RuntimeError"
<1>1. \A v \in Variants :
        Family(v) = "VAL" \/ Code[v][2] = "INVALID_FORMAT" <=> ExceptionType(v) = "ValueError"
  BY DEF Family, ExceptionType, Variants, Code
<1>2. \A v \in Variants : IsRetryable(v) => ExceptionType(v) = "RuntimeError"
  BY DEF IsRetryable, ExceptionType
<1> QED
  BY <1>1, <1>2

(* What is shown of an error are the codes of its variant, to the end.     *)
CodesShown ==
  \A x \in shown : x.code = Code[x.variant] /\ x.displayed = DisplayCode[x.variant]

LEMMA CodesKeepShown ==
  ASSUME CodesShown, [Next]_vars
  PROVE  CodesShown'
<1>1. ASSUME NEW e \in errors, NEW how, NEW type, NEW span,
             shown' = shown \cup {Text(e, how, type, span)}
      PROVE  CodesShown'
  BY <1>1 DEF CodesShown, Text
<1>2. CASE UNCHANGED shown
  BY <1>2 DEF CodesShown
<1>3. \/ UNCHANGED shown
      \/ \E e \in errors : \E how, type, span : shown' = shown \cup {Text(e, how, type, span)}
  BY DEF Next, InitTracing, HostInitTracing, EnterSpan, LeaveSpan, OperationFails, DependencyFails,
         WithDiagnostics, DebugReport, LogError, IntoPyErr, vars
<1> QED
  BY <1>1, <1>2, <1>3

(* However errors are passed on, converted and reported, the tables about  *)
(* them agree and a text a client was shown begins with the code of its    *)
(* variant and of no other (TablesAgree).                                  *)
THEOREM TablesDoAgree == Spec => []TablesAgree
<1>1. Init => CodesShown
  BY DEF Init, CodesShown
<1>2. CodesShown /\ [Next]_vars => CodesShown'
  BY CodesKeepShown
<1>3. TypeOK /\ CodesShown => TablesAgree
  <2> SUFFICES ASSUME TypeOK, CodesShown PROVE TablesAgree
    OBVIOUS
  <2>1. ASSUME NEW x \in shown, NEW y \in shown, x.displayed = y.code
        PROVE  x.variant = y.variant
    <3>1. Code[x.variant] = Code[y.variant]
      BY <2>1, TextsBeginWithCodes DEF CodesShown
    <3>2. x.variant \in Variants /\ y.variant \in Variants
      BY DEF TypeOK
    <3> QED
      BY <3>1, <3>2, CodesAreDistinct
  <2> QED
    BY <2>1, TextsBeginWithCodes, CodesAreDistinct, ExceptionsFollowCodes
    DEF TablesAgree, Variants
<1> QED
  BY <1>1, <1>2, <1>3, TypeCorrect, PTL DEF Spec

=============================================================================
