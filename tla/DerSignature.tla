---------------------------- MODULE DerSignature ----------------------------
(***************************************************************************)
(* der_to_cose_signature (src/mdoc/helpers.rs): the DER ECDSA signature an *)
(* HSM returns becomes the fixed-width R || S that COSE carries.  A signer *)
(* signs with a curve of some width, which need not be that of COSE, its   *)
(* DER reaches the library whole or cut short, and the library converts it.*)
(*                                                                         *)
(* The conversion checks the two tags and the minimal length; it reads     *)
(* lengths from the input and slices by them, and a slice beyond the end   *)
(* of the input is a panic, not an error.                                  *)
(***************************************************************************)
EXTENDS Integers, Sequences

CONSTANTS CoordBytes,  (* width of one coordinate in COSE: 32 for P-256     *)
          LongForm,    (* the first length that DER writes in the long form *)
                       (* and the bit that says so: 128                     *)
          Bytes,       (* the values bytes take in the instance             *)
          Widths       (* widths of the coordinates of the signers' curves  *)

(* An integer has a length of one byte, and so has, in the long form after *)
(* the byte that announces it, the whole: so with all curves in use, P-521 *)
(* and its 66 bytes among them.                                            *)
ASSUME WidthsAssumption ==
  /\ CoordBytes \in Nat \ {0}
  /\ LongForm \in 2..128
  /\ Widths \subseteq Nat \ {0}
  /\ \A n \in Widths : n + 1 < LongForm /\ 2 * n + 6 <= 255
ASSUME BytesAssumption == Bytes \subseteq 0..255

VARIABLES coords,  (* the two coordinates the signer computed               *)
          der,     (* what reached the library                              *)
          whole,   (* it is all the signer sent                             *)
          result   (* what the conversion returned                          *)

vars == <<coords, der, whole, result>>

-----------------------------------------------------------------------------
(* External: DER, as an HSM writes it.                                     *)

SEQUENCE == 48
INTEGER  == 2

LeadingZeros(x, k) == \A i \in 1..k : x[i] = 0

(* The position of the first byte DER keeps: no zero before it is needed.  *)
First(x) ==
  CHOOSE k \in 1..Len(x) : /\ LeadingZeros(x, k - 1)
                           /\ x[k] # 0 \/ k = Len(x)

(* A positive INTEGER: the shortest form, with a zero where the top bit    *)
(* would make it negative.                                                 *)
Content(x) ==
  LET kept == SubSeq(x, First(x), Len(x))
  IN  IF kept[1] >= 128 THEN <<0>> \o kept ELSE kept

LengthBytes(n) == IF n < LongForm THEN <<n>> ELSE <<LongForm + 1, n>>

DerEncode(r, s) ==
  LET body == <<INTEGER, Len(Content(r))>> \o Content(r)
                \o <<INTEGER, Len(Content(s))>> \o Content(s)
  IN  <<SEQUENCE>> \o LengthBytes(Len(body)) \o body

-----------------------------------------------------------------------------
(* The conversion.  Positions are those of the code, from 0.               *)

At(d, pos) == d[pos + 1]

Failure(status) == [status |-> status, cose |-> <<>>]

(* Where R begins: the SEQUENCE length is skipped, never compared with the *)
(* input; in the long form the other bits of its first byte say how many   *)
(* bytes follow.                                                           *)
StartOfR(d) == IF At(d, 1) < LongForm THEN 2 ELSE 2 + (At(d, 1) - LongForm)

(* Mutation: a slice that ends where the input ends.                       *)
ParseIntegerLeniently(d, pos) ==
  IF pos + 1 >= Len(d) THEN [status |-> "Panic", bytes |-> <<>>, next |-> pos]
  ELSE IF At(d, pos) # INTEGER THEN [status |-> "Err", bytes |-> <<>>, next |-> pos]
  ELSE LET end == pos + 2 + At(d, pos + 1)
       IN  [status |-> "Ok", next |-> end,
            bytes  |-> SubSeq(d, pos + 3, IF end > Len(d) THEN Len(d) ELSE end)]

(* Tag, length and bytes of one INTEGER, each read panicking past the end. *)
ParseInteger(d, pos) ==
  IF pos >= Len(d) THEN [status |-> "Panic", bytes |-> <<>>, next |-> pos]
  ELSE IF At(d, pos) # INTEGER THEN [status |-> "Err", bytes |-> <<>>, next |-> pos]
  ELSE IF pos + 1 >= Len(d) \/ pos + 2 + At(d, pos + 1) > Len(d)
       THEN [status |-> "Panic", bytes |-> <<>>, next |-> pos]
  ELSE LET end == pos + 2 + At(d, pos + 1)
       IN  [status |-> "Ok", bytes |-> SubSeq(d, pos + 3, end), next |-> end]

(* Mutation: the leading zero of a full-width integer stays.               *)
TrimNothing(x) == x

(* The zero of a positive integer is dropped when it makes it too long.    *)
Trim(x) == IF Len(x) > CoordBytes /\ x[1] = 0 THEN Tail(x) ELSE x

(* Mutation: a short integer is not filled up.                             *)
PadNothing(x) == x

(* Right-aligned in the coordinate; of a longer integer the first bytes.   *)
Pad(x) ==
  LET kept == IF Len(x) < CoordBytes THEN Len(x) ELSE CoordBytes
      zeros == CoordBytes - kept
  IN  [i \in 1..CoordBytes |-> IF i <= zeros THEN 0 ELSE x[i - zeros]]

DerToCose(d) ==
  IF Len(d) < 8 \/ At(d, 0) # SEQUENCE THEN Failure("Err")
  ELSE LET r == ParseInteger(d, StartOfR(d))
           s == ParseInteger(d, r.next)
       IN  IF r.status # "Ok" THEN Failure(r.status)
           ELSE IF s.status # "Ok" THEN Failure(s.status)
           ELSE [status |-> "Ok", cose |-> Pad(Trim(r.bytes)) \o Pad(Trim(s.bytes))]

-----------------------------------------------------------------------------
Pending == Failure("Pending")

Init ==
  /\ \E n \in Widths : coords \in [1..2 -> [1..n -> Bytes]]
  /\ der = DerEncode(coords[1], coords[2])
  /\ whole = TRUE
  /\ result = Pending

(* The answer is cut on its way.                                           *)
Truncate ==
  /\ whole /\ result = Pending
  /\ \E k \in 1..(Len(der) - 1) : der' = SubSeq(der, 1, k)
  /\ whole' = FALSE
  /\ UNCHANGED <<coords, result>>

Convert ==
  /\ result = Pending
  /\ result' = DerToCose(der)
  /\ UNCHANGED <<coords, der, whole>>

Next == Truncate \/ Convert

Spec == Init /\ [][Next]_vars

-----------------------------------------------------------------------------
ByteStrings == Seq(0..255)

TypeOK ==
  /\ \E n \in Widths : coords \in [1..2 -> [1..n -> Bytes]]
  /\ der \in ByteStrings
  /\ whole \in BOOLEAN
  /\ result.status \in {"Pending", "Ok", "Err", "Panic"}
  /\ result.cose \in ByteStrings
  /\ Len(result.cose) = IF result.status = "Ok" THEN 2 * CoordBytes ELSE 0

(* A coordinate in the width of COSE, its value kept where it fits: filled *)
(* up on the left, or without leading zeros.  Of a value that does not fit *)
(* the code keeps the leading bytes.                                       *)
Fitted(x) ==
  LET wide == Len(x) - CoordBytes
  IN  [i \in 1..CoordBytes |->
         IF ~LeadingZeros(x, wide) THEN x[First(x) + i - 1]
         ELSE IF i + wide >= 1 THEN x[i + wide] ELSE 0]

(* A signature that arrives whole is converted to exactly the coordinates  *)
(* its signer computed, of whatever width, whatever zeros DER dropped from *)
(* them or put before them and in whichever form it wrote the length.  No  *)
(* width is refused: values wider than COSE's are cut without an error.    *)
ConversionIsExact ==
  whole /\ result # Pending =>
    result = [status |-> "Ok", cose |-> Fitted(coords[1]) \o Fitted(coords[2])]

(* A signature that was cut short is never converted: no proper prefix of  *)
(* a DER signature gives a COSE signature, right or wrong.                 *)
TruncatedNeverAccepted == ~whole => result.status # "Ok"

-----------------------------------------------------------------------------
(* What the documentation says and the code does not do                    *)

(* der_to_cose_signature returns a PyResult and names the errors of a      *)
(* signature that is "too short" or lacks a tag: bad input is an error.    *)
NeverPanics == result.status # "Panic"
=============================================================================
