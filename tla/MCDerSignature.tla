--------------------------- MODULE MCDerSignature ---------------------------
(***************************************************************************)
(* Small instances of DerSignature: COSE coordinates of two bytes, signers *)
(* of one to three, with bytes on both sides of the sign bit, and a long   *)
(* form that begins at eight bytes, so that signatures take either form.   *)
(***************************************************************************)
EXTENDS DerSignature

SignBytes    == {0, 1, 127, 128}
SignerWidths == 1..3
=============================================================================
