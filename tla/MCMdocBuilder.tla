---------------------------- MODULE MCMdocBuilder ----------------------------
(***************************************************************************)
(* A small instance of MdocBuilder: dicts of up to three claims, which may *)
(* fail to convert, dates that do not parse, a device key an MSO refuses.  *)
(***************************************************************************)
EXTENDS MdocBuilder

ThreeKeys == 1..3
TwoDates  == {1, 2}
BothKeys  == {"P-256", "P-384"}
SomeValidities == {<<1, 1, 1>>, <<2, 2, BadDate>>, <<BadDate, 2, 2>>}
=============================================================================
