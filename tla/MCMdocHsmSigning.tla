-------------------------- MODULE MCMdocHsmSigning --------------------------
(***************************************************************************)
(* Small instances of MdocHsmSigning: the requests callers make.           *)
(***************************************************************************)
EXTENDS MdocHsmSigning, TLC

CONSTANTS h1, h2

Py(type, data) == [type |-> type, data |-> data]

Validity == [signed |-> 3, validFrom |-> 4, validUntil |-> 9]

Request(docType, namespaces) ==
  [docType |-> docType, namespaces |-> namespaces, validity |-> Validity,
   deviceKey |-> "P-256", digestAlgorithm |-> "SHA-256"]

(* Two namespaces, two claims in one of them, a dict among the values.     *)
License == Request("mDL",
  [identity |-> (1 :> Py("str", "Nguyen")) @@ (2 :> Py("dict", [day |-> Py("int", 1)])),
   status   |-> 2 :> Py("bool", 1)])

(* The same elements with their values exchanged, in another document type.*)
Exchanged == Request("pid",
  [identity |-> (1 :> Py("int", 1)) @@ (2 :> Py("str", "Nguyen"))])

(* A namespace without claims beside one with a claim.                     *)
HalfEmpty == Request("mDL", [identity |-> (1 :> Py("str", "Avery")), status |-> <<>>])

(* A namespace without claims: nothing that a salt goes into.              *)
Empty == Request("mDL", [identity |-> <<>>])

(* One request per reason to refuse.                                       *)
Refused ==
  {Request("mDL", <<>>),
   Request("mDL", [identity |-> 1 :> Py("unprintable", 1)]),
   Request("mDL", [identity |-> 1 :> Py("dict", [day |-> Py("unprintable", 1)])]),
   [License EXCEPT !.validity.validFrom = BadDate],
   [License EXCEPT !.validity.validUntil = 12],
   [License EXCEPT !.deviceKey = "P-384"],
   [License EXCEPT !.deviceKey = "none"],
   [License EXCEPT !.digestAlgorithm = "SHA-1"]}

AllRequests    == {License, Exchanged, HalfEmpty, Empty} \cup Refused
OnlyLicense    == {License}
=============================================================================
