--------------------- MODULE MCPresentationVerification ---------------------
(***************************************************************************)
(* A small instance of PresentationVerification: two verifiers that draw   *)
(* the same nonce, one of them a second one; two issuers of mdocs under    *)
(* two roots; a licence and a second document with the same namespace.     *)
(***************************************************************************)
EXTENDS PresentationVerification, TLC

SomeSessions ==
  {[verifier |-> "v1", nonce |-> 1], [verifier |-> "v1", nonce |-> 2], [verifier |-> "v2", nonce |-> 1]}

SomeRootOf == [i1 |-> "r1", i2 |-> "r2"]

Licence ==
  [issuer |-> "i1",
   namespaces |-> MdlNamespace :> [family_name |-> 1, birth_date |-> 2]]
Permit ==
  [issuer |-> "i2",
   namespaces |-> (MdlNamespace :> [family_name |-> 3, given_name |-> 4])
                    @@ ("permit" :> [valid |-> 5])]
Badge == [issuer |-> "i1", namespaces |-> "badge" :> [number |-> 6]]

SomeDocLists == {<<Licence, Permit>>, <<Permit, Licence>>, <<Badge>>}

SomeTrusts ==
  {[roots |-> {"r1"}, pinned |-> {}],     [roots |-> {"r1"}, pinned |-> {"i2"}],
   [roots |-> {}, pinned |-> {"i1"}],     [roots |-> {}, pinned |-> {"r1"}],
   [roots |-> {"r1", "r2"}, pinned |-> {}]}

SomeKeys == {[family |-> "EC", id |-> 1], [family |-> "Ed", id |-> 2], [family |-> "none", id |-> 3]}

SomeAlgorithms == {"ES256", "EdDSA", "HS256"}
SomeBbsLists   == {<<1, 2>>, <<2, 1>>}
SomeIndexLists == {<<1>>, <<0, 1>>, <<2>>}
=============================================================================
