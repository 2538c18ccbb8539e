------------------------------- MODULE MCFnv1a -------------------------------
(***************************************************************************)
(* The keys whose hash or shard the tests of src/lib.rs (golden vectors,   *)
(* published vectors, coordinator placements), of src/lock_coordination.rs *)
(* and of tests/cross_language_contract.rs freeze, as their UTF-8 bytes.   *)
(***************************************************************************)
EXTENDS TLC, Fnv1a

MCVector ==
  ("empty" :> <<>>)
  @@ ("a" :> <<97>>)
  @@ ("b" :> <<98>>)
  @@ ("foobar" :> <<102, 111, 111, 98, 97, 114>>)
  @@ ("hello" :> <<104, 101, 108, 108, 111>>)
  @@ ("checkout" :> <<99, 104, 101, 99, 107, 111, 117, 116>>)
  @@ ("orders" :> <<111, 114, 100, 101, 114, 115>>)
  @@ ("orders/checkout" :> <<111, 114, 100, 101, 114, 115, 47, 99, 104, 101, 99, 107,
       111, 117, 116>>)
  @@ ("lock coordinator" :> <<0, 102, 105, 100, 117, 99, 105, 97, 45, 108, 111, 99, 107,
       45, 99, 111, 111, 114, 100, 105, 110, 97, 116, 111, 114>>)
  @@ ("service discovery" :> <<0, 102, 105, 100, 117, 99, 105, 97, 45, 115, 101, 114,
       118, 105, 99, 101, 45, 100, 105, 115, 99, 111, 118, 101, 114, 121>>)
  @@ ("tenant org_a" :> <<0, 102, 105, 100, 117, 99, 105, 97, 45, 108, 111, 99, 107, 45,
       100, 111, 109, 97, 105, 110, 45, 118, 49, 0, 116, 101, 110, 97, 110, 116, 0, 53,
       0, 111, 114, 103, 95, 97>>)
  @@ ("tenant org_b" :> <<0, 102, 105, 100, 117, 99, 105, 97, 45, 108, 111, 99, 107, 45,
       100, 111, 109, 97, 105, 110, 45, 118, 49, 0, 116, 101, 110, 97, 110, 116, 0, 53,
       0, 111, 114, 103, 95, 98>>)
  @@ ("shared workspace-7" :> <<0, 102, 105, 100, 117, 99, 105, 97, 45, 108, 111, 99,
       107, 45, 100, 111, 109, 97, 105, 110, 45, 118, 49, 0, 115, 104, 97, 114, 101,
       100, 0, 49, 49, 0, 119, 111, 114, 107, 115, 112, 97, 99, 101, 45, 55>>)
  @@ ("system cron" :> <<0, 102, 105, 100, 117, 99, 105, 97, 45, 108, 111, 99, 107, 45,
       100, 111, 109, 97, 105, 110, 45, 118, 49, 0, 115, 121, 115, 116, 101, 109, 0, 52,
       0, 99, 114, 111, 110>>)
  @@ ("lock sign" :> <<240, 159, 148, 146>>)
  @@ ("orders/account" :> <<111, 114, 100, 101, 114, 115, 47, 231, 187, 147, 232, 180,
       166>>)
  @@ ("e acute" :> <<195, 169>>)
  @@ ("e, acute" :> <<101, 204, 129>>)
  @@ ("org-a orders/42" :> <<1, 111, 114, 103, 45, 97, 1, 111, 114, 100, 101, 114, 115,
       47, 52, 50>>)

MCDigest ==
     ("empty" :> <<33052, 40389>>)
  @@ ("a" :> <<58380, 10540>>)
  @@ ("b" :> <<59148, 11749>>)
  @@ ("foobar" :> <<49052, 63848>>)
  @@ ("hello" :> <<20383, 11435>>)
  @@ ("orders/checkout" :> <<53783, 27805>>)
  @@ ("tenant org_a" :> <<53293, 59512>>)
  @@ ("tenant org_b" :> <<54061, 60721>>)
  @@ ("shared workspace-7" :> <<36219, 21351>>)
  @@ ("system cron" :> <<27153, 14608>>)
  @@ ("lock sign" :> <<44440, 51386>>)
  @@ ("orders/account" :> <<55311, 30694>>)
  @@ ("e acute" :> <<7837, 59585>>)
  @@ ("e, acute" :> <<64155, 50975>>)
  @@ ("org-a orders/42" :> <<36646, 30717>>)

MCPlacement == {
  <<"checkout", 8, 1>>, <<"orders", 8, 4>>, <<"orders/checkout", 8, 5>>,
  <<"lock coordinator", 8, 7>>, <<"lock coordinator", 16, 15>>,
  <<"lock coordinator", 256, 223>>, <<"lock coordinator", 1024, 223>>,
  <<"service discovery", 8, 1>>, <<"service discovery", 16, 9>>,
  <<"service discovery", 256, 233>>, <<"service discovery", 1024, 233>>,
  <<"tenant org_a", 256, 120>>, <<"tenant org_b", 256, 49>>,
  <<"shared workspace-7", 256, 103>>, <<"system cron", 256, 16>>}
=============================================================================
