------------------------- MODULE MCDriverInstance -------------------------
EXTENDS DriverInstance

Doc(capabilities, types, e, s, script, pin) ==
  [wellFormed |-> "yes", capabilities |-> capabilities, types |-> types, endpoints |-> e,
   subscriptions |-> s, script |-> script, pin |-> pin]

Inside  == <<"/", "a", "/", "s">>
Sibling == <<"/", "a", "b">>

(* Manifests that differ in what they grant, lower and pin, and some that   *)
(* are refused: a script beside the allowlisted directory, an unknown       *)
(* capability, a pin of another content, a text that is no manifest.        *)
SomeDocuments == {
  Doc({"endpoint"}, {}, 1, 64, Inside, ""),
  Doc({"endpoint", "dns"}, {"dns"}, 3, 0, Inside, "good"),
  Doc({"capture"}, {}, 0, 3, Inside, ""),
  Doc({"capture"}, {"dns"}, 0, 1, Inside, "good"),
  Doc({"events"}, {}, 0, 0, Inside, ""),
  Doc({"log"}, {}, 0, 0, Sibling, ""),
  Doc({"ffi"}, {}, 0, 0, Inside, ""),
  [Doc({}, {}, 0, 0, Inside, "") EXCEPT !.wellFormed = "no"]}

SomeEvents == [type : {"dns", "connection"}, transport : {"udp", "tcp"}, confidence : {0, 1}]
                \cup [type : {"status"}, transport : {"none"}, confidence : {1}]

SomeFilters == {
  [type |-> "dns", transport |-> "", confidence |-> 0],
  [type |-> "", transport |-> "tcp", confidence |-> 0],
  [type |-> "", transport |-> "", confidence |-> 1]}

OneDirectory == {<<"/", "a">>}
Limits == [endpoints |-> 2, subscriptions |-> 2, rate |-> 2, faults |-> 3]
=============================================================================
