------------------------------ MODULE Specgen ------------------------------
(***************************************************************************)
(* Spec generation (src/src/specgen): validation of endpoint descriptors   *)
(* (model/descriptor.cpp), generate() (specgen.cpp) and the three emitters *)
(* (emitters/emitters.cpp), as lezcap.spec.generate calls them             *)
(* (drivers/lua/bindings/lezcap.cpp).                                      *)
(*                                                                         *)
(* A document is what decides whether two endpoints can be told apart in   *)
(* it: the entries it holds under which key, and the references between    *)
(* them.  Keys are the strings the emitters join with "_", so names are    *)
(* sequences of characters; a character is its code, and Underscore is one *)
(* of them.  Titles, annotations and layout are left out.                  *)
(***************************************************************************)
EXTENDS Naturals, Sequences, FiniteSetsExt

CONSTANTS
  Inputs,      \* descriptor tables a script passes: ns, name, version, kind,
               \* request, response, wellFormed
  NoSchema,    \* an absent request or response
  Underscore,  \* the code of "_"
  MaxBundle,   \* endpoints in one document (256)
  MaxDepth,    \* kMaxSchemaDepth
  MaxInputs    \* bound on the tables in the list

(* A character is a number, and the fields that sort are strings of them. *)
ASSUME SpecgenAssumption ==
  /\ MaxBundle \in Nat /\ MaxDepth \in Nat /\ MaxInputs \in Nat
  /\ \A t \in Inputs : t.ns \in Seq(Nat) /\ t.name \in Seq(Nat) /\ t.version \in Seq(Nat)

VARIABLES
  format,  \* the format asked for
  passed,  \* the tables the script has put into its list
  result   \* what the last call returned for that list: an error, or the document

vars == <<format, passed, result>>

Formats == {"openapi-3.1", "asyncapi-2", "json-schema"}
Kinds   == {"operation", "stream", "event"}

-----------------------------------------------------------------------------
(* Validation. *)

(* valid_schema_subset: every node within the depth limit and well formed   *)
(* (known keys and types, bounded properties, required and enum).           *)
ValidSchemaSubset(schema) ==
  schema.depth <= MaxDepth /\ schema.wellFormed = "yes"

(* validate_endpoint_descriptor: the fields that are only checked for shape *)
(* are "wellFormed".                                                        *)
ValidDescriptor(d) ==
  /\ d.wellFormed = "yes"
  /\ d.ns # <<>> /\ d.name # <<>> /\ d.kind \in Kinds
  /\ d.request # NoSchema => ValidSchemaSubset(d.request)
  /\ d.response # NoSchema => ValidSchemaSubset(d.response)

-----------------------------------------------------------------------------
(* The emitters: endpoints sorted by (ns, name, version) are written into   *)
(* JSON objects, a later one replacing an earlier one under the same key.   *)
(* S is a set of positions in the list of endpoints.                        *)

(* std::string's operator<. *)
Before(s, t) ==
  \E i \in 0..Len(s) :
    /\ i < Len(t)
    /\ \A j \in 1..i : s[j] = t[j]
    /\ i = Len(s) \/ s[i + 1] < t[i + 1]

(* The comparison of sort_endpoints.  The mutant leaves the version out. *)
SortsBeforeByName(a, b) ==
  \/ Before(a.ns, b.ns)
  \/ a.ns = b.ns /\ Before(a.name, b.name)

SortsBefore(a, b) ==
  \/ Before(a.ns, b.ns)
  \/ a.ns = b.ns /\ Before(a.name, b.name)
  \/ a.ns = b.ns /\ a.name = b.name /\ Before(a.version, b.version)

(* What sort_endpoints and the loop behind it leave of the endpoints that   *)
(* go under one key: the one that sorts last.  std::sort fixes no order     *)
(* among those the comparison does not tell apart (here, that of the list); *)
(* generate() refuses a list that has such endpoints.                       *)
SortedLast(endpoints, S) ==
  Max({i \in S : \A j \in S : ~SortsBefore(endpoints[i], endpoints[j])})

(* ns + "_" + name, and the path that also holds the version.  The mutant   *)
(* is a path without it.                                                    *)
Joined(e) == e.ns \o <<Underscore>> \o e.name

UnversionedPath(e) == <<e.ns, e.name>>

Path(e) == <<e.ns, e.name, e.version>>

HasSchema(e, side) ==
  (IF side = "request" THEN e.request ELSE e.response) # NoSchema

(* The schema names an OpenAPI operation refers to; streams only leave a    *)
(* marker.  Their schemas are stored all the same.  The mutant refers to    *)
(* both sides of every operation.                                           *)
RefsBoth(e) == {side \in {"request", "response"} : e.kind # "stream"}

Refs(e) == {side \in {"request", "response"} : HasSchema(e, side) /\ e.kind # "stream"}

(* The endpoints that are left in an object under their paths, or names. *)
ByPath(endpoints, S) ==
  [k \in {Path(endpoints[i]) : i \in S} |->
     endpoints[SortedLast(endpoints, {i \in S : Path(endpoints[i]) = k})]]

ByName(endpoints, S) ==
  [k \in {Joined(endpoints[i]) : i \in S} |->
     endpoints[SortedLast(endpoints, {i \in S : Joined(endpoints[i]) = k})]]

Having(endpoints, side) == {i \in DOMAIN endpoints : HasSchema(endpoints[i], side)}

(* emit_openapi31 *)
EmitOpenApi31(endpoints) ==
  LET requests  == ByName(endpoints, Having(endpoints, "request"))
      responses == ByName(endpoints, Having(endpoints, "response"))
  IN [paths     |-> ByPath(endpoints, DOMAIN endpoints),
      refs      |-> UNION {{<<Joined(e), side>> : side \in Refs(e)} : e \in Range(endpoints)},
      requests  |-> [k \in DOMAIN requests |-> requests[k].request],
      responses |-> [k \in DOMAIN responses |-> responses[k].response]]

(* emit_asyncapi2: no operations; channels by path, messages by name. *)
EventSurfaces(endpoints) == {i \in DOMAIN endpoints : endpoints[i].kind # "operation"}

EmitAsyncApi2(endpoints) ==
  LET channels == ByPath(endpoints, EventSurfaces(endpoints))
      messages == ByName(endpoints, EventSurfaces(endpoints))
  IN [channels |-> [k \in DOMAIN channels |-> Joined(channels[k])],
      messages |-> [k \in DOMAIN messages |-> messages[k].response]]

(* emit_json_schema: one definition by name. *)
EmitJsonSchema(endpoints) == [defs |-> ByName(endpoints, DOMAIN endpoints)]

-----------------------------------------------------------------------------
(* generate() *)

Same(a, b) == a.ns = b.ns /\ a.name = b.name /\ a.version = b.version

Accepts(endpoints) ==
  /\ Len(endpoints) <= MaxBundle
  /\ \A i, j \in DOMAIN endpoints : i < j => ~Same(endpoints[i], endpoints[j])

Document(f, endpoints) ==
  CASE f = "openapi-3.1" -> EmitOpenApi31(endpoints)
    [] f = "asyncapi-2"  -> EmitAsyncApi2(endpoints)
    [] f = "json-schema" -> EmitJsonSchema(endpoints)

Refused == [error |-> "refused"]

Generate(f, endpoints) == IF Accepts(endpoints) THEN Document(f, endpoints) ELSE Refused

Init == format \in Formats /\ passed = <<>> /\ result = Refused

(* spec_generate: one invalid table refuses the call. *)
SpecGenerate(f) ==
  /\ format' = f
  /\ result' = IF /\ Len(passed) <= MaxBundle
                  /\ \A i \in DOMAIN passed : ValidDescriptor(passed[i])
               THEN Generate(f, passed)
               ELSE Refused
  /\ UNCHANGED passed

(* The script puts another table into its list. *)
AddTable(t) ==
  /\ Len(passed) < MaxInputs
  /\ passed' = Append(passed, t) /\ result' = Refused
  /\ UNCHANGED format

Next == (\E f \in Formats : SpecGenerate(f)) \/ (\E t \in Inputs : AddTable(t))

Spec == Init /\ [][Next]_vars

-----------------------------------------------------------------------------
(* Properties *)

Documented == result # Refused

(* "identical inputs produce byte-identical output": the order in which the *)
(* endpoints are passed decides neither whether a document is produced nor  *)
(* which entry survives where two endpoints share a key.                    *)
OrderIrrelevant ==
  Documented =>
    \A p \in Bijection(DOMAIN passed, DOMAIN passed) :
      Generate(format, [i \in DOMAIN passed |-> passed[p[i]]]) = result

(* Every endpoint is found in the document of the surfaces it belongs to:   *)
(* an OpenAPI path of its own, an AsyncAPI channel of its own.              *)
NothingOverwritten ==
  Documented =>
    /\ format = "openapi-3.1" =>
         \A i \in DOMAIN passed : \E p \in DOMAIN result.paths : result.paths[p] = passed[i]
    /\ format = "asyncapi-2" =>
         Cardinality(DOMAIN result.channels) =
           Cardinality({i \in DOMAIN passed : passed[i].kind # "operation"})

(* Every reference of a document resolves inside it. *)
RefsResolve ==
  Documented =>
    /\ format = "openapi-3.1" =>
         \A r \in result.refs :
           r[1] \in IF r[2] = "request" THEN DOMAIN result.requests ELSE DOMAIN result.responses
    /\ format = "asyncapi-2" =>
         \A c \in DOMAIN result.channels : result.channels[c] \in DOMAIN result.messages
=============================================================================
