----------------------------- MODULE MCSpecgen -----------------------------
EXTENDS Specgen

(* Characters: "_" sorts before the letters. *)
a == 1
b == 2
c == 3

Shape(id, depth, wellFormed) == [id |-> id, depth |-> depth, wellFormed |-> wellFormed]
Small == Shape("small", 0, "yes")
Other == Shape("other", 1, "yes")

Table(ns, name, version, kind, request, response) ==
  [ns |-> ns, name |-> name, version |-> version, kind |-> kind,
   request |-> request, response |-> response, wellFormed |-> "yes"]

(* Two versions of one operation with different shapes, a stream and an     *)
(* event of one name, two endpoints whose joined names coincide, and        *)
(* tables that are refused: nested too deep, an unknown kind.               *)
Tables == {
  Table(<<a>>, <<c>>, <<1, 0>>, "operation", Small, NoSchema),
  Table(<<a>>, <<c>>, <<2, 0>>, "operation", Other, Small),
  Table(<<a>>, <<c>>, <<2>>, "stream", NoSchema, Other),
  Table(<<a>>, <<c>>, <<2, 0>>, "event", NoSchema, Small),
  Table(<<a>>, <<b, 0, c>>, <<1, 0>>, "event", Small, Other),
  Table(<<a, 0, b>>, <<c>>, <<1, 0>>, "event", Other, Small),
  Table(<<b>>, <<c>>, <<1, 0>>, "operation", Shape("deep", 3, "yes"), NoSchema),
  Table(<<b>>, <<c>>, <<1, 0>>, "query", NoSchema, NoSchema)}
=============================================================================
