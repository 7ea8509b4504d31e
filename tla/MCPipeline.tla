----------------------------- MODULE MCPipeline -----------------------------
EXTENDS Pipeline

MCSites == {[host |-> <<"a", ".", "b">>,
             url  |-> <<"h", "://", "a", ".", "B", "/", "p", "?", "q", "#", "f">>],
            [host |-> <<"b">>, url |-> <<"h", "://", "b", "#", "f", "?", "q">>]}

MCDocs == {[mode |-> "domain-mask", sensitive |-> {<<"b">>}],
           [mode |-> "domain-hash", metadata_only |-> TRUE, persist |-> TRUE],
           [mode |-> "hostname-only", sensitive |-> {<<"a", ".", "B">>}],
           [sensitive |-> {}, retention |-> 59]}

(* The question for "a.b": labels of one byte, then the zero byte. *)
Question == <<1, 97, 1, 98, 0>>

Frame(eth, ihl, proto, ports, question, name, cut) ==
  LET wire == 14 + (IF eth = "ip4" THEN 4 * ihl ELSE 40) + 20 + Len(question)
  IN [eth |-> eth, ihl |-> ihl, proto |-> proto, ports |-> ports, questions |-> 1,
      question |-> question, name |-> name, wire |-> wire, size |-> wire - cut]

MCFrames ==
  {Frame("ip4", 5, "udp", {53, 40000}, Question, <<"a", ".", "b">>, cut) : cut \in {0, 1, 2, 3, 6, 20}}
    \cup {Frame("ip6", 5, "tcp", {443, 40000}, <<>>, <<>>, 0),
          Frame("ip4", 4, "udp", {53, 40000}, Question, <<"a", ".", "b">>, 0),
          Frame("ip4", 5, "udp", {53, 40000}, <<1, 97, 192, 12>>, <<"a", ".", "b">>, 0),
          Frame("ip4", 5, "udp", {53, 40000}, <<1, 65, 1, 98, 0>>, <<"A", ".", "b">>, 0)}

MCKernelEvents == {[kind |-> "connect", pid |-> 7, name |-> <<>>],
                   [kind |-> "dns", pid |-> 7, name |-> <<"a", ".", "b">>],
                   [kind |-> "state", pid |-> 8, name |-> <<>>]}

MCBrowsers == {{}, {7}}

(* What comes after the last event's publication is not explored. *)
MoreToCome == stage # "idle" \/ spent.events < MaxEvents
=============================================================================
