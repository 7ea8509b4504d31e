--------------------------- MODULE MCSqliteStore ---------------------------
(* Small instances of the event store for TLC. *)
EXTENDS SqliteStore, TLC

(* pcap events carry a fresh UUID each. *)
DistinctIds == [e \in Event |-> e]

(* eBPF events leave Event::event_id empty: normalize_connect, _dns and    *)
(* _socket_state in ebpf_events.cpp never assign it.                       *)
EmptyIds == [e \in Event |-> ""]

(* All events are equally old; the cutoff 1 expires them, 0 does not. *)
SameStamp == [e \in Event |-> 0]

Symmetry == Permutations(Event)
=============================================================================
