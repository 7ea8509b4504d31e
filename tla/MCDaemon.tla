------------------------------ MODULE MCDaemon ------------------------------
EXTENDS Daemon

(* Every combination of the three options start() looks at. *)
AllConfigs == [storage : {"on", "off"}, ebpf : {"on", "off"}, fallback : {"on", "off"}]
=============================================================================
