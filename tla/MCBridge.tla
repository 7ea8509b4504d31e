------------------------------ MODULE MCBridge ------------------------------
EXTENDS Bridge

MCOthers == {[op |-> "hello", form |-> f] :
               f \in {"bad frame", "bad json", "not a request"}}
              \cup {[op |-> "shutdown", form |-> "request"]}
=============================================================================
