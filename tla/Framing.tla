------------------------------ MODULE Framing -------------------------------
(***************************************************************************)
(* Newline framing on the daemon's socket: IpcCodec::split_frames and      *)
(* parse_request (src/src/ipc/ipc_codec.cpp) as a client thread of the     *)
(* server uses them (unix_socket_server.cpp), and the native host's        *)
(* extract_frames (native_host/src/daemon_client.cpp) on the same bytes.   *)
(*                                                                         *)
(* A byte carries the number of the request it belongs to, so that a frame *)
(* put together from parts of two requests, or cut short, can be told from *)
(* a whole one; 0 is the newline.  A recv() ends anywhere in the stream.   *)
(* A request's text is its length and the set of its defects.              *)
(***************************************************************************)
EXTENDS Naturals, Sequences, FiniteSetsExt

CONSTANTS
  Streams,    \* sequences of requests [length, defects] a peer may send
  MaxRequest, \* kMaxRequestBytes
  RecvMax     \* size of the receive buffer

(* parse_request reports the first defect in this order. *)
Order == <<"not json", "not an object", "forbidden field", "no version", "version",
           "no operation", "operation", "no id", "bad id", "params type", "params count">>

ASSUME FramingAssumption ==
  /\ MaxRequest \in Nat \ {0} /\ RecvMax \in Nat \ {0}
  /\ Streams \subseteq Seq([length : Nat, defects : SUBSET Range(Order)])

VARIABLES
  stream,   \* the requests of this peer
  wire,     \* bytes not received yet
  buffer,   \* client->rx_buffer
  open,     \* the client thread is in its loop
  replies,  \* what it delivered
  host      \* the native host's [buffer, frames] for the same chunks

vars == <<stream, wire, buffer, open, replies, host>>

Newline == 0

(* Where the newline of each request is. *)
End(s) == LET at[i \in 0..Len(s)] == IF i = 0 THEN 0 ELSE at[i - 1] + s[i].length + 1
          IN at

Bytes(s) ==
  [p \in 1..End(s)[Len(s)] |->
     IF \E i \in DOMAIN s : End(s)[i] = p THEN Newline
     ELSE CHOOSE i \in DOMAIN s : End(s)[i - 1] < p /\ p < End(s)[i]]

Init ==
  /\ stream \in Streams
  /\ wire = Bytes(stream)
  /\ buffer = <<>> /\ open = TRUE /\ replies = <<>>
  /\ host = [buffer |-> <<>>, frames |-> <<>>]

-----------------------------------------------------------------------------
(* The complete lines of the first i bytes of a buffer, and what follows    *)
(* the last newline among them.                                             *)
TakeByte(sofar, byte) ==
  IF byte = Newline
  THEN [frames |-> Append(sofar.frames, sofar.rest), rest |-> <<>>]
  ELSE [sofar EXCEPT !.rest = Append(@, byte)]

Scan(b) == LET at[i \in 0..Len(b)] == IF i = 0 THEN [frames |-> <<>>, rest |-> <<>>]
                                      ELSE TakeByte(at[i - 1], b[i])
           IN at

Frames(b) == Scan(b)[Len(b)].frames

(* Mutant: everything up to the end is erased with the frames. *)
RestForgotten(b) == IF Frames(b) = <<>> THEN b ELSE <<>>

Rest(b) == Scan(b)[Len(b)].rest

(* split_frames refuses a frame over the limit, and incomplete data that    *)
(* has reached it.  The mutant measures the buffer before the frames are    *)
(* erased.                                                                  *)
TooLongFrames(b) == \E n \in DOMAIN Frames(b) : Len(Frames(b)[n]) > MaxRequest

TooLongRestEarly(b) == Len(b) >= MaxRequest

TooLongRest(b) == Len(Rest(b)) >= MaxRequest

(* extract_frames keeps the incomplete tail too. *)
ExtractRest(b) == Rest(b)

-----------------------------------------------------------------------------
Code == [d \in Range(Order) |->
           CASE d = "not json" -> "invalid_json"
             [] d \in {"no version", "no operation", "no id"} -> "missing_field"
             [] d = "version" -> "unsupported_version"
             [] d = "operation" -> "unknown_operation"
             [] OTHER -> "schema_violation"]

Verdict(defects) ==
  IF defects = {} THEN "ok"
  ELSE Code[Order[Min({i \in DOMAIN Order : Order[i] \in defects})]]

(* handle_frame: a parsed request is answered under its id, a refused one   *)
(* with an error that carries none.  An empty line is not JSON.  s are the  *)
(* texts of the requests.                                                   *)
HandleFrame(s, f) ==
  IF f = <<>> THEN [frame |-> f, id |-> 0, code |-> "invalid_json"]
  ELSE LET code == Verdict(s[Head(f)].defects)
       IN [frame |-> f, id |-> IF code = "ok" THEN Head(f) ELSE 0, code |-> code]

Refusal == [frame |-> <<>>, id |-> 0, code |-> "message_too_large"]

-----------------------------------------------------------------------------
(* One turn of the client thread's loop.  Frames that were complete before  *)
(* the one that is refused are not handled.                                 *)
Receive(n) ==
  /\ open
  /\ LET chunk  == SubSeq(wire, 1, n)
         filled == buffer \o chunk
         atHost == host.buffer \o chunk
     IN /\ IF TooLongFrames(filled) \/ TooLongRest(filled)
           THEN /\ open' = FALSE
                /\ replies' = Append(replies, Refusal)
                /\ buffer' = IF TooLongFrames(filled) THEN filled ELSE Rest(filled)
           ELSE /\ open' = open
                /\ replies' = replies \o [k \in DOMAIN Frames(filled) |-> HandleFrame(stream, Frames(filled)[k])]
                /\ buffer' = Rest(filled)
        /\ host' = [buffer |-> ExtractRest(atHost), frames |-> host.frames \o Frames(atHost)]
  /\ wire' = SubSeq(wire, n + 1, Len(wire))
  /\ UNCHANGED stream

(* recv() returns 0 *)
PeerCloses ==
  /\ open /\ wire = <<>>
  /\ open' = FALSE
  /\ UNCHANGED <<stream, wire, buffer, replies, host>>

Next ==
  \/ \E n \in 1..RecvMax : n <= Len(wire) /\ Receive(n)
  \/ PeerCloses

Spec == Init /\ [][Next]_vars

-----------------------------------------------------------------------------
(* Properties *)

Whole(i) == [k \in 1..stream[i].length |-> i]

Refused == replies # <<>> /\ replies[Len(replies)] = Refusal

Served == IF Refused THEN SubSeq(replies, 1, Len(replies) - 1) ELSE replies

(* split_frames: however recv() cuts the stream, the frames handled are the *)
(* peer's requests, whole and in the order sent, and each has the verdict   *)
(* of its own text.                                                         *)
ServedInOrder ==
  /\ Len(Served) <= Len(stream)
  /\ \A i \in DOMAIN Served :
       /\ Served[i].frame = Whole(i)
       /\ (Served[i].id # 0) => Served[i].id = i /\ stream[i].defects = {}

(* kMaxRequestBytes: the connection is given up for a request that reaches  *)
(* the limit and for nothing else.  With shorter requests every one is      *)
(* answered by the time the peer closes; one over the limit is never        *)
(* handled, and by the time its newline has been received the connection    *)
(* has been given up.                                                       *)
RefusedForLength ==
  /\ (\A i \in DOMAIN stream : stream[i].length < MaxRequest) =>
       ~Refused /\ (~open => Len(Served) = Len(stream))
  /\ \A i \in DOMAIN stream : (stream[i].length > MaxRequest) =>
       /\ Len(Served) < i
       /\ End(stream)[i] + Len(wire) <= Len(Bytes(stream)) => ~open

(* extract_frames at the other end of a connection finds the same frames as *)
(* split_frames, for streams that the latter serves.                        *)
EndsAgree == (open /\ ~Refused) => host.frames = [i \in DOMAIN Served |-> Served[i].frame]
=============================================================================
