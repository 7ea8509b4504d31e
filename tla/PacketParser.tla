---------------------------- MODULE PacketParser ----------------------------
(***************************************************************************)
(* Header decoding (src/src/capture/packet_parser.cpp) of a captured frame *)
(* that may be cut short anywhere, and the choice the pcap handler makes   *)
(* from it (capture/pcap/pcap_capture.cpp).                                *)
(*                                                                         *)
(* A frame is what the decoder looks at: the number of bytes captured, the *)
(* header fields, and the bytes of the DNS question as codes.  Addresses   *)
(* and their formatting are left out.                                      *)
(***************************************************************************)
EXTENDS Naturals, Sequences

CONSTANTS
  MaxName,    \* bytes a decoded name must stay below (253)
  MaxLabels   \* labels the decoder reads (128)

ASSUME ParserAssumption == MaxName \in Nat /\ MaxLabels \in Nat

(* The printable subset a label may hold (a few of its members). *)
Letters == [code \in {46} \cup 65..67 \cup 97..99 |->
              CASE code = 46 -> "."
                [] code \in 65..67 -> <<"A", "B", "C">>[code - 64]
                [] OTHER -> <<"a", "b", "c">>[code - 96]]

Malformed == <<"malformed">>

Take(s, n) == SubSeq(s, 1, IF n < Len(s) THEN n ELSE Len(s))

(* Data that end before the zero byte (the mutant returns what was read). *)
OutOfDataAsEnd == <<>>

OutOfData == Malformed

(* One label at i: its length byte is in range, the whole label was         *)
(* captured and consists of letters.                                        *)
LabelAt(data, i) ==
  /\ data[i] < 64
  /\ i + data[i] <= Len(data)
  /\ \A j \in i + 1..i + data[i] : data[j] \in DOMAIN Letters

Label(data, i) ==
  LET text == SubSeq(data, i + 1, IF i + data[i] <= Len(data) THEN i + data[i] ELSE Len(data))
  IN [j \in DOMAIN text |-> Letters[text[j]]]

(* parse_dns_qname: labels up to the zero byte, joined by dots; nothing     *)
(* else yields a name.  NamesFrom is what is read from each position on     *)
(* with so many labels left.                                                *)
NamesFrom(data) ==
  LET from[left \in 0..MaxLabels] ==
        [i \in 1..Len(data) + 65 |->
           LET rest == from[left - 1][i + data[i] + 1]
           IN IF left = 0 \/ i > Len(data) THEN OutOfData
              ELSE IF data[i] = 0 THEN <<>>
              ELSE IF ~LabelAt(data, i) \/ rest = Malformed THEN Malformed
              ELSE IF rest = <<>> THEN Label(data, i)
              ELSE Label(data, i) \o <<".">> \o rest]
  IN from

ParseDnsQname(data) ==
  LET name == NamesFrom(data)[MaxLabels][1]
  IN IF name = Malformed \/ Len(name) >= MaxName THEN <<>> ELSE name

-----------------------------------------------------------------------------
(* parse_ethernet_frame *)

EthernetHeader == 14
Transports     == {"tcp", "udp"}

IpHeader(f) == IF f.eth = "ip4" THEN 4 * f.ihl ELSE 40

IpValid(f) ==
  \/ /\ f.eth = "ip4"
     /\ f.size >= EthernetHeader + 20
     /\ f.ihl >= 5 /\ f.size >= EthernetHeader + IpHeader(f)
  \/ f.eth = "ip6" /\ f.size >= EthernetHeader + IpHeader(f)

Remaining(f) == f.size - (EthernetHeader + IpHeader(f))

FrameValid(f) ==
  /\ f.size <= f.wire  \* the handler skips a record longer than the packet
  /\ IpValid(f)
  /\ f.proto \in Transports
  /\ Remaining(f) >= IF f.proto = "tcp" THEN 20 ELSE 8

(* UDP on port 53 in either direction; DNS data needs its 12-byte header. *)
OnDnsPort(f) == f.proto = "udp" /\ 53 \in f.ports

DnsName(f) ==
  IF OnDnsPort(f) /\ Remaining(f) >= 8 + 12 /\ f.questions >= 1
  THEN ParseDnsQname(Take(f.question, Remaining(f) - (8 + 12)))
  ELSE <<>>
=============================================================================
