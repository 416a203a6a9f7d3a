---------------------------- MODULE StreamHeader ----------------------------
(***************************************************************************)
(* The header that OpenStream writes at the beginning of a stream and the  *)
(* handler at the other end reads (internal/protocol): what the stream is  *)
(* for, and the host and port to connect to, as bytes.                     *)
(***************************************************************************)
EXTENDS Naturals, Sequences

Byte == 0 .. 255
MaxPort == 65535
Port == 0 .. MaxPort

ProxyPattern == 1
SSHPattern == 2

(* A host is the sequence of its bytes. *)
ConnProperty == [pattern : Byte, host : Seq(Byte), port : Port]

EncodableAlways(p) == TRUE      \* Slip: a long host is not refused

(* The length of the host has one byte; the code refuses a longer host. *)
Encodable(p) == Len(p.host) <= 255

EncodeConnProperty(p) ==
    <<p.pattern, p.port \div 256, p.port % 256, Len(p.host) % 256>> \o p.host

(* The header is there as a whole: ReadFull returns twice. *)
HeaderComplete(wire) == Len(wire) >= 4 /\ Len(wire) >= 4 + wire[4]

ResolveConnProperty(wire) ==
    [pattern |-> wire[1],
     host    |-> SubSeq(wire, 5, 4 + wire[4]),
     port    |-> 256 * wire[2] + wire[3]]

(* The bytes behind the header, which are left to the relay. *)
AfterHeader(wire) == SubSeq(wire, 5 + wire[4], Len(wire))

=============================================================================
