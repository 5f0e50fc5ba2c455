------------------------------ MODULE ValueCodec ------------------------------
(***************************************************************************)
(* The value encoding of ovs-p4ctl (lines 157-211): bitwidthToBytes,      *)
(* encodeNum through its hexadecimal string, decodeNum, and encode, which *)
(* infers the type of its argument.                                       *)
(*                                                                         *)
(* A byte string is a sequence of numbers in 0..255 and a hexadecimal     *)
(* string a sequence of digit values in 0..15, with NonHex standing for   *)
(* any other character ('-' of a negative number).  A value handed to     *)
(* encode is a record: an int, or a str classified by the two patterns    *)
(* (mac_pattern, ip_pattern); a str that matches neither keeps its        *)
(* character codes, since encode passes it through as it is.              *)
(***************************************************************************)
EXTENDS Integers, Sequences

\* A character of a '%x' string that is not a hexadecimal digit.
NonHex == 16

\* What the patterns make of a str: "mac" (mac_pattern), "ipv4"
\* (ip_pattern, every octet at most 255), "badquad" (ip_pattern, an octet
\* above 255), "plain" (neither).
StrKinds == {"mac", "ipv4", "badquad", "plain"}

\* A Python int, and a Python str (num is the address a MAC or IPv4 text
\* denotes, chars the character codes of a plain one).
IntVal(n) == [type |-> "int", kind |-> "int", num |-> n, chars |-> << >>]
StrVal(k, n, c) == [type |-> "str", kind |-> k, num |-> n, chars |-> c]

\* What encode returns or raises: err is "none" or the failure; str tells
\* whether the result is the passed-through str rather than bytes.
Bytes(s) == [err |-> "none", str |-> FALSE, bytes |-> s]
Fail(e)  == [err |-> e, str |-> FALSE, bytes |-> << >>]

\* The reference: n as len bytes, big-endian (spec 4.1).
BigEndian(n, len) ==
    LET \* n with its last j bytes shifted out
        shifted[j \in 0..len] == IF j = 0 THEN n ELSE shifted[j - 1] \div 256
    IN  [i \in 1..len |-> shifted[len - i] % 256]

\* encodeMac: codecs.decode of the 12 hex digits, six bytes.
EncodeMac(x) == BigEndian(x.num, 6)

\* encodeIPv4: socket.inet_aton, the four octets in network order.
EncodeIPv4(x) == BigEndian(x.num, 4)

\* bitwidthToBytes: int(math.ceil(bitwidth / 8.0)).
BitwidthToBytes(bitwidth) == (bitwidth + 7) \div 8

\* Number of digits of '%x' % n, for n >= 0.
HexLen[n \in Nat] == IF n < 16 THEN 1 ELSE 1 + HexLen[n \div 16]

\* '%x' % number: the digits of |number|, after a '-' if it is negative.
NumStr(number) ==
    LET m      == IF number < 0 THEN -number ELSE number
        digits == [i \in 1..HexLen[m] |-> (m \div 16^(HexLen[m] - i)) % 16]
    IN  IF number < 0 THEN <<NonHex>> \o digits ELSE digits

\* Mutant: padded to byte_len digits instead of byte_len * 2.
PaddedHalf(number, bitwidth) ==
    LET s == NumStr(number)
    IN  [i \in 1..(BitwidthToBytes(bitwidth) - Len(s)) |-> 0] \o s

\* '0' * (byte_len * 2 - len(num_str)) + num_str (no zeros when negative).
Padded(number, bitwidth) ==
    LET s == NumStr(number)
    IN  [i \in 1..(BitwidthToBytes(bitwidth) * 2 - Len(s)) |-> 0] \o s

\* codecs.decode(val, 'hex_codec'): fails on an odd length or a non-hex
\* character; otherwise each pair of digits is one byte.
HexDecodable(val) == Len(val) % 2 = 0 /\ \A i \in 1..Len(val) : val[i] < 16
HexDecode(val) == [j \in 1..(Len(val) \div 2) |-> 16 * val[2 * j - 1] + val[2 * j]]

\* encodeNum: the range check (after '%x'), then padding and decoding.
EncodeNum(number, bitwidth) ==
    IF number >= 2^bitwidth THEN Fail("range")
    ELSE IF ~HexDecodable(Padded(number, bitwidth)) THEN Fail("hex")
    ELSE Bytes(HexDecode(Padded(number, bitwidth)))

\* decodeNum: int(codecs.encode(encoded_number, 'hex_codec'), 16).
DecodeNum(encoded) ==
    LET val[k \in 0..Len(encoded)] ==
            IF k = 0 THEN 0 ELSE 256 * val[k - 1] + encoded[k]
    IN  val[Len(encoded)]

\* The value-type dispatch of encode: encodeMac (12 hex digits, 6 bytes),
\* encodeIPv4 (inet_aton: 4 bytes, OSError on an octet above 255), the
\* str passed through, encodeNum for an int.
Infer(x, bitwidth) ==
    CASE x.type = "int"     -> EncodeNum(x.num, bitwidth)
      [] x.kind = "mac"     -> Bytes(EncodeMac(x))
      [] x.kind = "ipv4"    -> Bytes(EncodeIPv4(x))
      [] x.kind = "badquad" -> Fail("inet")
      [] OTHER              -> [err |-> "none", str |-> TRUE, bytes |-> x.chars]

\* Mutant: the length assertion is dropped.
EncodeNoAssert(x, bitwidth) == Infer(x, bitwidth)

\* encode: the inferred encoding, then assert(len(encoded_bytes) == byte_len).
Encode(x, bitwidth) ==
    LET r == Infer(x, bitwidth)
    IN  IF r.err = "none" /\ Len(r.bytes) # BitwidthToBytes(bitwidth)
           THEN Fail("assert")
           ELSE r

=============================================================================
