---------------------------- MODULE MCValueCodec ----------------------------
(***************************************************************************)
(* Checks encodeNum against the big-endian reference of spec 4.1 and 8:   *)
(* each state is one call encodeNum(number, bitwidth) and its outcome, at *)
(* every bitwidth up to MaxWidth and the numbers at the edges of it.      *)
(***************************************************************************)
EXTENDS ValueCodec

\* Widest field tried; 2^MaxWidth must stay within TLC's integers.
MaxWidth == 24

\* The numbers at the edges of a bitwidth, a negative one (int('-1') in
\* parse_flow) and the byte boundaries.
Numbers(b) == {-1, 0, 1, 2^(b - 1), 2^b - 1, 2^b, 255, 256}

VARIABLES number, bitwidth, out

vars == <<number, bitwidth, out>>

Call ==
    \E b \in 1..MaxWidth : \E n \in Numbers(b) :
        /\ number' = n
        /\ bitwidth' = b
        /\ out' = EncodeNum(n, b)

Init ==
    /\ number = 0
    /\ bitwidth = 1
    /\ out = EncodeNum(0, 1)

Spec == Init /\ [][Call]_vars

\* encodeNum succeeds exactly on the unsigned numbers that fit the
\* bitwidth, and then returns ceil(bitwidth/8) bytes, big-endian, that
\* decodeNum reads back as the number (spec 8).
EncodeNumMatchesReference ==
    /\ (out.err = "none") <=> (0 <= number /\ number < 2^bitwidth)
    /\ out.err = "none" =>
          /\ out.bytes = BigEndian(number, BitwidthToBytes(bitwidth))
          /\ DecodeNum(out.bytes) = number
=============================================================================
