------------------------------ MODULE M70Util ------------------------------
(***************************************************************************)
(* The conversions of utill.c, over a byte of Byte values instead of 256   *)
(* and a long long of Bits bits instead of 64.                             *)
(***************************************************************************)
EXTENDS Integers, Sequences, SequencesExt

CONSTANTS
    Byte,       \* the values of a byte: 256, or a smaller power of two
    Bits        \* of the value of itoa

ASSUME UtilAssumption ==
    /\ Byte \in Nat \ {0} /\ Byte % 2 = 0
    /\ Bits \in Nat \ {0}

\* What a shift to the left by n places multiplies with.
Power(base, n) ==
    LET p[j \in Nat] == IF j = 0 THEN 1 ELSE base * p[j - 1]
    IN  p[n]

\* The numbers of n bytes, without and with sign.
Unsigned(n) == 0 .. Power(Byte, n) - 1
Signed(n) == -(Power(Byte, n) \div 2) .. Power(Byte, n) \div 2 - 1

\* What a variable of n bytes without, or with, sign makes of a number.
AsUnsigned(i, n) == i % Power(Byte, n)
AsSigned(i, n) ==
    LET u == AsUnsigned(i, n)
    IN  IF u < Power(Byte, n) \div 2 THEN u ELSE u - Power(Byte, n)

(* short_to_bytes, int32_to_bytes, big_nt_to_bytes and their unsigned      *)
(* kind, for n = 2, 4, 8: the low byte first.                              *)
to_bytes(i, n) == [k \in 1..n |-> (i \div Power(Byte, k - 1)) % Byte]

\* The bytes or-ed together one after the other, each shifted to its place.
Assembled(bytes) ==
    LET upto[k \in 0..Len(bytes)] ==
          IF k = 0 THEN 0 ELSE upto[k - 1] + bytes[k] * Power(Byte, k - 1)
    IN  upto[Len(bytes)]

\* bytes_to_ushort, bytes_to_uint32, bytes_to_ubig_int
bytes_to_unsigned(bytes) == Assembled(bytes)

\* Mutant: no sign.
bytes_to_signed_Unsigned(bytes) == Assembled(bytes)

\* bytes_to_short, bytes_to_int32, bytes_to_big_int
bytes_to_signed(bytes) == AsSigned(Assembled(bytes), Len(bytes))

\* htonll_, ntohll_, htonf_, ntohf_, htond_, ntohd_ on the number the value's
\* bytes make: each byte is shifted and masked to the opposite place.
Swapped(v, n) == bytes_to_unsigned(Reverse(to_bytes(v, n)))
-----------------------------------------------------------------------------
\* Digits of a number, the low one first, by division.
Digits(value, radix) ==
    LET d[v \in 0..value] ==
          IF v = 0 THEN <<>> ELSE <<v % radix>> \o d[v \div radix]
    IN d[value]

\* Mutant: the sign is looked at, but the value is not negated.
Magnitude_Kept(value, radix) == value

\* A negative radix makes the number a signed one.
Negative(value, radix) == radix < 0 /\ value >= Power(2, Bits - 1)
Magnitude(value, radix) ==
    IF Negative(value, radix) THEN (-value) % Power(2, Bits) ELSE value

\* The sign and the digits of the text; 0 has one digit.
itoa(value, radix) ==
    [sign |-> Negative(value, radix),
     digits |-> IF value = 0 THEN <<0>>
                ELSE Digits(Magnitude(value, radix),
                            IF radix < 0 THEN -radix ELSE radix)]

\* The text with its NUL.
TextLength(text) == Len(text.digits) + (IF text.sign THEN 1 ELSE 0) + 1

str_start_with(origin, prefix) ==
    IF Len(prefix) > Len(origin) THEN -1
    ELSE IF \E k \in 1..Len(prefix) : origin[k] # prefix[k] THEN 1 ELSE 0

str_end_with(origin, end) ==
    IF Len(end) > Len(origin) THEN -1
    ELSE IF \E k \in 0..Len(end) - 1 : origin[Len(origin) - k] # end[Len(end) - k]
         THEN 1 ELSE 0
-----------------------------------------------------------------------------
(* Properties.                                                             *)

\* To bytes and back is the number, at both ends of the range too; swapping
\* bytes twice as well, and swapped bytes are those of the other byte order.
\* The two prefix tests are mirror images.
ConversionsInvert ==
    /\ \A n \in {2, 4, 8} :
         /\ \A i \in Signed(n) : bytes_to_signed(to_bytes(i, n)) = i
         /\ \A i \in Unsigned(n) :
               /\ bytes_to_unsigned(to_bytes(i, n)) = i
               /\ Swapped(Swapped(i, n), n) = i
               /\ to_bytes(Swapped(i, n), n) = Reverse(to_bytes(i, n))
    /\ \A s, t \in SeqOf({0, 1}, 3) :
         /\ str_start_with(s, t) = str_end_with(Reverse(s), Reverse(t))
         /\ str_start_with(s, t) = 0 <=> IsPrefix(t, s)

\* The number that digits denote.
Number(digits, radix) ==
    LET from[k \in 1..Len(digits) + 1] ==
          IF k > Len(digits) THEN 0 ELSE digits[k] + radix * from[k + 1]
    IN  from[1]

\* The text of itoa denotes the number, signed if the radix is negative, the
\* most negative one too, and fits the length its comment gives for radix 2,
\* 8 and 16 (66, 24 and 18 characters for 64 bits).
ItoaExact ==
    \A value \in 0 .. Power(2, Bits) - 1, r \in {2, 3, 8, 10, 16}, signed \in BOOLEAN :
      LET text == itoa(value, IF signed THEN -r ELSE r)
          number == Number(text.digits, r)
          size == [k \in {2, 8, 16} |->
                     CASE k = 2 -> Bits [] k = 8 -> (Bits + 2) \div 3
                       [] k = 16 -> (Bits + 3) \div 4]
      IN /\ (IF text.sign THEN -number ELSE number)
              = IF signed /\ value >= Power(2, Bits - 1) THEN value - Power(2, Bits) ELSE value
         /\ r \in {2, 8, 16} => TextLength(text) <= size[r] + 2
=============================================================================
