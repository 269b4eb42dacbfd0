------------------------------- MODULE Strings -------------------------------
(***************************************************************************)
(* SString, the UTF-8 strings of ScaleGraph (SString.x10 and the functions *)
(* of StringHelperImpl.cc behind it): a string is a part of a chunk of     *)
(* bytes, which it may share with other strings, and the byte that follows *)
(* it can be read.  Characters are coded, found, compared, split and read  *)
(* as numbers; SStringBuilder formats values into a buffer that grows.     *)
(*                                                                         *)
(* A string is a record: mem, the chunk; at, where the string starts in it *)
(* (from 0); size, in bytes.  Bytes are 0 .. 255.  x10_byte is signed, but *)
(* the code masks a byte, compares it for equality or calls memcmp, except *)
(* in trim.                                                                *)
(***************************************************************************)
EXTENDS Integers, SequencesExt

CONSTANTS ByteBits, ShortBits, IntBits, LongBits,   \* 8, 16, 32 and 64 in the code
          NumberFormatException                     \* in place of a number
ASSUME WidthsAssumption ==
  /\ {ByteBits, ShortBits, IntBits, LongBits} \subseteq 2 .. 30
  /\ ByteBits < ShortBits /\ ShortBits < IntBits /\ IntBits <= LongBits

SString(mem, at, size) == [mem |-> mem, at |-> at, size |-> size]
\* May lie beyond the size, in the chunk or behind it, where any byte may be.
ByteAt(s, i) == IF s.at + i < Len(s.mem) THEN s.mem[s.at + i + 1] ELSE 255
Bytes(s) == SubSeq(s.mem, s.at + 1, s.at + s.size)
substring(s, from, to) == SString(s.mem, s.at + from, to - from)

------------------------------------------------------------------------------
(* UTF-8                                                                    *)

Follow(n) == 128 + (n % 64)                    \* a byte after the first
UTF8_ENCODE_CHAR(c) ==
  CASE c < 128 -> <<c>>
    [] c \in 128 .. 2047 -> <<192 + (c \div 64), Follow(c)>>
    [] c \in 2048 .. 65535 -> <<224 + (c \div 4096), Follow(c \div 64), Follow(c)>>
    [] OTHER -> <<240 + (c \div 262144), Follow(c \div 4096), Follow(c \div 64), Follow(c)>>

\* Mutant: three bytes are taken for four.
LengthOfTwo(b0) == IF b0 < 128 THEN 1 ELSE IF b0 \div 32 = 6 THEN 2 ELSE 4
UTF8_CODE_LENGTH(b0) ==
  CASE b0 < 128 -> 1
    [] b0 \div 32 = 6 -> 2
    [] b0 \div 16 = 14 -> 3
    [] OTHER -> 4

\* Of the first byte of four, bit 3 is kept where the low three bits hold the code.
UTF8_DECODE_CHAR(s, i) ==
  LET b0 == ByteAt(s, i)
      low(k) == ByteAt(s, i + k) % 64
  IN  CASE UTF8_CODE_LENGTH(b0) = 1 -> b0
        [] UTF8_CODE_LENGTH(b0) = 2 -> (b0 % 32) * 64 + low(1)
        [] UTF8_CODE_LENGTH(b0) = 3 -> (b0 % 16) * 4096 + low(1) * 64 + low(2)
        [] OTHER -> ((b0 \div 8) % 2) * 8 * 262144 + low(1) * 4096 + low(2) * 64 + low(3)

\* A chunk with room for the terminator, which is not part of the string.
charsToUTF8(chars) ==
  LET codes == FlattenSeq([i \in DOMAIN chars |-> UTF8_ENCODE_CHAR(chars[i])])
  IN  SString(Append(codes, 0), 0, Len(codes))

\* The first bytes of the characters: the count is their number.
Starts(s) ==
  LET from[i \in 0 .. s.size + 3] ==
        IF i >= s.size THEN <<>> ELSE <<i>> \o from[i + UTF8_CODE_LENGTH(ByteAt(s, i))]
  IN  from[0]
UTF8charsCount(s) == Len(Starts(s))
UTF8ToChars(s) ==
  LET at == Starts(s) IN [i \in DOMAIN at |-> UTF8_DECODE_CHAR(s, at[i])]

------------------------------------------------------------------------------
(* Search and comparison, byte by byte                                      *)

OccursAt(s, pat, i) == \A k \in DOMAIN pat : ByteAt(s, i + k - 1) = pat[k]
StringIndexOf(s, pat, from) ==
  LET found == {i \in from .. (s.size - Len(pat)) : OccursAt(s, pat, i)}
  IN  IF found = {} THEN -1 ELSE Min(found)
StringLastIndexOf(s, pat, from) ==
  LET found == {i \in from .. (s.size - Len(pat)) : OccursAt(s, pat, i)}
  IN  IF found = {} THEN -1 ELSE Max(found)

\* memcmp of the first n bytes: the sign of its result.
Memcmp(s, at, t, n) ==
  LET differ == {i \in 0 .. n - 1 : ByteAt(s, at + i) # ByteAt(t, i)}
  IN  IF differ = {} THEN 0
      ELSE IF ByteAt(s, at + Min(differ)) < ByteAt(t, Min(differ)) THEN -1 ELSE 1

StringEqual(s, t) == s.size = t.size /\ Memcmp(s, 0, t, s.size) = 0
StringCompare(s, t) ==
  LET cmp == Memcmp(s, 0, t, Min({s.size, t.size}))
  IN  IF cmp = 0 THEN s.size - t.size ELSE cmp
StringStartsWith(s, t) == s.size >= t.size /\ Memcmp(s, 0, t, t.size) = 0
StringEndsWith(s, t) == s.size >= t.size /\ Memcmp(s, s.size - t.size, t, t.size) = 0

\* The tokens the iterator returns, as <<first, last + 1>>.  An empty splitter,
\* with which next never advances, is not used.
NextToken(s, splitter, cur) == StringIndexOf(s, splitter, cur)
split(s, splitter) ==
  LET from[cur \in 0 .. s.size + Len(splitter)] ==
        LET next == NextToken(s, splitter, cur)
        IN  IF cur >= s.size THEN <<>>
            ELSE IF next = -1 THEN <<substring(s, cur, s.size)>>
            ELSE <<substring(s, cur, next)>> \o from[next + Len(splitter)]
  IN  from[0]

\* replace of a character by another: bytes between occurrences are kept.
replace(s, old, new) ==
  LET from[cur \in 0 .. s.size] ==
        LET next == StringIndexOf(s, UTF8_ENCODE_CHAR(old), cur)
        IN  IF next = -1 THEN Bytes(substring(s, cur, s.size))
            ELSE Bytes(substring(s, cur, next)) \o UTF8_ENCODE_CHAR(new)
                   \o from[next + UTF8_CODE_LENGTH(ByteAt(s, next))]
      bytes == from[0]
  IN  SString(Append(bytes, 0), 0, Len(bytes))

------------------------------------------------------------------------------
(* Strings as C strings and as numbers                                      *)

NUL == 0
\* A string that no zero byte follows is copied to where one does.
StringCstr(s) ==
  IF ByteAt(s, s.size) = NUL THEN s ELSE SString(Append(Bytes(s), NUL), 0, s.size)
\* What a C function is given: everything from the start of the string on.
C_STR(s) == LET z == StringCstr(s) IN SubSeq(z.mem, z.at + 1, Len(z.mem))

Blank(b) == b = 32 \/ b \in 9 .. 13
Digit(b) == b \in 48 .. 57
Run(c, first, Is(_)) ==                        \* how many bytes from first on are
  Min({i \in first .. Len(c) : ~Is(c[i])} \cup {Len(c) + 1}) - first
\* strtol and its kin, base 10: the integer read, of any size, and how many bytes.
Strtol(c) ==
  LET blanks == Run(c, 1, Blank)
      sign == IF c[blanks + 1] \in {43, 45} THEN 1 ELSE 0
      first == blanks + sign + 1
      digits == Run(c, first, Digit)
      value == FoldLeft(LAMBDA v, d : 10 * v + d - 48, 0, SubSeq(c, first, first + digits - 1))
  IN  [value |-> IF c[blanks + 1] = 45 THEN 0 - value ELSE value,
       end |-> IF digits = 0 THEN 0 ELSE first + digits - 1]
\* strtod: digits may follow a point.
WithFraction(c, whole) ==
  IF whole > 0 /\ c[whole + 1] = 46 THEN whole + 1 + Run(c, whole + 2, Digit) ELSE whole
Strtod(c) == WithFraction(c, Strtol(c).end)

Signed == {"Byte", "Short", "Int", "Long"}
Unsigned == {"UByte", "UShort", "UInt", "ULong"}
Bits(type) == CASE type \in {"Byte", "UByte"} -> ByteBits
                [] type \in {"Short", "UShort"} -> ShortBits
                [] type \in {"Int", "UInt"} -> IntBits
                [] type \in {"Long", "ULong"} -> LongBits
ValuesOf(type) == IF type \in Signed THEN (0 - 2^(Bits(type) - 1)) .. (2^(Bits(type) - 1) - 1)
                  ELSE 0 .. (2^Bits(type) - 1)
Truncated(v, type) ==                          \* the assignment of v to the type
  IF type \in Unsigned THEN v % 2^Bits(type)
  ELSE ((v + 2^(Bits(type) - 1)) % 2^Bits(type)) - 2^(Bits(type) - 1)

\* strtol reads a long; the narrow types go through an int.
Read(type, r) ==
  CASE type \in {"Byte", "Short", "Int"} -> Truncated(r.value, "Int")
    [] type \in {"UByte", "UInt"} -> Truncated(r.value, "UInt")
    [] OTHER -> Truncated(r.value, type)
OutOfRange(type, r) ==
  IF type \in Signed THEN r.value \notin ValuesOf("Long")
  ELSE r.value >= 2^LongBits \/ r.value <= 0 - 2^LongBits
NumberRead(type, r, size) ==
  LET ans == Read(type, r)
  IN  IF OutOfRange(type, r) \/ r.end # size THEN NumberFormatException
      ELSE IF type \in {"Byte", "Short", "UByte"} /\ ans \notin ValuesOf(type)
      THEN NumberFormatException
      ELSE ans
\* toUShort calls StringToShort_, and StringToUShort_ is called by nobody.
Reader(type) == IF type = "UShort" THEN "Short" ELSE type
StringToNumber(type, s) ==
  LET ans == NumberRead(Reader(type), Strtol(C_STR(s)), s.size)
  IN  IF ans = NumberFormatException THEN ans ELSE Truncated(ans, type)
\* The real number is the text that was read.
StringToReal(s) ==
  LET c == C_STR(s) IN IF Strtod(c) # s.size THEN NumberFormatException ELSE SubSeq(c, 1, Strtod(c))
StringToBoolean(s) ==
  /\ s.size = 4
  /\ \A k \in 1 .. 4 : ByteAt(s, k - 1) \in {<<116, 114, 117, 101>>[k], <<84, 82, 85, 69>>[k]}

------------------------------------------------------------------------------
(* SStringBuilder: a buffer is [store, size]                                *)

EmptyBuffer == [store |-> <<>>, size |-> 0]
Content(b) == SubSeq(b.store, 1, b.size)
result(b) == SString(b.store, 0, b.size)
\* The capacity doubles from 8 until it suffices; only the elements are copied.
Grown(b, capacity) ==
  LET from == Max({Len(b.store), 8})
      new == Min({c \in {from * 2^k : k \in 0 .. 6} : c >= capacity})
  IN  [b EXCEPT !.store = [i \in 1 .. new |-> IF i <= b.size THEN @[i] ELSE 255]]
GrowableAdd(b, bytes) ==
  LET size == b.size + Len(bytes)
      room == IF size > Len(b.store) THEN Grown(b, size) ELSE b
  IN  [store |-> [i \in DOMAIN room.store |->
                    IF i \in b.size + 1 .. size THEN bytes[i - b.size] ELSE room.store[i]],
       size |-> size]
\* At most space bytes are written, a zero byte behind the text included.
Snprintf(b, space, text) ==
  LET last == Min({Len(text), space - 1})
  IN  [b EXCEPT !.store = [i \in DOMAIN @ |->
         CASE i \in b.size + 1 .. b.size + last -> text[i - b.size]
           [] i = b.size + last + 1 /\ space > 0 -> NUL
           [] OTHER -> @[i]]]
\* Mutant: no room is kept for the zero byte.
InsufficientUnlessExact(reqsize, space) == reqsize > space
Insufficient(reqsize, space) == reqsize >= space
VFormatAdd(b, text) ==
  LET space == Len(b.store) - b.size
      reqsize == Len(text)
      written == IF Insufficient(reqsize, space)
                 THEN Snprintf(Grown(Snprintf(b, space, text), b.size + reqsize + 1), reqsize + 1, text)
                 ELSE Snprintf(b, space, text)
  IN  [written EXCEPT !.size = b.size + reqsize]

DigitByte(d) == IF d < 10 THEN 48 + d ELSE 87 + d
Numeral(n, radix) ==
  LET digits[k \in Nat] == IF k < radix THEN <<DigitByte(k)>>
                           ELSE Append(digits[k \div radix], DigitByte(k % radix))
  IN  IF n < 0 THEN <<45>> \o digits[0 - n] ELSE digits[n]
\* Both kinds of byte are written in base 16, as the int they are promoted to.
Formatted(type, v) ==
  IF type \in {"Byte", "UByte"} THEN Numeral(Truncated(v, "UInt"), 16) ELSE Numeral(v, 10)
\* add of an SString, a Char, a Boolean, which are bytes already, or of a number.
StringBuilderAdd(b, type, x) ==
  CASE type = "SString" -> GrowableAdd(b, Bytes(x))
    [] type = "Char" -> GrowableAdd(b, UTF8_ENCODE_CHAR(x))
    [] type = "Boolean" -> GrowableAdd(b, IF x THEN <<116, 114, 117, 101>>
                                           ELSE <<102, 97, 108, 115, 101>>)
    [] type \in Signed \cup Unsigned -> VFormatAdd(b, Formatted(type, x))
\* What add returns when the buffer is after: the builder, but the functions for an
\* SString and a Char end without a return.
Undefined == [store |-> <<255>>, size |-> 0]
Returned(type, after) == IF type \in {"SString", "Char"} THEN {after, Undefined} ELSE {after}
\* add of an object: its text is the format, so it has no percent sign in it.
StringBuilderAddReference(b, text) == VFormatAdd(b, text)
\* A format and its arguments, here the text they give.
StringBuilderFmtAdd(b, text) == VFormatAdd(b, text)
StringFormat(text) == result(VFormatAdd(EmptyBuffer, text))
=============================================================================
