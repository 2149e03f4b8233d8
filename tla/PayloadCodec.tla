---------------------------- MODULE PayloadCodec ----------------------------
(***************************************************************************)
(* The encodings of escaped file names (src/src/broker.c).  base32 and     *)
(* dense128 write bytes as symbols of 5 and of 7 bits; pack39 writes text  *)
(* over 39 characters as one number in base 256 behind its length.  A      *)
(* symbol or a character is its position in the alphabet.  The behaviours  *)
(* feed the codecs every input of the sample, one element at a time.       *)
(***************************************************************************)
EXTENDS Integers, Sequences, SequencesExt

CONSTANTS
    SampleByte,     \* bytes payloads are made of, 0 among them
    SampleSymbol,   \* Bits -> the symbols texts are made of
    SampleChar,     \* pack39 characters, 0 among them
    MaxBytes, MaxSymbols, MaxChars

VARIABLES
    bits,           \* 5 for base32, 7 for dense128
    data,           \* a payload
    text,           \* a text offered to the decoder
    chars           \* a tail offered to pack39

vars == <<bits, data, text, chars>>

None == <<-1>>

(* base32_encode() and dense128_encode(): whole symbols as soon as there   *)
(* are bits for one, the rest left-aligned and zero-filled.                *)
Symbols(acc, n) ==
    [k \in 1 .. n \div bits |-> (acc \div 2^(n - bits * k)) % 2^bits]

PushByte(st, byte) ==
    LET acc == st.acc * 256 + byte
        n == st.n + 8
    IN  [acc |-> acc % 2^(n % bits), n |-> n % bits,
         out |-> st.out \o Symbols(acc, n)]

Start == [acc |-> 0, n |-> 0, out |-> <<>>]


Encode(d) ==
    LET st == FoldLeft(PushByte, Start, d)
    IN  IF st.n = 0 THEN st.out
        ELSE Append(st.out, (st.acc * 2^(bits - st.n)) % 2^bits)

(* base32_decode() and dense128_decode(): a byte as soon as there are bits *)
(* for one.  What is left at the end must be shorter than a symbol and     *)
(* zero.                                                                   *)
PushSymbol(st, symbol) ==
    LET acc == st.acc * 2^bits + symbol
        n == st.n + bits
    IN  IF n < 8 THEN [st EXCEPT !.acc = acc, !.n = n]
        ELSE [acc |-> acc % 2^(n - 8), n |-> n - 8,
              out |-> Append(st.out, (acc \div 2^(n - 8)) % 256)]

LeftoverShort(st) == st.n < bits
LeftoverIsFill(st) == st.n < bits /\ st.acc = 0

Decode(t) ==
    LET st == FoldLeft(PushSymbol, Start, t)
    IN  IF LeftoverIsFill(st) /\ st.out # <<>> THEN st.out ELSE None

(* pack39_encode(): multiply the little-endian digits by 39 and add, the   *)
(* carry growing the number; then the length and the digits, high first.   *)
RECURSIVE Carry(_)
Carry(c) == IF c = 0 THEN <<>> ELSE <<c % 256>> \o Carry(c \div 256)

TimesPlus(digits, value) ==
    LET st == FoldLeft(LAMBDA s, d :
                  [carry |-> (d * 39 + s.carry) \div 256,
                   out |-> Append(s.out, (d * 39 + s.carry) % 256)],
                  [carry |-> value, out |-> <<>>], digits)
    IN  st.out \o Carry(st.carry)

pack39_encode(t) == <<Len(t)>> \o Reverse(FoldLeft(TimesPlus, <<>>, t))

(* pack39_decode(): divide by 39 as often as the length says, dropping     *)
(* leading zeros; nothing may be left.                                     *)
Divide(digits) ==
    FoldLeft(LAMBDA s, d :
        LET current == s.rem * 256 + d
            q == current \div 39
        IN  [rem |-> current % 39,
             out |-> IF q # 0 \/ s.out # <<>> THEN Append(s.out, q) ELSE s.out],
        [rem |-> 0, out |-> <<>>], digits)

RECURSIVE Unpack(_, _)
Unpack(digits, n) ==
    IF n = 0 THEN [left |-> digits, out |-> <<>>]
    ELSE LET q == Divide(digits)
             rest == Unpack(q.out, n - 1)
         IN  [rest EXCEPT !.out = Append(@, q.rem)]

pack39_decode(d) ==
    IF Len(d) < 1 \/ d[1] = 0 THEN None
    ELSE LET u == Unpack(Tail(d), d[1])
         IN  IF u.left = <<>> THEN u.out ELSE None

(* compressed_payload_decode() for pack39: a candidate counts only if it   *)
(* encodes to the very same bytes.                                         *)
Trusted(d) == pack39_decode(d)
Verified(d) ==
    LET t == pack39_decode(d)
    IN  IF t # None /\ pack39_encode(t) = d THEN t ELSE None

Init == bits \in {5, 7} /\ data = <<>> /\ text = <<>> /\ chars = <<>>

FeedByte == /\ text = <<>> /\ chars = <<>> /\ Len(data) < MaxBytes
            /\ \E b \in SampleByte : data' = Append(data, b)
            /\ UNCHANGED <<bits, text, chars>>

FeedSymbol == /\ data = <<>> /\ chars = <<>> /\ Len(text) < MaxSymbols
              /\ \E s \in SampleSymbol[bits] : text' = Append(text, s)
              /\ UNCHANGED <<bits, data, chars>>

FeedChar == /\ data = <<>> /\ text = <<>> /\ Len(chars) < MaxChars
            /\ \E c \in SampleChar : chars' = Append(chars, c)
            /\ UNCHANGED <<bits, data, text>>

Next == FeedByte \/ FeedSymbol \/ FeedChar
Spec == Init /\ [][Next]_vars

-----------------------------------------------------------------------------
(* An escaped name gives back the tail it was made of: decoding inverts    *)
(* each encoding, whatever bits are left over at the end.                  *)
DecodesToItself ==
    /\ data # <<>> => Decode(Encode(data)) = data
    /\ chars # <<>> => pack39_decode(pack39_encode(chars)) = chars
    /\ Len(Encode(data)) = (Len(data) * 8 + bits - 1) \div bits

(* A tail has one spelling: a text or a payload is accepted only when it   *)
(* is what the encoder writes, so no two AmigaDOS names mean one file.     *)
OneSpelling ==
    /\ Decode(text) # None => Encode(Decode(text)) = text
    /\ (data # <<>> /\ data[1] <= MaxChars) =>
          (Verified(data) # None => pack39_encode(Verified(data)) = data)
=============================================================================
