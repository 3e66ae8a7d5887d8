------------------------------ MODULE Serialize ------------------------------
(***************************************************************************)
(* The encodings every structure of zcash_primitives is written with:      *)
(* CompactSize, Vector, Array and Optional of serialize.rs.                *)
(*                                                                         *)
(* A stream is a sequence of tokens.  A token is a byte (0 .. 255) where   *)
(* the code reads or writes a length, a flag or an integer, and one opaque *)
(* value where it copies a fixed-size field (a hash, a point, a proof).    *)
(* A reader takes a stream and returns Ok(value, rest) or Fail.            *)
(***************************************************************************)
EXTENDS Integers, Sequences

Fail == [ok |-> FALSE]
Ok(val, rest) == [ok |-> TRUE, val |-> val, rest |-> rest]

\* The `?` operator: the continuation sees the value and what is left.
Then(r, K(_, _)) == IF r.ok THEN K(r.val, r.rest) ELSE Fail

\* One token; a reader at the end of its stream fails.
ReadToken(s) == IF s = << >> THEN Fail ELSE Ok(Head(s), Tail(s))

-----------------------------------------------------------------------------
(* Little-endian words.                                                    *)

LowBytes(n, width) == [i \in 1..width |-> IF i > 4 THEN 0 ELSE (n \div 256^(i-1)) % 256]

\* The first `width` bytes as a number.  A fourth byte above 2 stands for
\* every number above MaxSize: TLC's integers end at 2^31 - 1.
MaxSize == 33554432
Word(s, width) ==
    IF width = 4 /\ s[4] > 2
    THEN MaxSize + 1
    ELSE LET sum[i \in 0..width] ==
               IF i = 0 THEN 0 ELSE sum[i-1] + s[i] * 256^(i-1)
         IN  sum[width]

ReadWord(s, width) ==
    IF Len(s) < width THEN Fail
    ELSE Ok(Word(s, width), SubSeq(s, width + 1, Len(s)))

-----------------------------------------------------------------------------
(* CompactSize.  Numbers above MaxSize cannot be read back, so the eight   *)
(* byte form never is: a number below 2^32 in it is not canonical.         *)

WriteCompact(n) ==
    IF n < 253 THEN <<n>>
    ELSE IF n <= 65535 THEN <<253>> \o LowBytes(n, 2)
    ELSE <<254>> \o LowBytes(n, 4)

ReadCompact(s) ==
    LET Canonical(rest, width, least) ==
          Then(ReadWord(rest, width), LAMBDA n, r :
            IF n < least \/ n > MaxSize THEN Fail ELSE Ok(n, r))
    IN  Then(ReadToken(s), LAMBDA flag, rest :
          CASE flag < 253 -> Ok(flag, rest)
            [] flag = 253 -> Canonical(rest, 2, 253)
            [] flag = 254 -> Canonical(rest, 4, 65536)
            [] OTHER      -> Fail)

-----------------------------------------------------------------------------
(* Array, Vector and Optional, over a reader or writer of one element.     *)

\* One element after the other.
Joined(ss) ==
    LET out[i \in 0..Len(ss)] == IF i = 0 THEN << >> ELSE out[i-1] \o ss[i]
    IN  out[Len(ss)]
WriteArray(es, Write(_)) == Joined([i \in DOMAIN es |-> Write(es[i])])

\* An element takes a token or more: a count above what is left must fail.
ReadArray(s, count, Read(_)) ==
    LET read[i \in 0..count] ==
          IF i = 0 THEN Ok(<< >>, s)
          ELSE Then(read[i-1], LAMBDA es, rest :
                 Then(Read(rest), LAMBDA e, r : Ok(Append(es, e), r)))
    IN  IF count > Len(s) THEN Fail ELSE read[count]

WriteVector(es, Write(_)) == WriteCompact(Len(es)) \o WriteArray(es, Write)

ReadVector(s, Read(_)) ==
    Then(ReadCompact(s), LAMBDA count, rest : ReadArray(rest, count, Read))

None == << >>

WriteOptional(v, Write(_)) == IF v = None THEN <<0>> ELSE <<1>> \o Write(v)

ReadOptional(s, Read(_)) ==
    Then(ReadToken(s), LAMBDA flag, rest :
      CASE flag = 0 -> Ok(None, rest)
        [] flag = 1 -> Read(rest)
        [] OTHER    -> Fail)
=============================================================================
