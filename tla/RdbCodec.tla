------------------------------ MODULE RdbCodec -------------------------------
(***************************************************************************)
(* Lengths, strings and integers in an RDB file: what RdbSaver writes for  *)
(* strings, and what RdbLoader reads back.  Numbers are those of the code  *)
(* (bytes, 6, 14 and 32-bit lengths, 8, 16 and 32-bit integers).  A string *)
(* is the decimal text of an integer, or some other text of a length;      *)
(* its bytes are one token.  The 64-bit length and LZF strings, which no   *)
(* save of strings under 4 GiB contains, are left out.                     *)
(***************************************************************************)
EXTENDS Integers, Sequences

LOCAL INSTANCE SequencesExt

CONSTANTS
  Lengths,   \* lengths of texts and database numbers
  Integers32 \* integers of at most 32 bits

VARIABLE written  \* the strings written one after the other

Decimal(n) == [kind |-> "decimal", n |-> n]
Other(len) == [kind |-> "text", len |-> len]

B(n) == <<"byte", n>>
Raw(len) == <<"raw", len>>  \* that many bytes of text

LittleEndian(n, count) == [i \in 1 .. count |-> B((n \div 256 ^ (i - 1)) % 256)]
BigEndian(n, count) == Reverse(LittleEndian(n, count))

-----------------------------------------------------------------------------
(* Mutant: 64 is taken for a 6-bit length. *)
write_length_off_by_one(len) ==
  CASE len <= 64 -> <<B(len)>>
    [] len > 64 /\ len < 16384 -> <<B(64 + (len \div 256)), B(len % 256)>>
    [] OTHER -> <<B(128)>> \o BigEndian(len, 4)

write_length(len) ==
  CASE len < 64 -> <<B(len)>>
    [] len >= 64 /\ len < 16384 -> <<B(64 + (len \div 256)), B(len % 256)>>
    [] OTHER -> <<B(128)>> \o BigEndian(len, 4)

write_integer_as_string(n) ==
  CASE n \in -128 .. 127 -> <<B(192)>> \o LittleEndian(n, 1)
    [] n \notin -128 .. 127 /\ n \in -32768 .. 32767 -> <<B(193)>> \o LittleEndian(n, 2)
    [] OTHER -> <<B(194)>> \o LittleEndian(n, 4)

(* try_parse_integer takes a text for an integer only when it is how the   *)
(* integer is printed.                                                     *)
write_string(s) ==
  IF s.kind = "decimal" THEN write_integer_as_string(s.n) ELSE Append(write_length(s.len), Raw(s.len))

-----------------------------------------------------------------------------
(* A reader returns what it read and what is left. *)
Read(x, rest) == [ok |-> TRUE, value |-> x, rest |-> rest]
Corrupt == [ok |-> FALSE]

Unsigned(bs) == FoldLeft(LAMBDA acc, b : acc * 256 + b[2], 0, bs)
Bytes(f, count) == Len(f) >= count /\ \A i \in 1 .. count : f[i][1] = "byte"

(* Two's complement, from the most significant byte on. *)
Signed(bs) ==
  FoldLeft(LAMBDA acc, b : acc * 256 + b[2], IF bs[1][2] >= 128 THEN bs[1][2] - 256 ELSE bs[1][2], Tail(bs))

read_length_with_encoding(f) ==
  LET first == f[1][2]
      low == first % 64
      rest == Tail(f)
      plain(count, n) == IF Bytes(rest, count) THEN Read([n |-> n, encoded |-> FALSE], SubSeq(rest, count + 1, Len(rest)))
                         ELSE Corrupt
  IN  CASE ~Bytes(f, 1) -> Corrupt
        [] Bytes(f, 1) /\ first \div 64 = 0 -> plain(0, low)
        [] Bytes(f, 1) /\ first \div 64 = 1 -> plain(1, low * 256 + rest[1][2])
        [] Bytes(f, 1) /\ first \div 64 = 2 /\ low = 0 -> plain(4, Unsigned(SubSeq(rest, 1, 4)))
        [] Bytes(f, 1) /\ first \div 64 = 3 -> Read([n |-> low, encoded |-> TRUE], rest)
        [] OTHER -> Corrupt

read_string(f) ==
  LET l == read_length_with_encoding(f)
      int(count) == IF Bytes(l.rest, count)
                    THEN Read(Decimal(Signed(Reverse(SubSeq(l.rest, 1, count)))), SubSeq(l.rest, count + 1, Len(l.rest)))
                    ELSE Corrupt
  IN  CASE ~l.ok -> Corrupt
        [] l.ok /\ l.value.encoded /\ l.value.n \in 0 .. 2 -> int(2 ^ l.value.n)
        [] l.ok /\ ~l.value.encoded /\ l.rest # <<>> /\ l.rest[1] = Raw(l.value.n) ->
             Read(Other(l.value.n), Tail(l.rest))
        [] OTHER -> Corrupt

-----------------------------------------------------------------------------
CodecInit == written \in SeqOf({Decimal(n) : n \in Integers32} \cup {Other(len) : len \in Lengths}, 2)

(* The strings of a file, keys and values alike, are read back as they     *)
(* were written, each reader stopping where the next one starts; and so is *)
(* a database number.                                                      *)
CodecRoundTrip ==
  LET file == FlattenSeq([i \in DOMAIN written |-> write_string(written[i])])
      all == FoldLeft(LAMBDA acc, s : IF acc.ok /\ read_string(acc.rest).ok /\ read_string(acc.rest).value = s
                                      THEN read_string(acc.rest) ELSE Corrupt,
                      Read(<<>>, file), written)
  IN  /\ all.ok /\ all.rest = <<>>
      /\ \A i \in DOMAIN written : written[i].kind = "text" =>
           read_length_with_encoding(write_length(written[i].len))
           = Read([n |-> written[i].len, encoded |-> FALSE], <<>>)
=============================================================================
