---------------------------- MODULE SpoolFormat ----------------------------
(***************************************************************************)
(* The neutral spool: rows of tagged values between a preamble and a       *)
(* terminator, written in one pass and read back, byte by byte, in the     *)
(* next.  A byte is ByteBits bits wide.  A length of four bytes is one     *)
(* symbol, as is each byte of a string or of a fixed-width value.          *)
(***************************************************************************)
EXTENDS Integers, Sequences, SequencesExt, Numerals

CONSTANT ByteBits

ASSUME ByteAssumption == ByteBits \in Nat /\ ByteBits >= 4

Power2(n) == Power(2, n)

Base == Power2(ByteBits)

\* Tags, and the markers of a row and of the end: bytes as they occur in an integer.
_TAG_NULL  == 0
_TAG_FALSE == 1
_TAG_TRUE  == 2
_TAG_INT   == 3
_TAG_STR   == 6
_ROW_START  == Base - 2
_TERMINATOR == Base - 1

\* No more than a length byte can say.
MaxLength == Base - 1

\* int.bit_length().
bit_length(n) ==
    LET m == IF n < 0 THEN -n ELSE n
    IN CHOOSE b \in 0..m : m < Power2(b) /\ (b = 0 \/ m >= Power2(b - 1))

_min_signed_bytes(v) ==
    IF v >= 0 THEN (bit_length(v) \div ByteBits) + 1
    ELSE (bit_length(-v - 1) \div ByteBits) + 1

\* int.to_bytes(length, 'big', signed=True) of a value that fits, and back.
Fits(v, length) ==
    /\ v >= -Power2(ByteBits * length - 1)
    /\ v <= Power2(ByteBits * length - 1) - 1

to_bytes(v, length) ==
    LET unsigned == IF v >= 0 THEN v ELSE v + Power2(ByteBits * length)
    IN InDigits(Base, unsigned, length)

from_bytes(bytes) ==
    LET unsigned == Numeral(Base, bytes)
    IN IF bytes[1] >= Base \div 2 THEN unsigned - Power2(ByteBits * Len(bytes)) ELSE unsigned

-----------------------------------------------------------------------------
(* Writing.  A value is a pair of its tag and what it holds: an integer,   *)
(* or the bytes of a text.                                                 *)

OverflowError == <<>>

\* An integer has no more bytes than its length can say.
SpoolValues ==
    ({_TAG_NULL, _TAG_FALSE, _TAG_TRUE} \X {<<>>})
      \cup ({_TAG_INT} \X Int) \cup ({_TAG_STR} \X Seq(Nat))

IsSpoolable(v) == v[1] = _TAG_INT => _min_signed_bytes(v[2]) <= MaxLength

_write_value(v) ==
    CASE v[1] \in {_TAG_NULL, _TAG_FALSE, _TAG_TRUE} -> <<v[1]>>
      [] v[1] = _TAG_INT ->
           LET length == _min_signed_bytes(v[2])
           IN IF length > MaxLength \/ ~Fits(v[2], length) THEN OverflowError
              ELSE <<_TAG_INT, length>> \o to_bytes(v[2], length)
      [] OTHER -> <<v[1], Len(v[2])>> \o v[2]

\* The row is written as a whole, or not at all.
_write_values(row) ==
    LET written[k \in 0..Len(row)] ==
          IF k = 0 THEN <<_ROW_START>> ELSE written[k - 1] \o _write_value(row[k])
    IN written[Len(row)]

write_neutral_row(row) ==
    IF \E k \in 1..Len(row) : _write_value(row[k]) = OverflowError THEN OverflowError
    ELSE _write_values(row)

-----------------------------------------------------------------------------
(* Reading: a cursor over the spool, which fails where bytes are missing.  *)

Cursor(spool, at) == [at |-> at, failed |-> FALSE, row |-> <<>>, ended |-> FALSE]

Fails(cursor) == [cursor EXCEPT !.failed = TRUE]

\* Reads n bytes, of which the caller takes what it needs.
_read_exact(spool, n, cursor) ==
    IF cursor.at + n - 1 > Len(spool) THEN Fails(cursor) ELSE cursor

\* The value behind its tag, appended to the row.
_read_value(spool, cursor) ==
    LET begun == _read_exact(spool, 1, cursor)
        tag   == spool[cursor.at]
        sized == _read_exact(spool, 2, begun)
        size  == spool[cursor.at + 1]
        whole == _read_exact(spool, 2 + size, sized)
        bytes == SubSeq(spool, cursor.at + 2, cursor.at + 1 + size)
        add(v, n) == [cursor EXCEPT !.row = Append(@, v), !.at = @ + n]
    IN CASE cursor.failed \/ begun.failed -> Fails(cursor)
         [] ~cursor.failed /\ ~begun.failed /\ tag \in {_TAG_NULL, _TAG_FALSE, _TAG_TRUE} ->
              add(<<tag, <<>>>>, 1)
         [] ~cursor.failed /\ ~begun.failed /\ tag \in {_TAG_INT, _TAG_STR} ->
              IF sized.failed THEN sized
              ELSE IF tag = _TAG_INT /\ size = 0 THEN Fails(cursor)
              ELSE IF whole.failed THEN whole
              ELSE add(<<tag, IF tag = _TAG_INT THEN from_bytes(bytes) ELSE bytes>>,
                       2 + size)
         [] OTHER -> Fails(cursor)

\* One value after another.
_read_values(spool, cursor, column_count) ==
    LET read[k \in 0..column_count] ==
          IF k = 0 THEN cursor ELSE _read_value(spool, read[k - 1])
    IN read[column_count]

\* Mutant: the end of the file is the end of the rows.
RowsUntilEndOfFile(spool, at, column_count) ==
    IF at > Len(spool) \/ spool[at] = _TERMINATOR THEN [Cursor(spool, at) EXCEPT !.ended = TRUE]
    ELSE _read_values(spool, Cursor(spool, at + 1), column_count)

\* None at the terminator, otherwise a row of column_count values.
read_neutral_row(spool, at, column_count) ==
    LET marked == _read_exact(spool, 1, Cursor(spool, at))
    IN IF marked.failed THEN marked
       ELSE IF spool[at] = _TERMINATOR THEN [marked EXCEPT !.ended = TRUE]
       ELSE IF spool[at] # _ROW_START THEN Fails(marked)
       ELSE _read_values(spool, [marked EXCEPT !.at = at + 1], column_count)
=============================================================================
