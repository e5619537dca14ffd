------------------------------ MODULE CopyText ------------------------------
(***************************************************************************)
(* What becomes of a value on its way into a declared column: INSERT       *)
(* normalizes and validates it, COPY writes it into a line of text with a  *)
(* writer compiled for the column.                                         *)
(*                                                                         *)
(* A value is a pair of its exact Python type and what it holds.  Text     *)
(* is a sequence of symbols: the characters that COPY treats specially,    *)
(* some that it does not, and one symbol for what str(), repr(), hex() or  *)
(* isoformat() render, which never contains a special character.  Ranges   *)
(* are those of types of Bits[family] bits.                                *)
(***************************************************************************)
EXTENDS Integers, Sequences, SequencesExt, TLC, Numerals

CONSTANT Bits   \* width of smallint, integer and bigint

ASSUME BitsAssumption ==
    /\ Bits \in [{"smallint", "integer", "bigint"} -> Nat \ {0}]
    /\ Bits["smallint"] < Bits["integer"] /\ Bits["integer"] < Bits["bigint"]

Value(type, holds) == <<type, holds>>
Type(v)  == v[1]
Holds(v) == v[2]
None == Value("NoneType", "")

\* A column: family, nullable, and the parameters of its type, 0 for none.
Column(family, nullable, precision, scale) ==
    [family |-> family, nullable |-> nullable, precision |-> precision, scale |-> scale]

-----------------------------------------------------------------------------
(* What a column declares, and what a source may yield.                    *)

DeclaredFamilies ==
    {"bool", "smallint", "integer", "bigint", "numeric", "float", "text", "bytes", "date",
     "timestamp", "timestamptz"}

\* No scale exceeds its precision.
DeclaredColumns ==
    {column \in [family : DeclaredFamilies, nullable : BOOLEAN, precision : Nat, scale : Nat] :
        column.scale <= column.precision}

\* A text is a sequence of symbols, and anything else is written as one that is none of
\* those that COPY treats specially; what a numpy scalar holds is a value, too.
IsWritable(v) ==
    IF Type(v) \in {"str", "numpy.str_"}
      THEN Holds(v) \in Seq(STRING) /\ \A i \in DOMAIN Holds(v) : Holds(v)[i] # "ERROR"
      ELSE /\ ToString(Holds(v)) \in STRING
           /\ ToString(Holds(v)) \notin {"\\", "TAB", "LF", "CR", "ERROR"}

\* A finite Decimal is a number in digits, of which only that of zero begins with one.
IsNumeral(v) ==
    /\ Type(v) = "int" => Holds(v) \in Int
    /\ Type(v) = "Decimal" /\ Holds(v).special = "" =>
         LET digits == Holds(v).digits
         IN /\ digits \in Seq(0..9) /\ digits # <<>> /\ Holds(v).exponent \in Int
            /\ digits[1] = 0 => Len(digits) = 1

IsHeld(v) == IsWritable(v) /\ IsNumeral(v)

IsValue(v) == IsHeld(v) /\ (Type(v) = "numpy" => IsHeld(Holds(v)))

-----------------------------------------------------------------------------
(* Normalization.                                                          *)

\* isinstance(); a pandas Timestamp is a datetime.
Strings   == {"str", "numpy.str_"}
BytesLike == {"bytes", "bytearray", "memoryview"}
Datetimes == {"datetime", "Timestamp"}

_NORMALIZATION_NOOP_TYPES == {"str", "int", "bool", "bytes", "datetime", "date"}

\* pd.isna() compares a Decimal with itself, which raises for a signaling NaN.
is_missing(v) ==
    \/ Type(v) \in {"NA", "NaT"}
    \/ Type(v) = "float" /\ Holds(v) = "nan"
    \/ Type(v) = "Decimal" /\ Holds(v).special = "nan"

\* A list or array with a dimension is a container, whatever it holds.
_is_scalar_like(v) == Type(v) \notin {"list", "memoryview", "bytearray"}

_normalize_value(v) ==
    CASE Type(v) = "NoneType" \/ Type(v) \in _NORMALIZATION_NOOP_TYPES -> v
      [] is_missing(v)                -> None
      [] Type(v) = "Timestamp"         -> Value("datetime", Holds(v))
      [] Type(v) = "numpy" /\ is_missing(Holds(v)) -> None
      [] Type(v) = "numpy"             -> Holds(v)
      [] OTHER                        -> v

-----------------------------------------------------------------------------
(* Numbers.                                                                *)

InRange(n, family) ==
    LET half == Power(2, Bits[family] - 1) IN -half <= n /\ n <= half - 1

\* Decimal.as_tuple().
Digits(v) == Holds(v).digits

IsZero(v) == \A i \in DOMAIN Digits(v) : Digits(v)[i] = 0

TrailingZeros(digits) ==
    CHOOSE n \in 0..Len(digits) :
        /\ \A i \in (Len(digits) - n + 1)..Len(digits) : digits[i] = 0
        /\ n < Len(digits) => digits[Len(digits) - n] # 0

\* Mutant: the number of digits is taken as they are written.
Written(v) == 0

\* Zeros at the end of a fraction do not count as fractional digits.
Stripped(v) ==
    IF Holds(v).exponent >= 0 THEN 0
    ELSE LET zeros == TrailingZeros(Digits(v))
         IN IF zeros < -Holds(v).exponent THEN zeros ELSE -Holds(v).exponent

AtLeastZero(n) == IF n < 0 THEN 0 ELSE n

FractionalDigits(v) ==
    IF IsZero(v) THEN 0 ELSE AtLeastZero(-(Holds(v).exponent + Stripped(v)))

IntegerDigits(v) ==
    IF IsZero(v) THEN 0 ELSE AtLeastZero(Len(Digits(v)) + Holds(v).exponent)

\* A precision without a scale means scale 0.
FitsNumeric(v, column) ==
    column.precision # 0 =>
        /\ FractionalDigits(v) <= column.scale
        /\ IntegerDigits(v) <= column.precision - column.scale

Magnitude(n) == IF n < 0 THEN -n ELSE n

\* How many digits a number has.
DigitsOf(m) ==
    CHOOSE k \in 1..(m + 1) : m < Power(10, k) /\ (k > 1 => m >= Power(10, k - 1))

AsDecimal(n) ==
    [digits |-> InDigits(10, Magnitude(n), DigitsOf(Magnitude(n))),
     exponent |-> 0, special |-> ""]

_validate_numeric_value(v, column) ==
    CASE Type(v) = "int"     -> FitsNumeric(Value("Decimal", AsDecimal(Holds(v))), column)
      [] Type(v) = "Decimal" -> Holds(v).special = "" /\ FitsNumeric(v, column)
      [] OTHER              -> FALSE

-----------------------------------------------------------------------------
(* INSERT: _validate_declared_value() of the normalized value.             *)

FitsText(v, column) ==
    /\ \A i \in DOMAIN Holds(v) : Holds(v)[i] # "NUL"
    /\ column.precision # 0 => Len(Holds(v)) <= column.precision

\* An aware datetime belongs into timestamptz, a naive one into timestamp; a tzinfo
\* that knows no offset makes no datetime aware.
FitsZone(v, column) == (Holds(v) = "aware") = (column.family = "timestamptz")

_validate_declared_value_family(v, column) ==
    LET family == column.family
    IN CASE Type(v) = "NoneType" -> column.nullable
         [] Type(v) # "NoneType" /\ family \in {"smallint", "integer", "bigint"} ->
              Type(v) = "int" /\ InRange(Holds(v), family)
         [] Type(v) # "NoneType" /\ family = "numeric" -> _validate_numeric_value(v, column)
         [] Type(v) # "NoneType" /\ family = "text" -> Type(v) \in Strings /\ FitsText(v, column)
         [] Type(v) # "NoneType" /\ family = "bytes" -> Type(v) \in BytesLike
         [] Type(v) # "NoneType" /\ family \in {"timestamp", "timestamptz"} ->
              Type(v) \in Datetimes /\ FitsZone(v, column)
         [] OTHER -> Type(v) = family   \* bool, float, date

Inserts(v, column) == _validate_declared_value_family(_normalize_value(v), column)

\* What stands for a value in a table: the symbols of a text, one for anything else.
Rendered(v) == <<ToString(Holds(v))>>
NullField   == <<"NULL">>

\* What the column then holds (PostgreSQL).
Stored(v) ==
    LET w == _normalize_value(v)
    IN IF Type(w) = "NoneType" THEN NullField
       ELSE IF Type(w) \in Strings THEN Holds(w) ELSE Rendered(w)

-----------------------------------------------------------------------------
(* COPY: the writers of _compile_declared_copy_field_writers(), which take *)
(* a value as the source yields it, and look at the exact type first.      *)

Error == <<"ERROR">>
Null  == <<"\\", "N">>

Replace(text, character, by) ==
    LET replaced[n \in 0..Len(text)] ==
            IF n = 0 THEN <<>>
            ELSE replaced[n - 1] \o (IF text[n] = character THEN by ELSE <<text[n]>>)
    IN  replaced[Len(text)]

_escape_copytext_text(text) ==
    Replace(Replace(Replace(Replace(text, "\\", <<"\\", "\\">>), "TAB", <<"\\", "t">>),
            "LF", <<"\\", "n">>), "CR", <<"\\", "r">>)

_write_declared_null(column) == IF column.nullable THEN Null ELSE Error

\* What a writer does with a value that is not of the type it expects.
Otherwise(v, column, accepts(_), Writes(_)) ==
    LET w == _normalize_value(v)
    IN IF Type(w) = "NoneType" THEN _write_declared_null(column)
       ELSE IF accepts(w) THEN Writes(w) ELSE Error

\* bool, date
write_exact(v, column) ==
    IF Type(v) = column.family THEN Rendered(v)
    ELSE Otherwise(v, column, LAMBDA w : Type(w) = column.family, Rendered)

write_integer(v, column) ==
    LET ranged(w) == IF InRange(Holds(w), column.family) THEN Rendered(w) ELSE Error
    IN IF Type(v) = "int" THEN ranged(v)
       ELSE Otherwise(v, column, LAMBDA w : Type(w) = "int", ranged)

\* Mutant: a Decimal NaN is a value like any other.
write_numeric_nan(v, column) ==
    LET fitted(w) == IF _validate_numeric_value(w, column) THEN Rendered(w) ELSE Error
    IN IF Type(v) \in {"int", "Decimal"} THEN fitted(v)
       ELSE Otherwise(v, column, LAMBDA w : TRUE, fitted)

\* Decimal.is_nan(), of a quiet or a signaling NaN.
is_nan(v) == Holds(v).special \in {"nan", "snan"}

write_numeric(v, column) ==
    LET fitted(w) == IF _validate_numeric_value(w, column) THEN Rendered(w) ELSE Error
    IN IF Type(v) = "Decimal" /\ is_nan(v) THEN _write_declared_null(column)
       ELSE IF Type(v) \in {"int", "Decimal"} THEN fitted(v)
       ELSE Otherwise(v, column, LAMBDA w : TRUE, fitted)

write_float(v, column) ==
    IF Type(v) = "float"
      THEN IF Holds(v) = "nan" THEN _write_declared_null(column) ELSE Rendered(v)
    ELSE Otherwise(v, column, LAMBDA w : Type(w) = "float", Rendered)

write_text(v, column) ==
    LET escaped(w) == IF FitsText(w, column) THEN _escape_copytext_text(Holds(w)) ELSE Error
    IN IF Type(v) = "str" THEN escaped(v)
       ELSE Otherwise(v, column, LAMBDA w : Type(w) \in Strings, escaped)

\* A hex dump behind a backslash that is itself escaped.
write_bytes(v, column) ==
    LET dump(w) == <<"\\", "\\", "x">> \o Rendered(w)
    IN IF Type(v) \in BytesLike THEN dump(v)
       ELSE Otherwise(v, column, LAMBDA w : Type(w) \in BytesLike, dump)

write_datetime(v, column) ==
    LET zoned(w) == IF FitsZone(w, column) THEN Rendered(w) ELSE Error
    IN IF Type(v) = "datetime" THEN zoned(v)
       ELSE Otherwise(v, column, LAMBDA w : Type(w) \in Datetimes, zoned)

Field(v, column) ==
    CASE column.family \in {"bool", "date"} -> write_exact(v, column)
      [] column.family \in {"smallint", "integer", "bigint"} -> write_integer(v, column)
      [] column.family = "numeric" -> write_numeric(v, column)
      [] column.family = "float" -> write_float(v, column)
      [] column.family = "text" -> write_text(v, column)
      [] column.family = "bytes" -> write_bytes(v, column)
      [] column.family \in {"timestamp", "timestamptz"} -> write_datetime(v, column)

\* _write_compiled_declared_copytext_row(): fields between tabs, then a line feed.
Line(row, columns) ==
    LET fields == [i \in DOMAIN columns |-> Field(row[i], columns[i])]
        line[n \in 0..Len(columns)] ==
            IF n = 0 THEN <<>>
            ELSE line[n - 1] \o (IF n = 1 THEN <<>> ELSE <<"TAB">>) \o fields[n]
    IN IF \E i \in DOMAIN fields : fields[i] = Error THEN Error
       ELSE Append(line[Len(columns)], "LF")

-----------------------------------------------------------------------------
(* PostgreSQL reads COPY text: lines end at a line feed and fields at a    *)
(* tab, unless escaped; a field that is exactly \N is null, before escapes *)
(* are undone.                                                             *)

Escaped(character) ==
    CASE character = "t" -> "TAB" [] character = "n" -> "LF" [] character = "r" -> "CR"
      [] OTHER -> character

Reading == [table |-> <<>>, line |-> <<>>, raw |-> <<>>, text |-> <<>>, escape |-> FALSE]

\* The field so far: null, the text of a text column, or the one symbol it holds.
Ends(reading, columns) ==
    LET family == columns[Len(reading.line) + 1].family
        text   == reading.text
    IN IF reading.raw = Null THEN NullField
       ELSE IF family = "bytes" /\ SubSeq(text, 1, 2) = <<"\\", "x">> THEN SubSeq(text, 3, Len(text))
       ELSE text

ReadCharacter(reading, c, columns) ==
    CASE reading.escape ->
           [reading EXCEPT !.raw = Append(@, c), !.text = Append(@, Escaped(c)), !.escape = FALSE]
      [] ~reading.escape /\ c = "\\" -> [reading EXCEPT !.raw = Append(@, c), !.escape = TRUE]
      [] ~reading.escape /\ c = "TAB" ->
           [reading EXCEPT !.line = Append(@, Ends(reading, columns)), !.raw = <<>>, !.text = <<>>]
      [] ~reading.escape /\ c = "LF" ->
           [Reading EXCEPT !.table = Append(reading.table,
                                            Append(reading.line, Ends(reading, columns)))]
      [] OTHER -> [reading EXCEPT !.raw = Append(@, c), !.text = Append(@, c)]

CopyFrom(spool, columns) ==
    LET reading[n \in 0..Len(spool)] ==
            IF n = 0 THEN Reading ELSE ReadCharacter(reading[n - 1], spool[n], columns)
    IN  reading[Len(spool)].table
=============================================================================
