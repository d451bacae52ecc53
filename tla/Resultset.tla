----------------------------- MODULE Resultset ------------------------------
(***************************************************************************)
(* Result sets of the MySQL protocol library: column definitions, rows in  *)
(* the text and in the binary format, as the server side writes them and   *)
(* as the client side reads them.                                          *)
(*                                                                         *)
(* A value is [t, n, s], as FieldValue in the code: n is the number of an  *)
(* "int", "uint" or "float" (its bits), s the bytes of a "str", or those   *)
(* of a "string": a handler may give a Go string where others give bytes.  *)
(***************************************************************************)
EXTENDS Wire

Null      == [t |-> "null",  n |-> 0, s |-> <<>>]
IntV(k)   == [t |-> "int",   n |-> k, s |-> <<>>]
UintV(k)  == [t |-> "uint",  n |-> k, s |-> <<>>]
FloatV(k) == [t |-> "float", n |-> k, s |-> <<>>]
StrV(b)   == [t |-> "str",   n |-> 0, s |-> b]
GoStr(b)  == [t |-> "string", n |-> 0, s |-> b]

(* the MYSQL_TYPE_ codes *)
TINY        == 1
SHORT       == 2
LONG        == 3
FLOAT       == 4
DOUBLE      == 5
NULL        == 6
LONGLONG    == 8
INT24       == 9
DATE        == 10
TIME        == 11
DATETIME    == 12
YEAR        == 13
VARCHAR     == 15
BLOB        == 252
VAR_STRING  == 253
STRING_TYPE == 254

IntTypes == {TINY, SHORT, INT24, LONGLONG, LONG, YEAR}
StrTypes == {VARCHAR, BLOB, VAR_STRING, STRING_TYPE}

(* bytes of a number of an integer or float type *)
Width(tp) == CASE tp = TINY -> 1 [] tp \in {SHORT, YEAR} -> 2
               [] tp \in {INT24, LONG, FLOAT} -> 4 [] tp \in {LONGLONG, DOUBLE} -> 8
-----------------------------------------------------------------------------
(* Numbers as text: digits are the characters 48 to 57, "-" is 45 and a    *)
(* float starts with "." (46).                                             *)

AppendUint(n) == LET k == CHOOSE j \in 1..9 : n < 10^j /\ (j = 1 \/ n >= 10^(j - 1))
                 IN  [i \in 1..k |-> 48 + ((n \div 10^(k - i)) % 10)]
AppendInt(n) == IF n < 0 THEN <<45>> \o AppendUint(-n) ELSE AppendUint(n)

IsDigits(s) == s # <<>> /\ \A i \in 1..Len(s) : s[i] \in 48..57
ParseUint(s) ==
    LET digit(acc, c) == acc * 10 + (c - 48)
    IN  IF IsDigits(s) THEN [err |-> FALSE, n |-> FoldLeft(digit, 0, s)]
        ELSE [err |-> TRUE, n |-> 0]
ParseInt(s) ==
    IF s # <<>> /\ s[1] = 45 THEN [ParseUint(Tail(s)) EXCEPT !.n = -@] ELSE ParseUint(s)
ParseFloat(s) == ParseInt(IF s # <<>> /\ s[1] = 46 THEN Tail(s) ELSE s)

formatTextValue(v) == CASE v.t \in {"str", "string"} -> v.s
                        [] v.t \in {"int", "uint"} -> AppendInt(v.n)
                        [] v.t = "float" -> <<46>> \o AppendInt(v.n)
                        [] v.t = "null" -> <<>>

(* GetString of a result set and of SQLite's utils *)
GetString(v) == formatTextValue(v)

(* GetUint, GetInt and GetFloat of a value: [err, n]. A negative number is *)
(* the uint64 with its bits, which GetInt turns back.                      *)
GetUint(v) == CASE v.t \in {"str", "string"} -> ParseUint(v.s)
                [] v.t = "null" -> [err |-> FALSE, n |-> 0]
                [] OTHER -> [err |-> FALSE, n |-> v.n % Base^8]
GetInt(v) == [GetUint(v) EXCEPT !.n = IF 2 * @ >= Base^8 THEN @ - Base^8 ELSE @]
GetFloat(v) == CASE v.t \in {"str", "string"} -> ParseFloat(v.s)
                 [] v.t = "null" -> [err |-> FALSE, n |-> 0]
                 [] OTHER -> [err |-> FALSE, n |-> v.n]
-----------------------------------------------------------------------------
(* Columns. def is <<>> (no default value sent) or <<the value>>.          *)

EmptyField == [schema |-> <<>>, table |-> <<>>, orgTable |-> <<>>, name |-> <<>>,
               orgName |-> <<>>, charset |-> 0, length |-> 0, type |-> 0,
               flag |-> 0, decimal |-> 0, def |-> <<>>]

NOT_NULL_FLAG == 1
BINARY_FLAG   == 16   \* 128 in the code, which has no place in two bytes here
UNSIGNED_FLAG == 32
IsUnsigned(f) == (f.flag \div UNSIGNED_FLAG) % 2 = 1

fieldType(v) == CASE v.t \in {"int", "uint"} -> LONGLONG [] v.t = "float" -> DOUBLE
                  [] v.t \in {"str", "string"} -> VAR_STRING [] v.t = "null" -> NULL

formatField(name, v) ==
    [EmptyField EXCEPT !.name = name, !.type = fieldType(v),
        !.charset = IF v.t \in {"int", "uint", "float"} THEN 63 ELSE 33,
        !.flag = CASE v.t \in {"int", "float"} -> BINARY_FLAG + NOT_NULL_FLAG
                   [] v.t = "uint" -> BINARY_FLAG + NOT_NULL_FLAG + UNSIGNED_FLAG
                   [] OTHER -> 0]

(* Field.Dump: the default value has a length of eight bytes *)
Dump(f) == PutLengthEncodedString(<<100>>) \o PutLengthEncodedString(f.schema)
           \o PutLengthEncodedString(f.table) \o PutLengthEncodedString(f.orgTable)
           \o PutLengthEncodedString(f.name) \o PutLengthEncodedString(f.orgName)
           \o <<12>> \o UintToBytes(f.charset, 2) \o UintToBytes(f.length, 4)
           \o <<f.type>> \o UintToBytes(f.flag, 2) \o <<f.decimal, 0, 0>>
           \o IF f.def = <<>> THEN <<>>
              ELSE UintToBytes(Len(f.def[1]), 8) \o f.def[1]

(* Field.Parse reads that length as a length-encoded number: [fault, f],   *)
(* with the fault "malformed" for an error and "panic" for an index beyond *)
(* the packet. A number whose top bit is set is negative as an int, so     *)
(* that it passes the check and panics.                                    *)
Parse(p) ==
    LET fault(e) == IF e.short THEN "panic" ELSE IF e.err THEN "malformed" ELSE ""
        add(acc, e) == [fault |-> fault(e), pos |-> acc.pos + e.n,
                        strs |-> Append(acc.strs, e.str)]
        part(acc, i) == IF acc.fault # "" THEN acc
                        ELSE add(acc, LengthEncodedString(From(p, acc.pos)))
        field(strs, q) ==
            [schema |-> strs[2], table |-> strs[3], orgTable |-> strs[4],
             name |-> strs[5], orgName |-> strs[6],
             charset |-> FixedLengthInt(Slice(p, q, 2)),
             length |-> FixedLengthInt(Slice(p, q + 2, 4)),
             type |-> p[q + 7], flag |-> FixedLengthInt(Slice(p, q + 7, 2)),
             decimal |-> p[q + 10], def |-> <<>>]
        negative(d, q) == Follow(p[q + 1]) = 8 /\ p[q + 9] \in (Base \div 2)..(Base - 1)
        default(f, q, d) ==
            IF d.short \/ negative(d, q) THEN [fault |-> "panic", f |-> f]
            ELSE IF q + d.n + d.num > Len(p) THEN [fault |-> "malformed", f |-> f]
            ELSE [fault |-> "", f |-> [f EXCEPT !.def = <<Slice(p, q + d.n, d.num)>>]]
        behind(head, q) ==
            IF head.fault # "" THEN [fault |-> head.fault, f |-> EmptyField]
            ELSE IF Len(p) < q + 10 THEN [fault |-> "panic", f |-> EmptyField]
            ELSE IF Len(p) <= q + 12 THEN [fault |-> "", f |-> field(head.strs, q)]
            ELSE default(field(head.strs, q), q + 12, LengthEncodedInt(From(p, q + 12)))
        of(head) == behind(head, head.pos + 1)
    IN  of(FoldLeft(part, [fault |-> "", pos |-> 0, strs |-> <<>>], [i \in 1..6 |-> i]))
-----------------------------------------------------------------------------
(* Rows, written. A result set is [fields, rows] with each row in bytes.   *)

Concat(f) == FlattenSeq(f)

(* hack.Slice gives no bytes, not even none, for an empty Go string, whose *)
(* pointer is nil: it is written as NULL is                                *)
NilBytes(v) == v = Null \/ v = GoStr(<<>>)

TextCell(v) == IF NilBytes(v) THEN <<NullByte>> ELSE PutLengthEncodedString(formatTextValue(v))

(* the column's type is that of its first value that is not NULL *)
ColumnType(rows, j) ==
    LET given == {i \in 1..Len(rows) : rows[i][j] # Null}
    IN  IF given = {} THEN Null ELSE rows[Min(given)][j]

BuildSimpleTextResultset(names, rows) ==
    [err |-> \E j \in 1..Len(names) : \E i, k \in 1..Len(rows) :
                LET a == rows[i][j] b == rows[k][j]
                IN  a # Null /\ b # Null /\ fieldType(a) # fieldType(b),
     fields |-> [j \in 1..Len(names) |-> formatField(names[j], ColumnType(rows, j))],
     rows |-> [i \in 1..Len(rows) |->
                 Concat([j \in 1..Len(names) |-> TextCell(rows[i][j])])]]

(* a bitmap of n bits, of which those in S are set, eight to an element *)
Bitmap(n, S) == [b \in 1..((n + 7) \div 8) |->
                    FoldSet(LAMBDA k, acc : acc + 2^(k % 8), 0,
                            {k \in S : k \div 8 = b - 1})]
HasBit(bm, k) == (bm[k \div 8 + 1] \div 2^(k % 8)) % 2 = 1

formatBinaryValue(v) == CASE v.t \in {"str", "string"} -> v.s [] OTHER -> UintToBytes(v.n, 8)

(* The columns are those of the first row. The bit of a NULL is numbered   *)
(* by its row, where a reader looks for it by its column.                  *)
BuildSimpleBinaryResultset(names, rows) ==
    LET fields == [j \in 1..Len(names) |-> IF rows = <<>> THEN EmptyField
                                           ELSE formatField(names[j], rows[1][j])]
        cell(i, j) == IF rows[i][j] = Null THEN <<>>
                      ELSE IF fields[j].type = VAR_STRING
                      THEN PutLengthEncodedString(formatBinaryValue(rows[i][j]))
                      ELSE formatBinaryValue(rows[i][j])
        nulls(i) == IF Null \in Range(rows[i]) THEN {i - 1 + 2} ELSE {}
    IN  [err |-> \E i \in 1..Len(rows) : \E k \in nulls(i) :
                    k \div 8 >= (Len(names) + 9) \div 8,
         fields |-> fields,
         rows |-> [i \in 1..Len(rows) |->
                     <<0>> \o Bitmap(Len(names) + 2, nulls(i))
                     \o Concat([j \in 1..Len(names) |-> cell(i, j)])]]

BuildSimpleResultset(names, rows, binary) ==
    IF binary THEN BuildSimpleBinaryResultset(names, rows)
    ELSE BuildSimpleTextResultset(names, rows)

(* sqlite.Exec: NULL is the empty string and a length one byte *)
SqliteCell(v) == <<Len(GetString(v)) % Base>> \o GetString(v)
SqliteResultset(names, types, rows) ==
    [err |-> FALSE,
     fields |-> [j \in 1..Len(names) |->
                   [EmptyField EXCEPT !.name = names[j], !.charset = 33,
                                      !.type = types[j]]],
     rows |-> [i \in 1..Len(rows) |->
                 Concat([j \in 1..Len(names) |-> SqliteCell(rows[i][j])])]]
-----------------------------------------------------------------------------
(* Rows, read: [err, pos, vals] *)

ParseText(fields, row) ==
    LET number(type, p) == [err |-> p.err, v |-> [t |-> type, n |-> p.n, s |-> <<>>]]
        value(f, s) == CASE f.type \in IntTypes /\ IsUnsigned(f) -> number("uint", ParseUint(s))
                         [] f.type \in IntTypes /\ ~IsUnsigned(f) -> number("int", ParseInt(s))
                         [] f.type \in {FLOAT, DOUBLE} -> number("float", ParseFloat(s))
                         [] OTHER -> [err |-> FALSE, v |-> StrV(s)]
        add(acc, n, c) == [err |-> c.err, pos |-> acc.pos + n, vals |-> Append(acc.vals, c.v)]
        read(acc, f, e) ==
            add(acc, e.n, IF e.err \/ e.isNull THEN [err |-> e.err, v |-> Null]
                          ELSE value(f, e.str))
        cell(acc, f) == IF acc.err THEN acc
                        ELSE read(acc, f, LengthEncodedString(From(row, acc.pos)))
    IN  FoldLeft(cell, [err |-> FALSE, pos |-> 0, vals |-> <<>>], fields)

(* FormatBinaryDate, FormatBinaryDateTime and FormatBinaryTime: the        *)
(* numbers of a date, without their layout. The zero time is the zero date *)
(* and only the low byte of a time's days counts.                          *)
FormatBinaryDate(n, b) ==
    IF n = 0 THEN <<0, 0, 0>> ELSE <<FixedLengthInt(Slice(b, 0, 2)), b[3], b[4]>>
FormatBinaryDateTime(n, b) ==
    LET at(k) == IF k <= n THEN b[k] ELSE 0
    IN  IF n = 0 THEN <<0, 0, 0, 0, 0, 0>>
        ELSE FormatBinaryDate(4, b) \o <<at(5), at(6), at(7)>>
             \o IF n = 11 THEN <<FixedLengthInt(Slice(b, 7, 4))>> ELSE <<>>

FormatBinaryTime(n, b) ==
    IF n = 0 THEN <<0, 0, 0>>
    ELSE <<b[1], b[2] * 24 + b[6], b[7], b[8]>>
         \o IF n = 12 THEN <<FixedLengthInt(Slice(b, 8, 4))>> ELSE <<>>

(* one value of a binary row at the start of b: [err, v, n] *)
BinaryCell(f, b) ==
    LET fixed(raw) ==
            [err |-> FALSE, n |-> Len(raw),
             v |-> CASE f.type \in {FLOAT, DOUBLE} -> FloatV(FixedLengthInt(raw))
                     [] f.type \in IntTypes /\ IsUnsigned(f) -> UintV(ParseBinaryUint(raw))
                     [] f.type \in IntTypes /\ ~IsUnsigned(f) -> IntV(ParseBinaryInt(raw))]
        string(e) == [err |-> e.err, n |-> e.n, v |-> IF e.isNull THEN Null ELSE StrV(e.str)]
        time(i, data) ==
            IF i.isNull THEN [err |-> FALSE, v |-> Null, n |-> i.n]
            ELSE [n |-> i.n + i.num,
                  err |-> i.num \notin CASE f.type = DATE -> {0, 4}
                                         [] f.type = DATETIME -> {0, 4, 7, 11}
                                         [] f.type = TIME -> {0, 8, 12},
                  v |-> StrV(CASE f.type = DATE -> FormatBinaryDate(i.num, data)
                               [] f.type = DATETIME -> FormatBinaryDateTime(i.num, data)
                               [] f.type = TIME -> FormatBinaryTime(i.num, data))]
        timed(i) == time(i, From(b, i.n))
    IN  CASE f.type = NULL -> [err |-> FALSE, v |-> Null, n |-> 0]
          [] f.type \in IntTypes \cup {FLOAT, DOUBLE} -> fixed(Slice(b, 0, Width(f.type)))
          [] f.type \in StrTypes -> string(LengthEncodedString(b))
          [] f.type \in {DATE, DATETIME, TIME} -> timed(LengthEncodedInt(b))

ParseBinary(fields, row) ==
    LET pos0   == 1 + (Len(fields) + 9) \div 8
        bitmap == Slice(row, 1, pos0 - 1)
        add(acc, c) == [err |-> c.err, pos |-> acc.pos + c.n, vals |-> Append(acc.vals, c.v)]
        cell(acc, j) ==
            IF acc.err THEN acc
            ELSE IF HasBit(bitmap, j - 1 + 2)
            THEN [acc EXCEPT !.vals = Append(acc.vals, Null)]
            ELSE add(acc, BinaryCell(fields[j], From(row, acc.pos)))
    IN  FoldLeft(cell, [err |-> row[1] # OK_HEADER, pos |-> pos0, vals |-> <<>>],
                 [j \in 1..Len(fields) |-> j])

RowParse(fields, row, binary) ==
    IF binary THEN ParseBinary(fields, row) ELSE ParseText(fields, row)
-----------------------------------------------------------------------------
(* A MySQL server behind the proxy (external): rows as the protocol says.  *)

MySQLCell(f, v) ==
    CASE f.type \in IntTypes \cup {FLOAT, DOUBLE} -> UintToBytes(v.n, Width(f.type))
      [] f.type \in StrTypes -> PutLengthEncodedString(v.s)
      [] f.type = DATE /\ v.s = <<0, 0, 0>> -> PutLengthEncodedInt(0)
      [] f.type = DATE /\ v.s # <<0, 0, 0>> ->
           PutLengthEncodedInt(4) \o UintToBytes(v.s[1], 2) \o Tail(v.s)
      [] f.type = DATETIME ->
           PutLengthEncodedInt(7) \o UintToBytes(v.s[1], 2) \o Tail(v.s)
      [] f.type = TIME /\ v.s = <<0, 0, 0, 0>> -> PutLengthEncodedInt(0)
      [] f.type = TIME /\ v.s # <<0, 0, 0, 0>> ->
           PutLengthEncodedInt(8) \o <<v.s[1]>> \o UintToBytes(v.s[2] \div 24, 4)
           \o <<v.s[2] % 24, v.s[3], v.s[4]>>

MySQLRow(fields, vals, binary) ==
    IF binary
    THEN <<0>> \o Bitmap(Len(fields) + 2, {j + 1 : j \in {k \in 1..Len(fields) : vals[k] = Null}})
         \o Concat([j \in 1..Len(fields) |-> IF vals[j] = Null THEN <<>>
                                             ELSE MySQLCell(fields[j], vals[j])])
    ELSE Concat([j \in 1..Len(fields) |-> TextCell(vals[j])])

=============================================================================
