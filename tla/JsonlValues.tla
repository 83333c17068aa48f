---------------------------- MODULE JsonlValues ----------------------------
(***************************************************************************)
(* One value on its way from a column of one database to a column of       *)
(* another: encode_value, the line in the JSONL file, the checks of the    *)
(* two passes of the import and decode_value, and an export of what the    *)
(* target then holds.                                                      *)
(*                                                                         *)
(* A value is what Python has in its place: "is" names the class, "says"   *)
(* what it denotes as far as the conversions tell values apart.  A point   *)
(* in time has its wall clock in hours, its offset where it has one, and   *)
(* its digits after the second.  Zones are functions from instants to      *)
(* offsets; calendar ends are the first and the last hour.                 *)
(***************************************************************************)
EXTENDS Integers, FiniteSets

CONSTANTS
  LastHour,   \* the calendar has the hours 0 .. LastHour
  Zones,      \* the zones that --tz may name
  Offset,     \* per zone, its offset from UTC at every instant
  Offsets,    \* the offsets that values carry themselves
  Digits,     \* the numbers of digits after the second
  Precisions  \* those that target columns declare; NoLimit for none

CONSTANTS NoLimit, NoOffset

Hours == 0 .. LastHour

ASSUME ZonesAssumption ==
  /\ LastHour \in Nat /\ Digits \subseteq Nat /\ Precisions \subseteq Nat \cup {NoLimit}
  /\ Offset \in [Zones -> [Hours -> Int]] /\ Offsets \subseteq Int /\ NoOffset \notin Int

Dialects == {"sqlite", "mysql", "postgresql"}
Families == {"datetime", "date", "time", "blob", "boolean", "decimal", "integer", "real", "text"}
NumericFamilies == {"integer", "real", "decimal", "boolean"}

(* What Python objects the drivers return and JSON holds.                  *)
Value(class, meaning) == [is |-> class, says |-> meaning]
NULL == Value("null", "null")
Numbers == {Value(c, n) : c \in {"int", "float", "decimal"}, n \in {"0", "1", "2"}}
              \cup {Value("float", "nan"), Value("decimal", "nan")}
Booleans == {Value("bool", "0"), Value("bool", "1")}
Words == {"yes", "no", "0", "1", "2", "nan", "words", "day", "clock", "zeroDate"}
Blob == Value("bytes", "data")
Objects == {Value("date", "day"), Value("time", "clock"),
            Value("timedelta", "clock"), Value("timedelta", "days")}

Moment(class, wall, offset, digits) ==
  [is |-> class, says |-> "moment", wall |-> wall, offset |-> offset, digits |-> digits]
Moments ==
  {Moment(c, w, o, d) : c \in {"datetime", "str"}, w \in Hours, o \in {NoOffset} \cup Offsets, d \in Digits}

Values == {NULL, Blob} \cup Numbers \cup Booleans \cup Objects \cup {Value("str", w) : w \in Words}
Error(what) == [is |-> "error", says |-> what]
Refused == Error("refused")
IsError(v) == v.is = "error"

VARIABLES
  place,    \* how far the value has come
  origin,   \* dialect, family and zone of the export, and the column's value
  line,     \* the value in the file
  target,   \* dialect, family, zone and precision of the import, whether the
            \* column keeps instants and the zone of the server's session
  stored,   \* what the driver is given to store
  again     \* the value an export of the target writes

wayVars == <<place, origin, line, target, stored, again>>

-----------------------------------------------------------------------------
(* Time.                                                                   *)

(* The instants at which the clocks of a zone show the hour.               *)
Shown(zone, wall) == {i \in Hours : i + Offset[zone][i] = wall}

(* The offset a clock reading without one is taken to have (fold 0): that  *)
(* of the first such instant, or, where clocks were put forward over it,   *)
(* the one before.                                                         *)
OffsetAt(zone, wall) ==
  IF Shown(zone, wall) # {}
  THEN wall - (CHOOSE i \in Shown(zone, wall) : \A j \in Shown(zone, wall) : i <= j)
  ELSE LET before == {i \in Hours : i + Offset[zone][i] < wall}
       IN  IF before = {} THEN Offset[zone][0]
           ELSE Offset[zone][CHOOSE i \in before : \A j \in before : j <= i]

(* A moment as an instant; astimezone cannot leave the calendar.           *)
Instant(moment, zone) ==
  moment.wall - (IF moment.offset = NoOffset THEN OffsetAt(zone, moment.wall) ELSE moment.offset)

Representable(hour) == hour \in Hours

(* Mutant: the wall clock is written without a look at its zone.           *)
NormalizedAsIs(moment, zone) == Moment("str", moment.wall, 0, moment.digits)

(* normalize_datetime.                                                     *)
Normalized(moment, zone) ==
  IF Representable(Instant(moment, zone)) THEN Moment("str", Instant(moment, zone), 0, moment.digits)
  ELSE Error("crash")

(* _format_datetime with the precision of the target column.               *)
Cut(digits, precision) ==
  IF precision = NoLimit \/ digits <= precision THEN digits ELSE precision

(* Mutant: the wall clock is taken as it stands.                           *)
LocalizedAsIs(moment, zone, precision) ==
  Moment("str", moment.wall, NoOffset, Cut(moment.digits, precision))

(* format_datetime_for_database.                                           *)
Localized(moment, zone, precision) ==
  LET instant == Instant(moment, zone)
  IN  IF Representable(instant) /\ Representable(instant + Offset[zone][instant])
      THEN Moment("str", instant + Offset[zone][instant], NoOffset, Cut(moment.digits, precision))
      ELSE Error("crash")

-----------------------------------------------------------------------------
(* The export.                                                             *)

(* _normalize_mysql_zero_date and _mysql_time_of_day.                      *)
FromMysql(value, family, zeroIsNull) ==
  CASE value = Value("str", "zeroDate") /\ family \in {"date", "datetime"} ->
         IF zeroIsNull THEN NULL ELSE Refused
    [] value.is = "timedelta" -> IF value.says = "clock" THEN Value("str", "clock") ELSE Refused
    [] OTHER -> value

(* _encode_json_value.                                                     *)
JsonOf(value) ==
  CASE value.is = "float" /\ value.says = "nan" -> Refused
    [] value.is = "decimal" -> IF value.says = "nan" THEN Refused ELSE Value("decimalTag", value.says)
    [] value.is = "bytes" -> Value("blobTag", value.says)
    [] value.is \in {"date", "time", "datetime"} -> [value EXCEPT !.is = "str"]
    [] value.is = "timedelta" -> Refused
    [] OTHER -> value

IsMoment(value) == value.is = "str" /\ value.says = "moment"
IsTemporal(value, family) ==
  value.is = "str" /\ value.says = (IF family = "date" THEN "day" ELSE "clock")

(* encode_value: _encode_json_value and then _encode_declared_value.       *)
Encode(value, family, zone) ==
  LET json == JsonOf(value)
  IN  IF IsError(json) \/ json = NULL THEN json ELSE
      CASE family = "decimal" ->
             IF value.is \in {"int", "float", "decimal", "str"} /\ value.says \in {"0", "1", "2"}
             THEN Value("decimalTag", value.says) ELSE Refused
        [] family = "datetime" -> IF IsMoment(json) THEN Normalized(json, zone) ELSE Refused
        [] family \in {"date", "time"} -> IF IsTemporal(json, family) THEN json ELSE Refused
        [] family = "blob" -> IF json.is = "blobTag" THEN json ELSE Refused
        [] OTHER -> json

ExportOf(dialect, value, family, zone, zeroIsNull) ==
  LET read == IF dialect = "mysql" THEN FromMysql(value, family, zeroIsNull) ELSE value
  IN  IF IsError(read) THEN read ELSE Encode(read, family, zone)

-----------------------------------------------------------------------------
(* The import.                                                             *)

(* _validate_declared_value, of the writer and of both passes.             *)
Valid(json, family) ==
  \/ json = NULL
  \/ family = "datetime" /\ IsMoment(json)
  \/ family \in {"date", "time"} /\ IsTemporal(json, family)
  \/ family = "blob" /\ json.is = "blobTag"
  \/ family = "decimal" /\ json.is = "decimalTag"
  \/ family \in {"boolean", "integer", "real", "text"}

(* Mutant: what counts is whether the value is true for Python.            *)
BooleanByTruth(value) ==
  IF value.is = "bool" THEN value ELSE Value("bool", IF value.says = "0" THEN "0" ELSE "1")

(* Mutant: only numbers are looked for.                                    *)
BooleanOfNumbers(value) ==
  CASE value.is = "bool" -> value
    [] value.is \in {"int", "float"} /\ value.says \in {"0", "1"} -> Value("bool", value.says)
    [] OTHER -> Refused

(* _decode_boolean.  A Decimal is none of the numbers it looks for.        *)
Boolean(value) ==
  CASE value.is = "bool" -> value
    [] value.is \in {"int", "float"} /\ value.says \in {"0", "1"} -> Value("bool", value.says)
    [] value.is = "str" /\ value.says \in {"0", "no"} -> Value("bool", "0")
    [] value.is = "str" /\ value.says \in {"1", "yes"} -> Value("bool", "1")
    [] OTHER -> Refused

(* _decode_typed_value.                                                    *)
Untagged(json) ==
  CASE json.is = "blobTag" -> Value("bytes", json.says)
    [] json.is = "decimalTag" -> Value("decimal", json.says)
    [] OTHER -> json

(* decode_value: _decode_typed_value and then _decode_declared_value.      *)
Decode(json, family, zone, precision) ==
  LET value == Untagged(json)
  IN  IF value = NULL THEN value ELSE
      CASE family = "datetime" -> IF IsMoment(value) THEN Localized(value, zone, precision) ELSE Refused
        [] family \in {"date", "time"} -> IF IsTemporal(value, family) THEN value ELSE Refused
        [] family = "boolean" -> Boolean(value)
        [] OTHER -> value

(* Numbers become text for SQLite.                                         *)
Parameter(dialect, value) ==
  IF dialect = "sqlite" /\ value.is = "decimal" THEN Value("str", value.says) ELSE value

(* compatible_types.                                                       *)
Compatible(from, to) == from = to \/ {from, to} \subseteq NumericFamilies

(* PostgreSQL keeps six digits and rounds the others away.                 *)
Rounded(dialect, moment) ==
  IF dialect = "postgresql" /\ moment.digits > 6
  THEN {Moment("str", w, moment.offset, 6) : w \in {moment.wall, moment.wall + 1}}
  ELSE {moment}

(* The instants a server may take a clock reading without an offset for.   *)
TakenFor(session, wall) ==
  IF Shown(session, wall) # {} THEN Shown(session, wall) ELSE {wall - OffsetAt(session, wall)}

(* What a server gives back of a moment.  A column that keeps instants,    *)
(* TIMESTAMPTZ or the TIMESTAMP of MySQL, is written and read in the zone  *)
(* of the server's session, which dbtalk leaves as it is; only PostgreSQL  *)
(* says the offset.  Drivers cannot return what is not in the calendar.    *)
At(column, moment, instant) ==
  LET offset == Offset[column.session][instant]
  IN  IF Representable(instant) /\ Representable(instant + offset)
      THEN Moment("str", instant + offset, IF column.dialect = "mysql" THEN NoOffset ELSE offset, moment.digits)
      ELSE Error("crash")

Returned(column, moment) ==
  IF column.aware THEN {At(column, moment, i) : i \in TakenFor(column.session, moment.wall)}
  ELSE {IF Representable(moment.wall) THEN moment ELSE Error("crash")}

(* What a database gives back of any value: a number in a numeric column   *)
(* is of a class of its own, a boolean a number where there are none.      *)
GivenBack(column, value) ==
  IF value.is \in {"bool", "int", "float", "decimal", "str"} /\ column.family \in NumericFamilies
     /\ value.says \in {"0", "1", "2"}
  THEN {Value(IF column.family = "boolean" THEN IF column.dialect = "postgresql" THEN "bool" ELSE "int"
              ELSE IF column.family = "decimal" /\ column.dialect # "sqlite" THEN "decimal"
              ELSE IF column.family = "integer" THEN "int" ELSE "float", value.says)}
  ELSE IF column.family = "datetime" /\ IsMoment(value)
  THEN UNION {Returned(column, m) : m \in Rounded(column.dialect, value)}
  ELSE {value}

-----------------------------------------------------------------------------
(* What the drivers return: only SQLite has values that are not those of   *)
(* the column's type.                                                      *)
Fits(dialect, family, value) ==
  \/ dialect = "sqlite" /\ value.is \notin {"decimal", "bool", "date", "time", "datetime", "timedelta"}
  \/ value = NULL
  \/ family = "datetime" /\ value.is = "datetime" /\ value.digits <= 6
     /\ (dialect = "mysql" => value.offset = NoOffset)
  \/ family = "date" /\ value.is = "date"
  \/ family = "time" /\ value.is = (IF dialect = "mysql" THEN "timedelta" ELSE "time")
  \/ family \in {"date", "datetime"} /\ dialect = "mysql" /\ value = Value("str", "zeroDate")
  \/ family = "blob" /\ value.is = "bytes"
  \/ family = "boolean" /\ value.is = (IF dialect = "mysql" THEN "int" ELSE "bool")
  \/ family = "decimal" /\ value.is = "decimal"
  \/ family = "integer" /\ value.is = "int"
  \/ family = "real" /\ value.is = "float"
  \/ family = "text" /\ value.is = "str" /\ value.says \in Words

Nowhere == [dialect |-> "none"]
NoValue == Value("none", "none")

WayInit ==
  /\ place = "export"
  /\ \E d \in Dialects, f \in Families, z \in Zones, b \in BOOLEAN :
       \E v \in IF f = "datetime" THEN Values \cup Moments ELSE Values :
         /\ Fits(d, f, v)
         /\ origin = [dialect |-> d, family |-> f, zone |-> z, value |-> v, zeroIsNull |-> b]
  /\ line = NoValue /\ target = Nowhere /\ stored = NoValue /\ again = NoValue

Stop(error) == place' = (IF error.says = "crash" THEN "crashed" ELSE "refused")

(* _encoded_rows and write_table.                                          *)
Export ==
  LET json == ExportOf(origin.dialect, origin.value, origin.family, origin.zone, origin.zeroIsNull)
  IN  /\ place = "export"
      /\ IF IsError(json) \/ ~Valid(json, origin.family)
         THEN Stop(json) /\ UNCHANGED line
         ELSE place' = "file" /\ line' = json
      /\ UNCHANGED <<origin, target, stored, again>>

(* The first pass, for a target table that fits.  The zone is looked at    *)
(* and the precision cut for moments only; MySQL's default precision is 0. *)
(* SQLite has neither sessions nor columns that keep instants.             *)
Preflight ==
  /\ place = "file" /\ Valid(line, origin.family)
  /\ \E d \in Dialects, f \in Families, z \in Zones, p \in Precisions, s \in Zones, a \in BOOLEAN :
       /\ Compatible(origin.family, f)
       /\ f # "datetime" => z = origin.zone /\ p = NoLimit
       /\ f = "datetime" /\ d = "mysql" => p # NoLimit
       /\ a => f = "datetime" /\ d # "sqlite"
       /\ ~a => s = z
       /\ target' = [dialect |-> d, family |-> f, zone |-> z, precision |-> p, session |-> s, aware |-> a]
  /\ place' = "replay"
  /\ UNCHANGED <<origin, line, stored, again>>

(* The second pass.                                                        *)
Replay ==
  LET value == Decode(line, target.family, target.zone, target.precision)
  IN  /\ place = "replay"
      /\ IF IsError(value) THEN Stop(value) /\ UNCHANGED stored
         ELSE place' = "stored" /\ stored' = Parameter(target.dialect, value)
      /\ UNCHANGED <<origin, line, target, again>>

ExportAgain ==
  /\ place = "stored"
  /\ \E v \in GivenBack(target, stored) :
       again' = ExportOf(target.dialect, v, target.family, target.zone, TRUE)
  /\ place' = "done"
  /\ UNCHANGED <<origin, line, target, stored>>

WayNext == Export \/ Preflight \/ Replay \/ ExportAgain
WaySpec == WayInit /\ [][WayNext]_wayVars

-----------------------------------------------------------------------------
JsonClasses == {"null", "bool", "int", "float", "str", "decimalTag", "blobTag", "none"}

(* Types of the variables; the file holds JSON only.                       *)
WayTypeOK ==
  /\ place \in {"export", "file", "replay", "stored", "done", "refused", "crashed"}
  /\ origin.family \in Families /\ origin.dialect \in Dialects
  /\ line.is \in JsonClasses /\ again.is \in JsonClasses \cup {"error"}
  /\ stored.is \in {"null", "bool", "int", "float", "str", "decimal", "bytes", "none"}
  /\ place \in {"replay", "stored", "done"} => target.dialect \in Dialects

(* What an export has written passes the first pass of every import that   *)
(* fits, and the second refuses it only for a BOOLEAN column that cannot   *)
(* take it (which takes no Decimal at all) or where the zone of the target *)
(* leaves the calendar.                                                    *)
WrittenIsAccepted ==
  /\ place = "file" => Valid(line, origin.family)
  /\ place = "refused" /\ line # NoValue =>
       target.family = "boolean" /\ (line.is = "decimalTag" \/ line.says \notin {"0", "1", "yes", "no"})
  /\ place = "crashed" /\ line # NoValue =>
       ~Representable(line.wall + Offset[target.zone][line.wall])

(* A moment is the same instant in the file and in the target, whatever    *)
(* zones the two commands were given: its clock there shows what the zone  *)
(* showed at that instant, and no more of its digits is cut than the       *)
(* column has no place for.  This is what the driver is given; what the    *)
(* server makes of it is the matter of ReexportIsTheSame.                  *)
InstantIsKept ==
  IsMoment(line) =>
    /\ origin.family = "datetime" => line.wall = Instant(origin.value, origin.zone) /\ line.offset = 0
    /\ place \in {"stored", "done"} /\ target.family = "datetime" =>
         /\ line.wall \in Shown(target.zone, stored.wall)
         /\ stored.digits = line.digits \/ stored.digits = target.precision

(* A value means the same number, truth value, text or data when it comes  *)
(* out: nothing is coerced to another value on the way.                    *)
Meaning(value) ==
  CASE value.is = "str" /\ value.says \in {"yes", "no"} -> IF value.says = "yes" THEN "1" ELSE "0"
    [] value.is = "timedelta" -> "clock"
    [] OTHER -> value.says

MeaningIsKept ==
  place \in {"stored", "done"} =>
    \/ Meaning(stored) = Meaning(origin.value)
    \/ origin.value = Value("str", "zeroDate") /\ origin.zeroIsNull /\ stored = NULL

(* A column that keeps instants takes the hour for another instant: the    *)
(* session of PostgreSQL is in another zone than --tz says, or that of     *)
(* MySQL never shows this hour.                                            *)
TakenForAnother ==
  /\ target.aware
  /\ IF target.dialect = "mysql" THEN Shown(target.session, stored.wall) = {}
     ELSE target.session # target.zone

(* An export of the target, in the zone of the import, gives back what the *)
(* first export wrote, apart from the digits that were cut, as long as the *)
(* two columns are of one family and the column holds a value of its own.  *)
(* It need not for an hour that the clocks of the target show twice, for   *)
(* digits that PostgreSQL rounds away, which no default precision cuts     *)
(* before, and where the server takes the hour for another instant.        *)
ReexportIsTheSame ==
  place = "done" /\ origin.family = target.family =>
    \/ again.says = line.says /\ again.is = line.is /\ ~IsMoment(line)
    \/ origin.family \in NumericFamilies /\ Meaning(again) = Meaning(line)
    \/ IsMoment(line) /\ again = [line EXCEPT !.digits = stored.digits]
    \/ IsMoment(line) /\ Cardinality(Shown(target.zone, stored.wall)) > 1
    \/ IsMoment(line) /\ target.dialect = "postgresql" /\ stored.digits > 6
    \/ IsMoment(line) /\ TakenForAnother
=============================================================================
