---------------------------- MODULE DateTimeParser ----------------------------
(***************************************************************************)
(* The date-time of the select command (parseEventDateTime and             *)
(* extractTokenListForDateTime in ui/cmdline/sevmgr.cpp).  The tokens are  *)
(* read one after the other into locals that start as the parts of the     *)
(* current date-time; the date is replaced as soon as its three tokens     *)
(* have been read, the time after its own.  An unreadable token ends the   *)
(* parse where it stands, an exception that is not caught the program.     *)
(***************************************************************************)
EXTENDS Integers

CONSTANTS
  YearTokens, MonthTokens, DayTokens,        \* what the user may type
  HoursTokens, MinutesTokens, SecondsTokens,
  Dates, Times                               \* the current date and time

UnknownMonth == 13  \* any word that names no month

\* What the regular expression lets through: all six tokens are optional, the
\* month and the minutes may be words (valued by the month they name).
Nothing == [kind |-> "nothing", value |-> 0]
Number(n) == [kind |-> "number", value |-> n]
Word(month) == [kind |-> "word", value |-> month]

Numbers == [kind : {"number"}, value : Nat]
Words == [kind : {"word"}, value : 1..UnknownMonth]

ASSUME TokenAssumption ==
  /\ YearTokens \cup DayTokens \cup HoursTokens \cup SecondsTokens
       \subseteq {Nothing} \cup Numbers
  /\ MonthTokens \cup MinutesTokens \subseteq {Nothing} \cup Numbers \cup Words

Lines == [year : YearTokens, month : MonthTokens, day : DayTokens,
          hours : HoursTokens, minutes : MinutesTokens, seconds : SecondsTokens]

VARIABLES
  pc,           \* the part to come, or how the parse ended
  iTokenList,
  ioEventDate,  \* year, month and day
  ioEventTime,  \* seconds since midnight, and whether a fraction follows
  local,        \* the six locals
  atCall        \* history: the date and the time at the call

parserVars == <<pc, iTokenList, ioEventDate, ioEventTime, local, atCall>>

Ends == {"returned", "terminated"}

-----------------------------------------------------------------------------
(* Boost.Date_Time.                                                         *)

IsLeap(year) == year % 4 = 0 /\ (year % 100 # 0 \/ year % 400 = 0)

DaysIn(year, month) ==
  IF month = 2 THEN IF IsLeap(year) THEN 29 ELSE 28
  ELSE IF month \in {4, 6, 9, 11} THEN 30 ELSE 31

\* bad_year, or bad_day_of_month from the day alone.
IsOutOfRange(date) == date.year \notin 1400..9999 \/ date.day \notin 1..31

IsDate(date) ==
  /\ ~ IsOutOfRange(date)
  /\ date.month \in 1..12
  /\ date.day <= DaysIn(date.year, date.month)

\* What an EventStruct holds: a day of the calendar and a time of day.
ASSUME CurrentDateTimeAssumption ==
  /\ Dates \subseteq [year : Int, month : Int, day : Int]
  /\ \A date \in Dates : IsDate(date)
  /\ Times \subseteq [total : Nat, fraction : BOOLEAN]

\* duration_from_string: 25:70:99 is a duration like any other.
Duration(hours, minutes, seconds) ==
  [total |-> 3600 * hours + 60 * minutes + seconds, fraction |-> FALSE]

-----------------------------------------------------------------------------
PartsOf(date, time) ==
  [year |-> date.year, month |-> date.month, day |-> date.day,
   hours |-> time.total \div 3600,
   minutes |-> (time.total % 3600) \div 60,
   seconds |-> time.total % 60]

ParserInit ==
  /\ pc = "year"
  /\ iTokenList \in Lines
  /\ ioEventDate \in Dates
  /\ ioEventTime \in Times
  /\ local = PartsOf(ioEventDate, ioEventTime)
  /\ atCall = [date |-> ioEventDate, time |-> ioEventTime]

End(how) ==
  /\ pc' = how
  /\ UNCHANGED <<iTokenList, ioEventDate, ioEventTime, local, atCall>>

\* A part is set to the value and the next one is read.
Sets(part, value, next) ==
  /\ pc' = next
  /\ local' = [local EXCEPT ![part] = value]
  /\ UNCHANGED <<iTokenList, ioEventDate, ioEventTime, atCall>>

\* An empty token keeps the part, a number replaces it.
ReadsNumber(part, next) ==
  /\ pc = part
  /\ iTokenList[part].kind # "word"
  /\ Sets(part, IF iTokenList[part].kind = "number" THEN iTokenList[part].value
                                                   ELSE local[part], next)

\* Faulty variant: the year 100 is taken for 2100.
ReadsYearTo100 ==
  LET year == iTokenList.year.value IN
    IF iTokenList.year.kind = "number" /\ year <= 100
    THEN pc = "year" /\ Sets("year", year + 2000, "month")
    ELSE ReadsNumber("year", "month")

ReadsYear ==
  LET year == iTokenList.year.value IN
    IF iTokenList.year.kind = "number" /\ year < 100
    THEN pc = "year" /\ Sets("year", year + 2000, "month")
    ELSE ReadsNumber("year", "month")

\* The name is looked up at index month - 1 of an array of twelve.  What a read
\* outside of it yields is undefined: any name, or the end of the program.
LooksUpName(month) ==
  \/ month \in 1..12 /\ Sets("month", month, "day")
  \/ month \notin 1..12 /\ \E name \in 1..UnknownMonth : Sets("month", name, "day")
  \/ month \notin 1..12 /\ End("terminated")

\* Faulty variant: 13 is let through.
ReadsMonthTo13 ==
  LET month == iTokenList.month IN
    /\ pc = "month"
    /\ \/ month.kind = "nothing" /\ Sets("month", local.month, "day")
       \/ month.kind = "word" /\ Sets("month", month.value, "day")
       \/ month.kind = "number" /\ month.value > 13 /\ End("returned")
       \/ month.kind = "number" /\ month.value <= 13 /\ LooksUpName(month.value)

ReadsMonth ==
  LET month == iTokenList.month IN
    /\ pc = "month"
    /\ \/ month.kind = "nothing" /\ Sets("month", local.month, "day")
       \/ month.kind = "word" /\ Sets("month", month.value, "day")
       \/ month.kind = "number" /\ month.value > 12 /\ End("returned")
       \/ month.kind = "number" /\ month.value <= 12 /\ LooksUpName(month.value)

ReadsDay == ReadsNumber("day", "date")

\* from_simple_string.  Only bad_month is caught; when several parts are bad,
\* the order in which they are found so is that of a compiler's arguments.
ComposesDate ==
  LET date == [year |-> local.year, month |-> local.month, day |-> local.day] IN
    /\ pc = "date"
    /\ \/ /\ IsDate(date)
          /\ ioEventDate' = date
          /\ pc' = "hours"
          /\ UNCHANGED <<iTokenList, ioEventTime, local, atCall>>
       \/ date.month = UnknownMonth /\ End("returned")
       \/ IsOutOfRange(date) /\ End("terminated")
       \/ date.month # UnknownMonth /\ ~ IsDate(date) /\ End("terminated")

ReadsHours == ReadsNumber("hours", "minutes")

ReadsMinutes ==
  \/ ReadsNumber("minutes", "seconds")
  \/ pc = "minutes" /\ iTokenList.minutes.kind = "word" /\ End("returned")

ReadsSeconds == ReadsNumber("seconds", "time")

ComposesTime ==
  /\ pc = "time"
  /\ ioEventTime' = Duration(local.hours, local.minutes, local.seconds)
  /\ pc' = "returned"
  /\ UNCHANGED <<iTokenList, ioEventDate, local, atCall>>

Over == pc \in Ends /\ UNCHANGED parserVars

ParserNext ==
  \/ ReadsYear \/ ReadsMonth \/ ReadsDay \/ ComposesDate
  \/ ReadsHours \/ ReadsMinutes \/ ReadsSeconds \/ ComposesTime
  \/ Over

ParserSpec == ParserInit /\ [][ParserNext]_parserVars

-----------------------------------------------------------------------------
(* Properties.                                                              *)

\* The line as the user means it: a part that is not typed is that of the
\* current date-time, and a year of two digits is of this century.
Wanted(part) ==
  LET token == iTokenList[part] IN
    IF token.kind = "nothing" THEN PartsOf(atCall.date, atCall.time)[part]
    ELSE IF part = "year" /\ token.value < 100 THEN 2000 + token.value
    ELSE token.value

WantedDate ==
  [year |-> Wanted("year"), month |-> Wanted("month"), day |-> Wanted("day")]

MonthZero == iTokenList.month = Number(0)

\* When parseEventDateTime comes back, the date is the one meant or, all of it,
\* the current one; so is the time, which is never replaced without the date
\* and, when nothing is typed, is the current one to the second.
ParsesWhatIsMeant ==
  pc = "returned" /\ ~ MonthZero =>
    LET hasTime == iTokenList.minutes.kind # "word"
        time == Duration(Wanted("hours"), Wanted("minutes"), Wanted("seconds"))
    IN  IF IsDate(WantedDate)
        THEN /\ ioEventDate = WantedDate
             /\ ioEventTime = (IF hasTime THEN time ELSE atCall.time)
             /\ iTokenList \in [DOMAIN iTokenList -> {Nothing}] =>
                  ioEventDate = atCall.date /\ ioEventTime.total = atCall.time.total
        ELSE ioEventDate = atCall.date /\ ioEventTime = atCall.time

\* Nothing but a date that is not in the calendar, or the month 0, ends the
\* program; in particular no month number above 12 and no time does.
EndsOnlyOnImpossibleDates ==
  pc = "terminated" =>
    \/ MonthZero
    \/ /\ ~ IsDate(WantedDate)
       /\ iTokenList.month.kind = "number" => iTokenList.month.value <= 12

-----------------------------------------------------------------------------
(* A statement of the code that it does not keep.                           *)

\* sevmgr.cpp:293-295: of a date that cannot be understood, the default value is
\* kept, so that the session goes on.
ImpossibleDatesAreKeptOut == pc # "terminated"
=============================================================================
