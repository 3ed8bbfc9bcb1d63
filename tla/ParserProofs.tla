----------------------------- MODULE ParserProofs -----------------------------
(***************************************************************************)
(* Proofs about the date-time of the select command, for any line that the *)
(* user can type and any current date-time.  The invariant follows the     *)
(* parse: the locals that have been read are the parts that the user means,*)
(* the others those of the current date-time.                              *)
(***************************************************************************)
EXTENDS DateTimeParser, TLAPS

Parts == {"year", "month", "day", "hours", "minutes", "seconds"}

\* The parts that have been read when the parser is at pc.
Read(part) ==
  CASE part = "year"    -> pc # "year"
    [] part = "month"   -> pc \notin {"year", "month"}
    [] part = "day"     -> pc \notin {"year", "month", "day"}
    [] part = "hours"   -> pc \in {"minutes", "seconds", "time"}
    [] part = "minutes" -> pc \in {"seconds", "time"}
    [] part = "seconds" -> pc = "time"

Places == Parts \cup {"date", "time"} \cup Ends

Composed == pc \in {"hours", "minutes", "seconds", "time"}

Kept == PartsOf(atCall.date, atCall.time)

\* The line and the history stay, and the locals are the parts that are meant as
\* far as they have been read.
LocalInv ==
  /\ pc \in Places
  /\ iTokenList \in Lines
  /\ atCall \in [date : Dates, time : Times]
  /\ local \in [Parts -> Int]
  /\ pc \notin Ends =>
       \A part \in Parts :
         IF Read(part) THEN local[part] = Wanted(part) \/ (part = "month" /\ MonthZero)
                       ELSE local[part] = Kept[part]

\* Dates and times are replaced one after the other, and a month number that was
\* let through, or minutes that were, could be read.
EventInv ==
  /\ pc \notin Ends => ioEventTime = atCall.time
  /\ pc \notin Ends /\ ~ Composed => ioEventDate = atCall.date
  /\ Composed /\ ~ MonthZero => IsDate(WantedDate) /\ ioEventDate = WantedDate
  /\ pc \notin {"year", "month"} \cup Ends /\ iTokenList.month.kind = "number" =>
       iTokenList.month.value <= 12
  /\ pc \in {"seconds", "time"} => iTokenList.minutes.kind # "word"

PInv ==
  /\ LocalInv
  /\ EventInv
  /\ ParsesWhatIsMeant
  /\ EndsOnlyOnImpossibleDates

-----------------------------------------------------------------------------
(* What the parser reads.                                                   *)

\* What a token can be: only the month and the minutes can be words.
LEMMA TokenFacts ==
  ASSUME iTokenList \in Lines
  PROVE  /\ \A part \in Parts : /\ iTokenList[part].kind \in {"nothing", "number", "word"}
                                /\ iTokenList[part].value \in Nat
                                /\ iTokenList[part].kind = "word" => part \in {"month", "minutes"}
         /\ iTokenList.month.kind = "word" => iTokenList.month.value \in 1..UnknownMonth
         /\ iTokenList.month.kind = "number" /\ iTokenList.month.value = 0 => MonthZero
<1>1. /\ iTokenList.year \in YearTokens /\ iTokenList.month \in MonthTokens
      /\ iTokenList.day \in DayTokens /\ iTokenList.hours \in HoursTokens
      /\ iTokenList.minutes \in MinutesTokens /\ iTokenList.seconds \in SecondsTokens
  BY DEF Lines
<1>2. /\ {iTokenList.year, iTokenList.day, iTokenList.hours, iTokenList.seconds}
           \subseteq {Nothing} \cup Numbers
      /\ {iTokenList.month, iTokenList.minutes} \subseteq {Nothing} \cup Numbers \cup Words
  BY <1>1, TokenAssumption
<1>3. ASSUME NEW token \in {Nothing} \cup Numbers
      PROVE  token.kind \in {"nothing", "number"} /\ token.value \in Nat
  BY <1>3 DEF Nothing, Numbers
<1>4. ASSUME NEW token \in {Nothing} \cup Numbers \cup Words
      PROVE  /\ token.kind \in {"nothing", "number", "word"} /\ token.value \in Nat
             /\ token.kind = "word" => token.value \in 1..UnknownMonth
             /\ token.kind = "number" /\ token.value = 0 => token = Number(0)
  BY <1>4 DEF Nothing, Numbers, Words, Number, UnknownMonth
<1>5. QED
  BY <1>2, <1>3, <1>4 DEF Parts, MonthZero

\* The parts of the current date-time are numbers, and so are those that are meant.
LEMMA WantedInt ==
  ASSUME iTokenList \in Lines, atCall \in [date : Dates, time : Times], NEW part \in Parts
  PROVE  /\ Kept[part] \in Int /\ Wanted(part) \in Int
         /\ Wanted(part) = IF iTokenList[part].kind = "nothing" THEN Kept[part]
                           ELSE IF part = "year" /\ iTokenList[part].value < 100
                           THEN 2000 + iTokenList[part].value
                           ELSE iTokenList[part].value
<1>1. /\ atCall.date.year \in Int /\ atCall.date.month \in Int /\ atCall.date.day \in Int
      /\ atCall.time.total \in Nat
  BY CurrentDateTimeAssumption
<1>2. PICK total \in Nat : total = atCall.time.total
  BY <1>1
<1>3. total \div 3600 \in Int /\ (total % 3600) \div 60 \in Int /\ total % 60 \in Int
  OBVIOUS
<1>4. Kept[part] \in Int
  BY <1>1, <1>2, <1>3 DEF Kept, PartsOf, Parts
<1>5. QED
  BY <1>4, TokenFacts DEF Wanted, Kept

\* The part that is read after another, the date and the time between them.
Follows(part, next) ==
  \/ part = "year" /\ next = "month"
  \/ part = "month" /\ next = "day"
  \/ part = "day" /\ next = "date"
  \/ part = "hours" /\ next = "minutes"
  \/ part = "minutes" /\ next = "seconds"
  \/ part = "seconds" /\ next = "time"

\* Reading a part as it is meant keeps the invariant.
LEMMA SetsKeepsInv ==
  ASSUME PInv, NEW part \in Parts, NEW next, NEW value \in Int,
         pc = part, Follows(part, next), Sets(part, value, next),
         value = Wanted(part) \/ (part = "month" /\ MonthZero),
         part = "month" /\ iTokenList.month.kind = "number" => iTokenList.month.value <= 12,
         part = "minutes" => iTokenList.minutes.kind # "word"
  PROVE  PInv'
<1>1. /\ pc' = next /\ local' = [local EXCEPT ![part] = value]
      /\ UNCHANGED <<iTokenList, ioEventDate, ioEventTime, atCall>>
  BY DEF Sets
<1>2. /\ \A p : Wanted(p)' = Wanted(p) /\ Kept'[p] = Kept[p]
      /\ WantedDate' = WantedDate /\ MonthZero' = MonthZero
  BY <1>1 DEF Wanted, WantedDate, MonthZero, Kept
<1>3. next \in Places \ Ends
  BY DEF Follows, Places, Parts, Ends
<1>4. LocalInv'
  <2>1. local' \in [Parts -> Int]
    BY <1>1 DEF PInv, LocalInv
  <2>2. ASSUME NEW p \in Parts
        PROVE  IF Read(p)' THEN local'[p] = Wanted(p) \/ (p = "month" /\ MonthZero)
                           ELSE local'[p] = Kept[p]
    <3>1. CASE p = part
      <4>1. local'[p] = value /\ Read(p)'
        BY <1>1, <3>1 DEF PInv, LocalInv, Read, Follows
      <4>2. QED
        BY <3>1, <4>1
    <3>2. CASE p # part
      <4>1. local'[p] = local[p]
        BY <1>1, <3>2 DEF PInv, LocalInv
      <4>2. Read(p)' <=> Read(p)
        BY <1>1, <3>2 DEF Read, Follows, Parts
      <4>3. pc \notin Ends
        BY DEF Parts, Ends
      <4>4. IF Read(p) THEN local[p] = Wanted(p) \/ (p = "month" /\ MonthZero)
                       ELSE local[p] = Kept[p]
        BY <4>3 DEF PInv, LocalInv
      <4>5. QED
        BY <4>1, <4>2, <4>4
    <3>3. QED
      BY <3>1, <3>2
  <2>3. QED
    BY <1>1, <1>2, <1>3, <2>1, <2>2 DEF PInv, LocalInv
<1>5. EventInv'
  BY <1>1, <1>2, <1>3 DEF PInv, EventInv, Composed, Follows, Ends
<1>6. ParsesWhatIsMeant' /\ EndsOnlyOnImpossibleDates'
  BY <1>1, <1>3 DEF ParsesWhatIsMeant, EndsOnlyOnImpossibleDates, Ends
<1>7. QED
  BY <1>4, <1>5, <1>6 DEF PInv

\* An end of the parse keeps it if it keeps what it promises.
LEMMA EndKeepsInv ==
  ASSUME PInv, NEW how \in Ends, End(how),
         how = "returned" => (~ MonthZero =>
           /\ IsDate(WantedDate) => /\ ioEventDate = WantedDate /\ ioEventTime = atCall.time
                                    /\ iTokenList.minutes.kind = "word"
           /\ ~ IsDate(WantedDate) => ioEventDate = atCall.date /\ ioEventTime = atCall.time),
         how = "terminated" => \/ MonthZero
                               \/ /\ ~ IsDate(WantedDate)
                                  /\ iTokenList.month.kind = "number" => iTokenList.month.value <= 12
  PROVE  PInv'
<1>1. pc' = how /\ UNCHANGED <<iTokenList, ioEventDate, ioEventTime, local, atCall>>
  BY DEF End
<1>2. /\ WantedDate' = WantedDate /\ MonthZero' = MonthZero
      /\ \A p : Wanted(p)' = Wanted(p)
  BY <1>1 DEF Wanted, WantedDate, MonthZero
<1>3. how \in Places
  BY DEF Places
<1>4. LocalInv'
  BY <1>1, <1>3 DEF PInv, LocalInv
<1>5. EventInv'
  BY <1>1 DEF EventInv, Composed, Ends
<1>6. EndsOnlyOnImpossibleDates'
  BY <1>1, <1>2 DEF EndsOnlyOnImpossibleDates
<1>7. ParsesWhatIsMeant'
  <2> SUFFICES ASSUME how = "returned", ~ MonthZero PROVE ParsesWhatIsMeant'
    BY <1>1, <1>2 DEF ParsesWhatIsMeant
  <2>1. CASE IsDate(WantedDate)
    <3>1. iTokenList \notin [DOMAIN iTokenList -> {Nothing}]
      <4>1. "minutes" \in DOMAIN iTokenList /\ iTokenList["minutes"].kind = "word"
        BY <2>1 DEF PInv, LocalInv, Lines
      <4>2. iTokenList["minutes"] # Nothing
        BY <4>1 DEF Nothing
      <4>3. QED
        BY <4>1, <4>2
    <3>2. QED
      BY <1>1, <1>2, <2>1, <3>1 DEF ParsesWhatIsMeant
  <2>2. CASE ~ IsDate(WantedDate)
    BY <1>1, <1>2, <2>2 DEF ParsesWhatIsMeant
  <2>3. QED
    BY <2>1, <2>2
<1>8. QED
  BY <1>4, <1>5, <1>6, <1>7 DEF PInv

\* Seconds since midnight are their hours, minutes and seconds.
LEMMA PartsOfTime ==
  ASSUME NEW total \in Nat
  PROVE  3600 * (total \div 3600) + 60 * ((total % 3600) \div 60) + (total % 60) = total
<1>1. total % 60 = (total % 3600) % 60
  OBVIOUS
<1>2. 3600 * (total \div 3600) + 60 * ((total % 3600) \div 60) + ((total % 3600) % 60) = total
  OBVIOUS
<1>3. QED
  BY <1>1, <1>2

\* A line with no part is the current date-time, to the second.
LEMMA EmptyLineIsNow ==
  ASSUME iTokenList \in Lines, atCall \in [date : Dates, time : Times],
         iTokenList \in [DOMAIN iTokenList -> {Nothing}]
  PROVE  /\ WantedDate = atCall.date
         /\ Duration(Wanted("hours"), Wanted("minutes"), Wanted("seconds")).total
              = atCall.time.total
<1>1. \A part \in Parts : Wanted(part) = Kept[part]
  <2>1. \A part \in Parts : part \in DOMAIN iTokenList
    BY DEF Lines, Parts
  <2>2. \A part \in Parts : iTokenList[part].kind = "nothing"
    BY <2>1 DEF Nothing
  <2>3. QED
    BY <2>2, WantedInt
<1>2. /\ atCall.date \in [year : Int, month : Int, day : Int] /\ atCall.time.total \in Nat
  BY CurrentDateTimeAssumption
<1>3. WantedDate = atCall.date
  BY <1>1, <1>2 DEF WantedDate, Kept, PartsOf, Parts
<1>4. PICK total \in Nat : total = atCall.time.total
  BY <1>2
<1>5. /\ Wanted("hours") = total \div 3600
      /\ Wanted("minutes") = (total % 3600) \div 60
      /\ Wanted("seconds") = total % 60
  BY <1>1, <1>4 DEF Kept, PartsOf, Parts
<1>6. QED
  BY <1>3, <1>4, <1>5, PartsOfTime DEF Duration

-----------------------------------------------------------------------------
(* The steps of the parse.                                                  *)

\* A number, or nothing, is read as it is meant.
LEMMA NumberIsMeant ==
  ASSUME PInv, NEW part \in Parts, pc = part, iTokenList[part].kind # "word"
  PROVE  /\ iTokenList[part].kind = "nothing" => local[part] = Wanted(part)
         /\ iTokenList[part].kind = "number" =>
              Wanted(part) = IF part = "year" /\ iTokenList[part].value < 100
                             THEN 2000 + iTokenList[part].value ELSE iTokenList[part].value
<1>1. iTokenList \in Lines /\ atCall \in [date : Dates, time : Times]
  BY DEF PInv, LocalInv
<1>2. pc \notin Ends /\ ~ Read(part)
  BY DEF Parts, Ends, Read
<1>3. local[part] = Kept[part]
  BY <1>2 DEF PInv, LocalInv
<1>4. QED
  BY <1>1, <1>3, WantedInt

\* Each part but the month, and the year below 100, is read by ReadsNumber.
LEMMA ReadsNumberKeepsInv ==
  ASSUME PInv, NEW part \in Parts, NEW next, Follows(part, next), ReadsNumber(part, next),
         part # "month", part = "year" /\ iTokenList.year.kind = "number" => iTokenList.year.value >= 100
  PROVE  PInv'
<1> DEFINE token == iTokenList[part]
           value == IF token.kind = "number" THEN token.value ELSE local[part]
<1>1. /\ pc = part /\ token.kind # "word" /\ Sets(part, value, next)
  BY DEF ReadsNumber
<1>2. iTokenList \in Lines /\ atCall \in [date : Dates, time : Times]
  BY DEF PInv, LocalInv
<1>3. token.kind \in {"nothing", "number"} /\ token.value \in Nat
  BY <1>1, <1>2, TokenFacts
<1>4. value = Wanted(part)
  <2>1. part = "year" => (token.kind = "number" => token.value >= 100)
    OBVIOUS
  <2>2. CASE token.kind = "nothing"
    BY <1>1, <2>2, NumberIsMeant
  <2>3. CASE token.kind = "number"
    BY <1>1, <1>3, <2>1, <2>3, NumberIsMeant
  <2>4. QED
    BY <1>3, <2>2, <2>3
<1>5. value \in Int
  BY <1>2, <1>4, WantedInt
<1>6. part = "minutes" => iTokenList.minutes.kind # "word"
  BY <1>1
<1> HIDE DEF value
<1>7. QED
  BY <1>1, <1>4, <1>5, <1>6, SetsKeepsInv

\* The year.
LEMMA ReadsYearKeepsInv ==
  ASSUME PInv, ReadsYear
  PROVE  PInv'
<1>1. "year" \in Parts /\ Follows("year", "month")
  BY DEF Parts, Follows
<1>2. iTokenList.year.value \in Nat
  BY <1>1, TokenFacts DEF PInv, LocalInv
<1>3. CASE iTokenList.year.kind = "number" /\ iTokenList.year.value < 100
  <2>1. pc = "year" /\ Sets("year", iTokenList.year.value + 2000, "month")
    BY <1>3 DEF ReadsYear
  <2>2. iTokenList.year.value + 2000 = Wanted("year")
    BY <1>1, <1>2, <1>3, <2>1, NumberIsMeant
  <2>3. QED
    BY <1>1, <1>2, <2>1, <2>2, SetsKeepsInv
<1>4. CASE ~ (iTokenList.year.kind = "number" /\ iTokenList.year.value < 100)
  BY <1>1, <1>2, <1>4, ReadsNumberKeepsInv DEF ReadsYear
<1>5. QED
  BY <1>3, <1>4

\* The month: a word names itself, a number goes through the array of names.
LEMMA ReadsMonthKeepsInv ==
  ASSUME PInv, ReadsMonth
  PROVE  PInv'
<1> DEFINE month == iTokenList.month
<1>1. "month" \in Parts /\ Follows("month", "day") /\ pc = "month"
  BY DEF Parts, Follows, ReadsMonth
<1>2. iTokenList \in Lines /\ atCall \in [date : Dates, time : Times]
  BY DEF PInv, LocalInv
<1>3. /\ month.value \in Nat
      /\ month.kind = "word" => month.value \in 1..UnknownMonth
      /\ month.kind = "number" /\ month.value = 0 => MonthZero
  BY <1>1, <1>2, TokenFacts
<1>4. Wanted("month") = IF month.kind = "nothing" THEN Kept["month"] ELSE month.value
  BY <1>1, <1>2, WantedInt
<1>5. CASE month.kind = "nothing" /\ Sets("month", local.month, "day")
  <2>1. local["month"] = Wanted("month")
    BY <1>1, <1>5, NumberIsMeant
  <2>2. Wanted("month") \in Int
    BY <1>1, <1>2, WantedInt
  <2>3. QED
    BY <1>1, <1>5, <2>1, <2>2, SetsKeepsInv
<1>6. CASE month.kind = "word" /\ Sets("month", month.value, "day")
  BY <1>1, <1>3, <1>4, <1>6, SetsKeepsInv
<1>7. CASE month.kind = "number" /\ month.value > 12 /\ End("returned")
  <2>1. ~ IsDate(WantedDate)
    BY <1>3, <1>4, <1>7 DEF IsDate, WantedDate
  <2>2. ioEventDate = atCall.date /\ ioEventTime = atCall.time
    BY <1>1 DEF PInv, EventInv, Composed, Ends
  <2>3. "returned" \in Ends
    BY DEF Ends
  <2>4. QED
    BY <1>7, <2>1, <2>2, <2>3, EndKeepsInv
<1>8. CASE month.kind = "number" /\ month.value <= 12 /\ LooksUpName(month.value)
  <2>1. CASE month.value \in 1..12 /\ Sets("month", month.value, "day")
    BY <1>1, <1>3, <1>4, <1>8, <2>1, SetsKeepsInv
  <2>2. CASE month.value \notin 1..12
    <3>1. MonthZero
      BY <1>3, <1>8, <2>2
    <3>2. ASSUME NEW name \in 1..UnknownMonth, Sets("month", name, "day") PROVE PInv'
      BY <1>1, <1>8, <3>1, <3>2, SetsKeepsInv DEF UnknownMonth
    <3>3. CASE End("terminated")
      BY <3>1, <3>3, EndKeepsInv DEF Ends
    <3>4. QED
      BY <1>8, <2>2, <3>2, <3>3 DEF LooksUpName
  <2>3. QED
    BY <1>8, <2>1, <2>2 DEF LooksUpName
<1>9. QED
  BY <1>5, <1>6, <1>7, <1>8 DEF ReadsMonth

\* The date: it is replaced when it is one, and otherwise the parse ends.
LEMMA ComposesDateKeepsInv ==
  ASSUME PInv, ComposesDate
  PROVE  PInv'
<1> DEFINE date == [year |-> local.year, month |-> local.month, day |-> local.day]
<1>1. pc = "date"
  BY DEF ComposesDate
<1>2. pc \notin Ends /\ ~ Composed
  BY <1>1 DEF Ends, Composed
<1>3. ioEventDate = atCall.date /\ ioEventTime = atCall.time
  BY <1>2 DEF PInv, EventInv
<1>4. ~ MonthZero => date = WantedDate
  <2>1. "year" \in Parts /\ "month" \in Parts /\ "day" \in Parts
    BY DEF Parts
  <2>2. Read("year") /\ Read("month") /\ Read("day")
    BY <1>1 DEF Read
  <2>3. ~ MonthZero => /\ local["year"] = Wanted("year") /\ local["month"] = Wanted("month")
                       /\ local["day"] = Wanted("day")
    BY <1>2, <2>1, <2>2 DEF PInv, LocalInv
  <2>4. QED
    BY <2>3 DEF WantedDate
<1>5. iTokenList.month.kind = "number" => iTokenList.month.value <= 12
  BY <1>1 DEF PInv, EventInv, Ends
<1> HIDE DEF date
<1>6. CASE /\ IsDate(date) /\ ioEventDate' = date /\ pc' = "hours"
           /\ UNCHANGED <<iTokenList, ioEventTime, local, atCall>>
  <2>1. /\ WantedDate' = WantedDate /\ MonthZero' = MonthZero
        /\ \A p : Wanted(p)' = Wanted(p) /\ Kept'[p] = Kept[p]
    BY <1>6 DEF Wanted, WantedDate, MonthZero, Kept
  <2>2. \A p \in Parts : Read(p)' <=> Read(p)
    BY <1>1, <1>6 DEF Read, Parts
  <2>3. LocalInv'
    BY <1>2, <1>6, <2>1, <2>2 DEF PInv, LocalInv, Places, Parts
  <2>4. EventInv'
    BY <1>3, <1>4, <1>5, <1>6, <2>1 DEF EventInv, Composed
  <2>5. ParsesWhatIsMeant' /\ EndsOnlyOnImpossibleDates'
    BY <1>6 DEF ParsesWhatIsMeant, EndsOnlyOnImpossibleDates
  <2>6. QED
    BY <2>3, <2>4, <2>5 DEF PInv
<1>7. CASE date.month = UnknownMonth /\ End("returned")
  <2>1. ~ MonthZero => ~ IsDate(WantedDate)
    BY <1>4, <1>7 DEF IsDate, UnknownMonth
  <2>2. "returned" \in Ends
    BY DEF Ends
  <2>3. QED
    BY <1>3, <1>7, <2>1, <2>2, EndKeepsInv
<1>8. CASE ~ IsDate(date) /\ End("terminated")
  BY <1>4, <1>5, <1>8, EndKeepsInv DEF Ends
<1>9. QED
  BY <1>6, <1>7, <1>8 DEF ComposesDate, IsDate, date

\* The minutes can be a word, which ends the parse after the date.
LEMMA ReadsMinutesKeepsInv ==
  ASSUME PInv, ReadsMinutes
  PROVE  PInv'
<1>1. CASE ReadsNumber("minutes", "seconds")
  BY <1>1, ReadsNumberKeepsInv DEF Parts, Follows
<1>2. CASE pc = "minutes" /\ iTokenList.minutes.kind = "word" /\ End("returned")
  <2>1. ~ MonthZero => IsDate(WantedDate) /\ ioEventDate = WantedDate
    BY <1>2 DEF PInv, EventInv, Composed
  <2>2. ioEventTime = atCall.time
    BY <1>2 DEF PInv, EventInv, Ends
  <2>3. "returned" \in Ends
    BY DEF Ends
  <2>4. QED
    BY <1>2, <2>1, <2>2, <2>3, EndKeepsInv
<1>3. QED
  BY <1>1, <1>2 DEF ReadsMinutes

\* The time ends the parse, too.
LEMMA ComposesTimeKeepsInv ==
  ASSUME PInv, ComposesTime
  PROVE  PInv'
<1> DEFINE time == Duration(Wanted("hours"), Wanted("minutes"), Wanted("seconds"))
<1>1. /\ pc = "time" /\ pc' = "returned"
      /\ ioEventTime' = Duration(local.hours, local.minutes, local.seconds)
      /\ UNCHANGED <<iTokenList, ioEventDate, local, atCall>>
  BY DEF ComposesTime
<1>2. ioEventTime' = time
  <2>1. pc \notin Ends /\ Read("hours") /\ Read("minutes") /\ Read("seconds")
    BY <1>1 DEF Ends, Read
  <2>2. /\ local["hours"] = Wanted("hours") /\ local["minutes"] = Wanted("minutes")
        /\ local["seconds"] = Wanted("seconds")
    BY <2>1 DEF PInv, LocalInv, Parts
  <2>3. QED
    BY <1>1, <2>2
<1>3. ~ MonthZero => IsDate(WantedDate) /\ ioEventDate = WantedDate
  BY <1>1 DEF PInv, EventInv, Composed
<1>4. iTokenList.minutes.kind # "word"
  BY <1>1 DEF PInv, EventInv
<1>5. /\ WantedDate' = WantedDate /\ MonthZero' = MonthZero
      /\ \A p : Wanted(p)' = Wanted(p)
  BY <1>1 DEF Wanted, WantedDate, MonthZero
<1>6. iTokenList \in [DOMAIN iTokenList -> {Nothing}] =>
        WantedDate = atCall.date /\ time.total = atCall.time.total
  BY EmptyLineIsNow DEF PInv, LocalInv
<1> HIDE DEF time
<1>7. ParsesWhatIsMeant'
  <2> SUFFICES ASSUME ~ MonthZero PROVE ParsesWhatIsMeant'
    BY <1>5 DEF ParsesWhatIsMeant
  <2>1. /\ ioEventDate' = WantedDate /\ ioEventTime' = time
        /\ iTokenList \in [DOMAIN iTokenList -> {Nothing}] =>
             ioEventDate' = atCall.date /\ ioEventTime'.total = atCall.time.total
    BY <1>1, <1>2, <1>3, <1>6
  <2>2. QED
    BY <1>1, <1>3, <1>4, <1>5, <2>1 DEF ParsesWhatIsMeant, time
<1>8. LocalInv' /\ EventInv'
  BY <1>1 DEF PInv, LocalInv, EventInv, Composed, Ends, Places
<1>9. EndsOnlyOnImpossibleDates'
  BY <1>1 DEF EndsOnlyOnImpossibleDates
<1>10. QED
  BY <1>7, <1>8, <1>9 DEF PInv

-----------------------------------------------------------------------------
\* The invariant holds when parseEventDateTime is called.
LEMMA PInvInit == ParserInit => PInv
<1> SUFFICES ASSUME ParserInit PROVE PInv
  OBVIOUS
<1>1. /\ pc = "year" /\ iTokenList \in Lines /\ ioEventDate \in Dates /\ ioEventTime \in Times
      /\ local = Kept /\ atCall = [date |-> ioEventDate, time |-> ioEventTime]
  BY DEF ParserInit, Kept
<1>2. atCall \in [date : Dates, time : Times]
  BY <1>1
<1>3. local \in [Parts -> Int]
  <2>1. \A part \in Parts : Kept[part] \in Int
    BY <1>1, <1>2, WantedInt
  <2>2. Kept = [part \in Parts |-> Kept[part]]
    BY DEF Kept, PartsOf, Parts
  <2>3. QED
    BY <1>1, <2>1, <2>2
<1>4. \A part \in Parts : ~ Read(part)
  BY <1>1 DEF Read, Parts
<1>5. LocalInv
  BY <1>1, <1>2, <1>3, <1>4 DEF LocalInv, Places, Parts
<1>6. EventInv /\ ParsesWhatIsMeant /\ EndsOnlyOnImpossibleDates
  BY <1>1 DEF EventInv, Composed, ParsesWhatIsMeant, EndsOnlyOnImpossibleDates
<1>7. QED
  BY <1>5, <1>6 DEF PInv

\* And every step of the parse keeps it.
LEMMA PInvStep == PInv /\ [ParserNext]_parserVars => PInv'
<1> SUFFICES ASSUME PInv, [ParserNext]_parserVars PROVE PInv'
  OBVIOUS
<1>1. CASE ReadsDay
  BY <1>1, ReadsNumberKeepsInv DEF ReadsDay, Parts, Follows
<1>2. CASE ReadsHours
  BY <1>2, ReadsNumberKeepsInv DEF ReadsHours, Parts, Follows
<1>3. CASE ReadsSeconds
  BY <1>3, ReadsNumberKeepsInv DEF ReadsSeconds, Parts, Follows
<1>4. CASE UNCHANGED parserVars
  <2>1. UNCHANGED <<pc, iTokenList, ioEventDate, ioEventTime, local, atCall>>
    BY <1>4 DEF parserVars
  <2>2. /\ WantedDate' = WantedDate /\ MonthZero' = MonthZero
        /\ \A p : Wanted(p)' = Wanted(p) /\ Kept'[p] = Kept[p] /\ Read(p)' = Read(p)
    BY <2>1 DEF WantedDate, Wanted, MonthZero, Kept, Read
  <2>3. LocalInv' /\ EventInv'
    BY <2>1, <2>2 DEF PInv, LocalInv, EventInv, Composed
  <2>4. ParsesWhatIsMeant'
    BY <2>1, <2>2 DEF PInv, ParsesWhatIsMeant
  <2>5. EndsOnlyOnImpossibleDates'
    BY <2>1, <2>2 DEF PInv, EndsOnlyOnImpossibleDates
  <2>6. QED
    BY <2>3, <2>4, <2>5 DEF PInv
<1>5. QED
  BY <1>1, <1>2, <1>3, <1>4, ReadsYearKeepsInv, ReadsMonthKeepsInv, ComposesDateKeepsInv,
     ReadsMinutesKeepsInv, ComposesTimeKeepsInv DEF ParserNext, Over

\* Every reachable state of the parse satisfies it (parseEventDateTime of
\* sevmgr.cpp).
THEOREM ParserInvariance == ParserSpec => []PInv
BY PInvInit, PInvStep, PTL DEF ParserSpec

\* Whatever line is typed: the date-time that comes back is the one meant or the
\* current one, part by part (parseEventDateTime).
THEOREM ParsesWhatIsMeantHolds == ParserSpec => []ParsesWhatIsMeant
<1>1. PInv => ParsesWhatIsMeant
  BY DEF PInv
<1>2. QED
  BY <1>1, ParserInvariance, PTL

\* Whatever line is typed: only a date that no calendar has, or the month 0, ends
\* the program (parseEventDateTime, the array of month names and
\* from_simple_string).
THEOREM EndsOnlyOnImpossibleDatesHolds == ParserSpec => []EndsOnlyOnImpossibleDates
<1>1. PInv => EndsOnlyOnImpossibleDates
  BY DEF PInv
<1>2. QED
  BY <1>1, ParserInvariance, PTL
=============================================================================
