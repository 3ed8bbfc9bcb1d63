--------------------------- MODULE MCDateTimeParser ---------------------------
(***************************************************************************)
(* The tokens on either side of every test that the parser makes, and a    *)
(* current date that no other month or year need have.                     *)
(***************************************************************************)
EXTENDS DateTimeParser

MCYearTokens == {Nothing, Number(99), Number(100), Number(2012)}
MCMonthTokens == {Nothing, Number(0), Number(2), Number(12), Number(13), Word(2), Word(UnknownMonth)}
MCReadableMonths == {Nothing, Number(2), Word(UnknownMonth)}
MCDayTokens == {Nothing, Number(0), Number(28), Number(29), Number(32)}
MCHoursTokens == {Nothing, Number(25)}
MCMinutesTokens == {Nothing, Number(70), Word(5)}
MCSecondsTokens == {Nothing, Number(99)}

MCDates == {[year |-> 2011, month |-> 1, day |-> 31]}
MCTimes == {[total |-> 37230, fraction |-> TRUE]}
=============================================================================
