SPECIFICATION ParserSpec
CONSTANTS
  YearTokens <- MCYearTokens
  MonthTokens <- MCReadableMonths
  DayTokens <- MCDayTokens
  HoursTokens <- MCHoursTokens
  MinutesTokens <- MCMinutesTokens
  SecondsTokens <- MCSecondsTokens
  Dates <- MCDates
  Times <- MCTimes
INVARIANT
  ImpossibleDatesAreKeptOut
