SPECIFICATION ParserSpec
CONSTANTS
  YearTokens <- MCYearTokens
  MonthTokens <- MCMonthTokens
  DayTokens <- MCDayTokens
  HoursTokens <- MCHoursTokens
  MinutesTokens <- MCMinutesTokens
  SecondsTokens <- MCSecondsTokens
  Dates <- MCDates
  Times <- MCTimes
INVARIANTS
  ParsesWhatIsMeant
  EndsOnlyOnImpossibleDates
