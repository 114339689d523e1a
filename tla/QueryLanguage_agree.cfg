SPECIFICATION Spec
CHECK_DEADLOCK FALSE
CONSTANTS
  Letters = {"cmc", "pow", "usd", "t", "c", "id", "produces", "kw", "otag", "art", "is", "frame", "name", "o", "ft", "a", "s", "cn", "wm", "r", "year", "date", "f", "banned", "devotion", "m", "bolt", "elf", "instant", "lea", "red", "colorless", "ur", "rr", "x", "e", "rare", "u", "vintage", "or", "and", "old", "new", "both", "loop", "knot"}
  Digits = {"1", "2", "3", "1993", "2015"}
  Aliases <- AliasClasses
  ColorNames = {"red", "colorless"}
  ColorLetters = {"r", "c", "u", "ur", "rr"}
  ColorStarts = {"cmc", "c", "cn", "ur", "rr", "r", "red", "rare", "colorless", "bolt", "banned", "u", "usd", "wm"}
  Years = {"1993", "2015"}
  MonthDays = {"1", "2"}
  Expansions <- MCExpansions
  NumberOf <- MCNumberOf
  LettersOf <- MCLettersOf
  Alphabets <- MCAlphabets
  MaxFragments <- MCMaxFragments
  Rows <- MCRows
  Requests <- MCRequests
 
 
PROPERTY RewritingIsSound
 
 
PROPERTY AnswersAgree
