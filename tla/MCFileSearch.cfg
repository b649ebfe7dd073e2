SPECIFICATION SearchSpec
CHECK_DEADLOCK FALSE
CONSTANTS
  CommandLines <- MCCommandLines
  Stocks <- MCStocks
  Api <- MCApi
  TypeOf <- MCTypeOf
  DbParams <- MCDbParams
  WebParams <- MCWebParams
  IsInt = {"retweet"}
  NumberOf <- MCNumberOf
  DefaultNumber = 4
  Width = 8
  MaxPage = 4
INVARIANTS
  ParsesEveryArgument
  AnswersTheRequest
  PagesNeverRepeat
