CONSTANTS
  phone1 = phone1
  drunk = drunk
  chef = chef
  Phone <- OnePhone
  Token <- TwoTokens
  Role <- InPlay
  NoToken = NoToken
  Subs <- DrunkSubs
  Nothing = Nothing
  MaxWrites = 3
  MaxCuts = 1
SPECIFICATION LiveSpec
INVARIANT TypeOK NoLostTick
PROPERTY Converges
CHECK_DEADLOCK FALSE
