\* One guest books in one browser and comes back through a code in another.
SPECIFICATION GuestAccessSpec
CONSTANTS
  None = None
  NoValue = NoValue
  Browser = {p1, p2}
  Request = {1}
  MaxCodeAttempts = 2
  CodeMinutes = 1
  TokenMinutes = 2
  DevelopmentCode = TRUE
  MaxTokens = 2
  MaxGuestTime = 1
INVARIANTS
  VerifiedGuestsReachTheTicket
