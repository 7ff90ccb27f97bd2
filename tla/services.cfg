SPECIFICATION Spec
CONSTANTS
  k1 = k1
  k2 = k2
  r1 = r1
  r2 = r2
  q1 = q1
  q2 = q2
  f1 = f1
  Signers = {k1}
  TicketRounds = {r1, r2}
  Requests = {q1, q2}
  MaxTickets = 2
  Rounds = {r1, r2}
  Passes = {q1, q2}
  MaxSubs = 6
  MaxArrays = 5
  Options <- SomeOptions
  MaxTime = 12
  Keys = {k1, k2}
  Addresses = {k1}
  BalanceJobs = {q1, q2}
  Fetches = {f1}
  MaxLamports = 2
  MaxPower = 1
  MaxAccounts = 2
  Contributed <- Paid
  MaxAmount = 2
  RoundTerms <- SomeTerms
INVARIANTS TypeOK  WatchedOnce NeverDeaf AtMostTwoCalls RetryIsLate SettledInTime SumCountsAccounts
PROPERTIES  BalanceNewerUnlessOverlapped
