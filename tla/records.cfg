SPECIFICATION SideBySide
SYMMETRY Alike
CONSTANTS
  Channel = "sms"
  Mode = "live"
  MaxBookings = 1
  RetryLimit = 1
  Batch = 2
  MaxMishaps = 1
  Errors = {400}
  Process = {p1, p2}
  None = None
  p1 = p1
  p2 = p2
  c1 = c1
  r1 = r1
  r2 = r2
  left = left
  right = right
  alice = alice
  bob = bob
  carol = carol
  NoPhone = NoPhone
  Malformed = Malformed
INVARIANTS TypesOK MessagesAreTrue NobodyOverlooked ViewsAreTrue RedirectsHaveCause
PROPERTIES ClaimIsExclusive DisposalIsTrue SeedIsSafe
CHECK_DEADLOCK FALSE
