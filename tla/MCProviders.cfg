CONSTANTS
  Threshold = 2
  MaxBackoff = 2
  MaxSessions = 3
  MaxFaults = 4
  Requests = {r1, r2}
  MaxVersion = 2
  MaxOutages = 1
  Ttl = 2
  Retry = 1
  Cooldown = 1
  a = a
  b = b
  None = None
  Calls = {a, b}
  Ceiling = 2
  RecoveryCooldown = 2
  TTL = 2
  MaxWrites = 2
  MaxDbFaults = 1
SPECIFICATION Spec
CHECK_DEADLOCK FALSE
INVARIANTS
    ReadyIsHonest
    UsersAreServed
    BreakerIsHonest
    StaleOnlyByRace
PROPERTIES
    ProvidersComeBack
    QuietAfterFailure
    OutagesPass
