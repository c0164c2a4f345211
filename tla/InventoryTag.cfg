CONSTANTS
  Rounds = 3
  MaxFaults = 2
SPECIFICATION Spec
INVARIANTS ServerBehindAir StoppedIsOffAir AirIsRecent
PROPERTIES AnnouncesAgain
