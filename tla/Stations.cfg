CONSTANTS
    Wrap = 32
    Base = 4
    Levels = {93, 100}
    MaxAwake = 1
    MaxElapsed = 4
    ClockWrap = 8
    Incoming <- MCIncoming
    MaxWakes = 3
SPECIFICATION PartsSpec
INVARIANTS UptimeIsTime StationsTypeOK SeenIsNewest
PROPERTIES UptimeGrows BatteryIsSaved SeenAgoIsRight
