CONSTANTS
    n1 = n1
    here = here
    there = there
    calm = calm
    angry = angry
    alarm = alarm
    standing = standing
    trust = trust
    oath = oath
    Npcs = {}
    Places = {here, there}
    Minds = {calm, angry}
    Clocks = {}
    ClockMax <- NoClocks
    FirstClock <- NoClocks
    FactionMeters = {standing}
    BondMeters = {trust}
    Goals = {oath}
    Lo <- MeterLo
    Hi <- MeterHi
    FirstMeter <- MeterStart
    Amounts <- Steps
    MaxChanges = 2
    MaxTurns = 2
SPECIFICATION Spec
INVARIANTS
    FactionMetersInRange
CHECK_DEADLOCK FALSE
