CONSTANTS
    n1 = n1
    here = here
    there = there
    calm = calm
    angry = angry
    alarm = alarm
    standing = standing
    trust = trust
    oath = oath
    Npcs = {n1}
    Places = {here, there}
    Minds = {calm, angry}
    Clocks = {alarm}
    ClockMax <- AlarmMax
    FirstClock <- AlarmStart
    FactionMeters = {standing}
    BondMeters = {trust}
    Goals = {oath}
    Lo <- MeterLo
    Hi <- MeterHi
    FirstMeter <- MeterStart
    Amounts <- Steps
    MaxChanges = 2
    MaxTurns = 2
SYMMETRY Alike
SPECIFICATION Spec
INVARIANTS
    TypeOK
    ClockInRange
    SingleChangeLandsInRange
PROPERTIES
    NoRevivalInOneTurn
    TheFallenDoNotAct
CHECK_DEADLOCK FALSE
