SPECIFICATION Spec
CONSTANTS
    Devices = {d, e}
    Integrations = {"lutron_caseta", "isy994", "mqtt", "rti", "envisalink", "nest",
                    "ecobee", "weather", "yamaha_avr"}
    MaxFlips = 1
    MaxCalls = 1
    MaxFaults = 2
PROPERTY OneLink
INVARIANT AgreesWhenQuiet
PROPERTY EventuallyAgrees
CHECK_DEADLOCK FALSE
