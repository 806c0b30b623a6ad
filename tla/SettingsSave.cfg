SPECIFICATION Spec
CONSTANTS
    Patches <- SomePatches
    TelemetryEnabled = TRUE
INVARIANT SaveSettled OptionalReportingOff
CHECK_DEADLOCK FALSE
