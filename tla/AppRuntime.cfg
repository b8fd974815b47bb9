SPECIFICATION AppSpec
INVARIANTS AppTypeOK NothingLeftOpen AtMostOneUpdateWhileLow
PROPERTIES LedFollowsBattery ShutdownEnds
