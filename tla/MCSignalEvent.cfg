CONSTANT MaxSignals = 4
SPECIFICATION FairSpec
INVARIANTS LostOnlyMidway TaskForSignal
PROPERTIES SignalLeadsToTask StopLeadsToEnd
