\* One caller and a callee with two goroutines, two call ids, a clock ahead.
CONSTANTS
  caller = caller
  callee = callee
  Endpoints = {caller, callee}
  Callers = {caller}
  Slots <- MCSlots
  Calls = {1, 2}
  MaxConcurrent = 1
  MaxRememberedCallIDs = 1
  MaxSignalLifetime = 2
  ClockSkew = 1
  SignalLifetime = 2
  CallDuration = 2
  Offset <- MCOffset
  MaxTime = 3
SPECIFICATION FairSpec
INVARIANT PlacesExact
PROPERTY PlacesFreed
PROPERTY SecondTimeOnlyExpired
