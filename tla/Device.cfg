CONSTANTS
  MaxRetries = 3
  HardwareAnswers = {TRUE, FALSE}
  DisplayAnswers = {TRUE, FALSE}
  Width = 8
  Height = 8
  Square = 3
  Orientations = {"ORIENTATION_0", "ORIENTATION_90"}
SPECIFICATION DeviceSpec
INVARIANTS
  TypeOK
  DeviceTypeOK
  ErrorRemembersOrigin
  InitStatesAreTransient
  HardwareBeforeDisplay
  DisplayReadyOrReset
  RecoveryTerminates
  AwakeUnlessRewired
  ShowsWhatWasDrawn
  SettingsInForce
PROPERTIES
  RecoveryNeverRefused
