SPECIFICATION Spec
CONSTANTS
  root = root
  child = child
  channel = channel
  Endpoints = {root, child}
  Parent <- OneParent
  RcaEnabled = {root}
  Channels = {channel, mail}
  Wanted <- Filters
  RateWindow = 3
  FlapWindow = 1
  FlapLimit = 2
  Ttl = 1
  Keep = 4
  Slots = 2
  Attempts = 2
  Upsets = {"rollback", "lost event", "rca fails", "toggle", "no channels", "no log", "rejected", "error", "timeout",
            "switch on", "switch off", "delete"}
  MaxChanges = 2
  MaxTime = 2
  MaxUpsets = 1
INVARIANTS MutedForACause Spaced LogTellsDeliveries EveryChangeIsLogged
