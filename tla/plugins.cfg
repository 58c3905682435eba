\* Two plugins, two overlapping runs of the fault handler, faults in every phase but setup().
CONSTANTS
  base = base  feature = feature  f1 = f1  f2 = f2  r1 = r1  r2 = r2
  Main = Main  NoOne = NoOne  None = None
  Plugins = {base, feature}
  Order <- TwoInOrder
  Names <- TwoInOrder
  Requires <- MCRequires
  Runs = {f1, f2}
  Reloaders = {}
  Configs <- OneConfig
  MaxFailures = 2
  MaxFaults = 3
  FaultsWhen = {"running", "in_rollback", "stopping", "in_cancel", "in_unload", "closing"}
  SetupMayFail = TRUE
  Tasked = {base, feature}
  Obedient = TRUE
SPECIFICATION FairSpec
INVARIANTS OnlyFaultyDisabled RegistryAgrees DisabledIsUndone 
PROPERTIES DependentsTornFirst   StopReturns
