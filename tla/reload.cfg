\* Two reloads and one run of the fault handler, at any time while the controller runs.
CONSTANTS
  base = base  feature = feature  f1 = f1  f2 = f2  r1 = r1  r2 = r2
  Main = Main  NoOne = NoOne  None = None
  Plugins = {base, feature}
  Order <- TwoInOrder
  Names <- TwoInOrder
  Requires <- MCRequires
  Runs = {f1}
  Reloaders = {r1, r2}
  Configs <- AllConfigs
  MaxFailures = 1
  MaxFaults = 1
  FaultsWhen = {"running"}
  SetupMayFail = TRUE
  Tasked = {base}
  Obedient = TRUE
SPECIFICATION Spec
SYMMETRY ReloadSymmetry
INVARIANTS OneInstance
PROPERTIES FollowsConfig
