\* Three plugins to load in any way; two of them use the services.
CONSTANTS
  a = a  b = b  c = c  k1 = k1  k2 = k2
  Plugins = {a, b, c}
  ChatPlugins = {a, b}
  Owners = {a, b}
  Core = Core
  Keys = {k1, k2}
  Lines = {l1}
  MaxHandlers = 2
  Tasks = {t1}
  Cancellers = {x1}
  Namings <- MCNamings
SPECIFICATION Spec
SYMMETRY PluginSymmetry
INVARIANTS LoadSound CommandsExact HandlersNotBypassed CrashesExact 
