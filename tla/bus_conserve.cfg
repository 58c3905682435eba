\* Two workers, two lifecycle events and a game event, a queue of one.
CONSTANTS
  s1 = s1  s2 = s2  g1 = g1  g2 = g2
  kState = kState  kName = kName
  h1 = h1  h2 = h2  w1 = w1  w2 = w2
  NoEvent = NoEvent
  Events = {s1, s2, g1}
  Lifecycle = {s1, s2}
  Typed = {s1, s2}
  Keys = {kState, kName}
  ClassOf <- MCClassOf
  NameOf <- MCNameOf
  Handlers = {h1, h2}
  Owned = {h1}
  Workers = {w1, w2}
  Outcomes = {"returns", "fails", "escapes"}
  QueueSize = 1
  Windows = {1}
  MaxSubs = 1
SPECIFICATION Spec
SYMMETRY WorkerSymmetry
INVARIANTS EventsConserved
PROPERTIES  ImplementsChannel
