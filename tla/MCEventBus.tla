----------------------------- MODULE MCEventBus -----------------------------
(***************************************************************************)
(* Instances of EventBus for TLC: s1 and s2 are ControllerStateChanged     *)
(* events, g1 and g2 game callbacks emitted under their GBX name.          *)
(***************************************************************************)
EXTENDS EventBus, TLC

CONSTANTS s1, s2, g1, g2, kState, kName, h1, h2, w1, w2

\* Lifecycle events have a class key; their GBX name has no subscriber and
\* shares the key of the legacy name in the small instances.
MCClassOf == [e \in Typed |-> kState]
MCNameOf == [e \in Events |-> kName]

\* Workers are interchangeable; events and handlers are not (they are
\* told apart by Lifecycle and Owned).
WorkerSymmetry == Permutations(Workers)

=============================================================================
