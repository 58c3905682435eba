----------------------------- MODULE ChatRouter -----------------------------
(***************************************************************************)
(* trackhelm.chat: the table of chat commands, the route handlers of the   *)
(* plugins, and the lines of chat on their way through them.  Each line is *)
(* routed by a coroutine of its own, which is suspended while a handler or *)
(* the forwarding request runs; plugins come and go meanwhile.             *)
(*                                                                         *)
(* An operator whose name starts with Bug is the definition below it with  *)
(* a plausible mistake; no other definition uses it.                       *)
(***************************************************************************)
EXTENDS Naturals, Sequences, FiniteSets, SequencesExt

CONSTANTS ChatPlugins,  \* owners of commands and handlers
          Keys,         \* normalised names of commands
          Lines,        \* bound: the lines of chat on their way at once
          MaxHandlers   \* bound: route handlers registered at once

VARIABLES commands,     \* ChatRouter._commands: keys to registrations
          registrations,    \* _registrations, of which no two are equal: a set
          handlers,     \* _route_handlers, as the sequence of their owners
          lpc,          \* [Lines -> where its coroutine is]
          walk,         \* [Lines -> handlers left, the current one first]
          live,         \* lines that walk the list that is _route_handlers now
          due,          \* [Lines -> _route_handlers when the line arrived]
          seen,         \* [Lines -> the handlers called for it]
          cancelled,    \* lines whose route was cancelled
          edited,       \* lines whose route.text was changed
          sent,         \* [Lines -> the text that was forwarded, or "none"]
          published     \* [Lines -> the text of its event on the bus, or "none"]

tableVars == <<commands, registrations, handlers>>
lineVars == <<lpc, walk, live, due, seen, cancelled, edited, sent, published>>
chatVars == <<commands, registrations, handlers, lpc, walk, live, due, seen,
              cancelled, edited, sent, published>>

Registration(p, names) == [plugin |-> p, names |-> names]
KeysOf(r) == Range(r.names)
Text(l) == IF l \in edited THEN "edited" ELSE "original"

ChatInit == /\ commands = <<>> /\ registrations = {} /\ handlers = <<>>
            /\ lpc = [l \in Lines |-> "none"]
            /\ walk = [l \in Lines |-> <<>>] /\ live = {}
            /\ due = [l \in Lines |-> <<>>] /\ seen = [l \in Lines |-> <<>>]
            /\ cancelled = {} /\ edited = {}
            /\ sent = [l \in Lines |-> "none"]
            /\ published = [l \in Lines |-> "none"]

-----------------------------------------------------------------------------
(* Registrations.                                                            *)

\* register_command refuses names that are given twice or taken.
MayRegister(names) == IsInjective(names) /\ Range(names) \cap DOMAIN commands = {}

\* The name comes first in `names`, the aliases after it.
RegisterCommand(p, names) ==
  /\ MayRegister(names)
  /\ LET r == Registration(p, names)
     IN /\ registrations' = registrations \cup {r}
        /\ commands' = [k \in DOMAIN commands \cup KeysOf(r) |->
                          IF k \in KeysOf(r) THEN r ELSE commands[k]]
  /\ UNCHANGED <<handlers, lineVars>>

\* The list grows in place: lines that walk it will meet the new handler.
RegisterHandler(p) == /\ Len(handlers) < MaxHandlers
                      /\ handlers' = Append(handlers, p)
                      /\ walk' = [l \in Lines |-> IF l \in live THEN Append(walk[l], p) ELSE walk[l]]
                      /\ UNCHANGED <<commands, registrations, lpc, live, due, seen,
                                     cancelled, edited, sent, published>>

BugWithout(p, s) == {s}                 \* handlers stay
\* What remains of a list without the handlers of p, in its order.
Without(p, s) ==
  LET kept == {i \in DOMAIN s : s[i] # p}
      Increasing == {at \in [1..Cardinality(kept) -> kept] :
                       \A i, j \in DOMAIN at : i < j => at[i] < at[j]}
  IN  {[i \in DOMAIN at |-> s[at[i]]] : at \in Increasing}

\* The keys that unregister_plugin removes; with the mistake, names only.
BugKeysFreed(p) == {r.names[1] : r \in {q \in registrations : q.plugin = p}}
KeysFreed(p) == {k \in DOMAIN commands :
                   \E r \in registrations : r.plugin = p /\ k \in KeysOf(r) /\ commands[k] = r}

\* Handlers are removed from the list in place: a line that walks it skips as
\* many handlers as lay before its own.
BugNewList(p) ==
  /\ walk' = [l \in Lines |->
                IF l \notin live \/ walk[l] = <<>> THEN walk[l]
                ELSE LET before == Len(SelectSeq(seen[l], LAMBDA o : o = p))
                         left == <<Head(walk[l])>> \o SelectSeq(Tail(walk[l]), LAMBDA o : o # p)
                     IN <<Head(left)>> \o SubSeq(Tail(left), before + 1, Len(Tail(left)))]
  /\ UNCHANGED live

\* The lists are new ones: lines on their way go on walking the old list.
NewList(p) == live' = {} /\ UNCHANGED walk

UnregisterPlugin(p) ==
  /\ commands' = [k \in DOMAIN commands \ KeysFreed(p) |-> commands[k]]
  /\ registrations' = {r \in registrations : r.plugin # p}
  /\ handlers' \in Without(p, handlers)
  /\ NewList(p)
  /\ UNCHANGED <<lpc, due, seen, cancelled, edited, sent, published>>

-----------------------------------------------------------------------------
(* Lines.                                                                    *)

\* The coroutine of l ends, and its route with it.
Over(l) == /\ lpc' = [lpc EXCEPT ![l] = "over"]
           /\ live' = live \ {l}
           /\ walk' = [walk EXCEPT ![l] = <<>>]
           /\ due' = [due EXCEPT ![l] = <<>>]
           /\ seen' = [seen EXCEPT ![l] = <<>>]
           /\ cancelled' = cancelled \ {l}
           /\ edited' = edited \ {l}

\* The head of the loop and what follows it: the route is over when it was
\* cancelled, else the next handler is called, else the text is forwarded.
GoesOn(l, left) ==
  \/ /\ l \in cancelled
     /\ Over(l) /\ UNCHANGED sent
  \/ /\ l \notin cancelled /\ left # <<>>
     /\ lpc' = [lpc EXCEPT ![l] = "handling"]
     /\ walk' = [walk EXCEPT ![l] = left]
     /\ seen' = [seen EXCEPT ![l] = Append(@, Head(left))]
     /\ UNCHANGED <<live, due, cancelled, edited, sent>>
  \/ /\ l \notin cancelled /\ left = <<>>
     /\ lpc' = [lpc EXCEPT ![l] = "forwarding"]
     /\ walk' = [walk EXCEPT ![l] = <<>>]
     /\ sent' = [sent EXCEPT ![l] = Text(l)]
     /\ live' = live \ {l}
     /\ UNCHANGED <<due, seen, cancelled, edited>>

\* A line that begins with a slash is only an event.
Commands(l) == /\ lpc[l] = "none"
               /\ lpc' = [lpc EXCEPT ![l] = "over"]
               /\ published' = [published EXCEPT ![l] = "command"]
               /\ UNCHANGED <<tableVars, walk, live, due, seen, cancelled, edited, sent>>

\* Any other line is routed: the first handler is called, or it is forwarded.
Arrives(l) ==
  /\ lpc[l] = "none"
  /\ due' = [due EXCEPT ![l] = handlers]
  /\ walk' = [walk EXCEPT ![l] = handlers]
  /\ IF handlers = <<>>
     THEN /\ lpc' = [lpc EXCEPT ![l] = "forwarding"]
          /\ sent' = [sent EXCEPT ![l] = Text(l)]
          /\ UNCHANGED <<live, seen>>
     ELSE /\ lpc' = [lpc EXCEPT ![l] = "handling"]
          /\ live' = live \cup {l}
          /\ seen' = [seen EXCEPT ![l] = <<Head(handlers)>>]
          /\ UNCHANGED sent
  /\ UNCHANGED <<tableVars, cancelled, edited, published>>

\* The handler that runs changes route.text, or calls route.cancel().
Edits(l) == /\ lpc[l] = "handling"
            /\ edited' = edited \cup {l}
            /\ UNCHANGED <<tableVars, lpc, walk, live, due, seen, cancelled, sent, published>>
Cancels(l) == /\ lpc[l] = "handling"
              /\ cancelled' = cancelled \cup {l}
              /\ UNCHANGED <<tableVars, lpc, walk, live, due, seen, edited, sent, published>>

\* It returns, raises, or runs into handler_timeout: the route goes on.
HandlerEnds(l) == /\ lpc[l] = "handling"
                  /\ GoesOn(l, Tail(walk[l]))
                  /\ UNCHANGED <<tableVars, published>>

\* The request returns, whatever the server said, and the line is published;
\* or it raises, and the line is not.
Forwarded(l) == /\ lpc[l] = "forwarding"
                /\ \/ published' = [published EXCEPT ![l] = Text(l)]
                   \/ UNCHANGED published
                /\ Over(l)
                /\ UNCHANGED <<tableVars, sent>>

\* GbxClient.shutdown() cancels the coroutine of the line.
Killed(l) == /\ lpc[l] \in {"handling", "forwarding"}
             /\ Over(l)
             /\ UNCHANGED <<tableVars, sent, published>>

\* Its place is free for another line.
Leaves(l) == /\ lpc[l] = "over"
             /\ lpc' = [lpc EXCEPT ![l] = "none"]
             /\ sent' = [sent EXCEPT ![l] = "none"]
             /\ published' = [published EXCEPT ![l] = "none"]
             /\ UNCHANGED <<tableVars, walk, live, due, seen, cancelled, edited>>

-----------------------------------------------------------------------------
ChatTypeOK ==
  /\ registrations \subseteq [plugin : ChatPlugins, names : Seq(Keys)]
  /\ DOMAIN commands \subseteq Keys
  /\ handlers \in Seq(ChatPlugins)
  /\ lpc \in [Lines -> {"none", "handling", "forwarding", "over"}]
  /\ \A l \in Lines : /\ {walk[l], due[l], seen[l]} \subseteq Seq(ChatPlugins)
                      /\ lpc[l] = "handling" => walk[l] # <<>>
                      /\ l \in live => lpc[l] = "handling"
  /\ cancelled \subseteq Lines /\ edited \subseteq Lines
  /\ sent \in [Lines -> {"none", "original", "edited"}]
  /\ published \in [Lines -> {"none", "original", "edited", "command"}]

(* The table of commands is what the registrations say, no more and no less, *)
(* and no two registrations share a name or an alias, whatever plugins come, *)
(* go and fail to register.                                                  *)
CommandsExact ==
  /\ DOMAIN commands = UNION {KeysOf(r) : r \in registrations}
  /\ \A k \in DOMAIN commands : commands[k] \in registrations /\ k \in KeysOf(commands[k])
  /\ \A r, s \in registrations : KeysOf(r) \cap KeysOf(s) # {} => r = s

(* No handler is bypassed: a line reaches public chat only after every       *)
(* handler registered when it arrived has been called for it, in order, also *)
(* when plugins were unregistered meanwhile, and if none of them cancelled   *)
(* it; what is published afterwards is the text that was forwarded.          *)
HandlersNotBypassed ==
  \A l \in Lines :
    /\ lpc[l] = "forwarding" => IsPrefix(due[l], seen[l]) /\ l \notin cancelled
    /\ published[l] \notin {"none", "command"} => published[l] = sent[l]

=============================================================================
