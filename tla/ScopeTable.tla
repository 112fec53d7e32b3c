----------------------------- MODULE ScopeTable -----------------------------
(***************************************************************************)
(* What LsdaParser::build_scopes promises, seen from its callers: once the *)
(* call sites and the actions are there, one call site after another gets  *)
(* its scope, whole, with the handlers of its action chain in chain order. *)
(* A call site whose chain comes back on itself gets none, ever, and       *)
(* neither do those behind it.                                             *)
(***************************************************************************)
EXTENDS Integers, Sequences, FiniteSets

CONSTANT WordSize

VARIABLES ready,       \* the tables are parsed and the links are resolved
          call_sites, actions, scopes,
          site         \* the next call site to be given a scope

vars == <<ready, call_sites, actions, scopes, site>>

Init ==
  /\ ready = FALSE
  /\ scopes = <<>>
  /\ site = 1

\* Somebody fills the tables, in any way, and at some point they are ready.
Fill ==
  /\ ~ready
  /\ ready' \in BOOLEAN
  /\ UNCHANGED <<scopes, site>>

-----------------------------------------------------------------------------
At(offset) == {k \in DOMAIN actions : actions[k].entry_offset = offset}

First(cs) ==
  IF cs.action <= 0 \/ At(cs.action - 1) = {}
  THEN 0
  ELSE CHOOSE k \in At(cs.action - 1) : \A n \in At(cs.action - 1) : k <= n

\* The action reached from k after n links, 0 when the chain ended before.
\* An action chain that does not come back on itself has at most as many
\* links as there are actions.
Chain(k) ==
  LET reach[n \in 0 .. Len(actions)] ==
        IF n = 0 THEN k
        ELSE IF reach[n - 1] = 0 THEN 0
        ELSE actions[reach[n - 1]].next_index + 1
  IN  reach

Ends(k)   == Chain(k)[Len(actions)] = 0
Length(k) == Cardinality({n \in 0 .. Len(actions) : Chain(k)[n] # 0})

Clauses(k) ==
  IF k = 0 THEN <<0>>
           ELSE [n \in 1 .. Length(k) |-> actions[Chain(k)[n - 1]].type]

Handler(type, pad) ==
  [type |-> CASE type = 0 -> "Cleanup" [] type > 0 -> "Catch" [] type < 0 -> "Filter",
   type_index |-> type, landing_pad |-> pad]

ScopeFor(cs) ==
  LET clauses == Clauses(First(cs))
  IN  [start    |-> cs.start,
       end      |-> (cs.start + cs.length) % WordSize,
       handlers |-> [n \in 1 .. Len(clauses) |-> Handler(clauses[n], cs.landing_pad)]]

-----------------------------------------------------------------------------
Build ==
  /\ ready
  /\ site <= Len(call_sites)
  /\ LET cs == call_sites[site]
     IN  \/ /\ cs.landing_pad = 0
            /\ UNCHANGED scopes
         \/ /\ cs.landing_pad # 0
            /\ Ends(First(cs))
            /\ scopes' = Append(scopes, ScopeFor(cs))
  /\ site' = site + 1
  /\ UNCHANGED <<ready, call_sites, actions>>

Next == Fill \/ Build

Spec == Init /\ [][Next]_vars
=============================================================================
