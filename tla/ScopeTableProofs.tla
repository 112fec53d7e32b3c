-------------------------- MODULE ScopeTableProofs ---------------------------
(***************************************************************************)
(* build_scopes implements ScopeTable for every byte vector, every word    *)
(* size and every shape of the action chains, those that come back on      *)
(* themselves included.                                                    *)
(***************************************************************************)
EXTENDS LsdaParserProofs

\* The record behind record k of the action table, counted from 1; 0 for none.
LinkOf(k) == IF k = 0 THEN 0 ELSE actions[k].next_index + 1

Chain(k) == ScopeTable!Chain(k)

LEMMA ActionsLength ==
  ASSUME TypeOK
  PROVE  Len(actions) \in Nat /\ DOMAIN actions = 1 .. Len(actions)
<1>1. actions \in Seq(Action)
  BY DEF TypeOK
<1>. QED BY <1>1

\* Links lead to records of the table.
LEMMA LinkType ==
  ASSUME TypeOK, NEW k \in 0 .. Len(actions)
  PROVE  LinkOf(k) \in 0 .. Len(actions)
<1>1. CASE k = 0
  BY <1>1, ActionsLength DEF LinkOf
<1>2. CASE k # 0
  <2>1. k \in DOMAIN actions
    BY <1>2, ActionsLength
  <2>2. actions[k].next_index \in -1 .. Len(actions) - 1
    BY <2>1 DEF TypeOK
  <2>. QED BY <1>2, <2>2, ActionsLength DEF LinkOf
<1>. QED BY <1>1, <1>2

\* The recursion of a chain has a solution: what Chain(k) is.
LEMMA ChainSteps ==
  ASSUME TypeOK, NEW k \in 0 .. Len(actions)
  PROVE  /\ Chain(k) \in [0 .. Len(actions) -> 0 .. Len(actions)]
         /\ Chain(k)[0] = k
         /\ \A n \in 1 .. Len(actions) : Chain(k)[n] = LinkOf(Chain(k)[n - 1])
<1> DEFINE N == Len(actions)
           T == 0 .. N
           step == [p \in T \X (1 .. N) |-> LinkOf(p[1])]
           Next0(f, n) == IF n = 0 THEN k
                          ELSE IF f[n - 1] = 0 THEN 0
                          ELSE actions[f[n - 1]].next_index + 1
           reach == CHOOSE f : f = [n \in 0 .. N |-> Next0(f, n)]
<1>1. N \in Nat
  BY ActionsLength
<1>2. step \in [T \X (1 .. N) -> T]
  BY LinkType
<1>3. HasIterates(N, T, k, step)
  <2> HIDE DEF T, step, N
  <2>1. k \in T
    BY DEF T, N
  <2>. QED BY <1>1, <1>2, <2>1, Recursion
<1>4. PICK f \in [0 .. N -> T] : Iterates(f, N, k, step)
  BY <1>3 DEF HasIterates
<1>5. f = [n \in 0 .. N |-> Next0(f, n)]
  <2>1. ASSUME NEW n \in 0 .. N PROVE f[n] = Next0(f, n)
    <3>1. CASE n = 0
      BY <1>4, <3>1 DEF Iterates
    <3>2. CASE n # 0
      <4>1. n \in 1 .. N /\ n - 1 \in 0 .. N /\ f[n - 1] \in T
        BY <1>1, <3>2
      <4>2. f[n] = step[<<f[n - 1], n>>]
        BY <1>4, <4>1 DEF Iterates
      <4>3. step[<<f[n - 1], n>>] = LinkOf(f[n - 1])
        BY <4>1
      <4>. QED BY <3>2, <4>2, <4>3 DEF LinkOf
    <3>. QED BY <3>1, <3>2
  <2>. QED BY <1>4, <2>1
<1>6. reach = [n \in 0 .. N |-> Next0(reach, n)]
  BY <1>5
<1>7. Chain(k) = reach
  BY DEF Chain, ScopeTable!Chain
<1> HIDE DEF reach
<1>8. /\ reach[0] = k
      /\ \A n \in 1 .. N : reach[n] = LinkOf(reach[n - 1])
  <2>1. reach[0] = k
    BY <1>1, <1>6
  <2>2. ASSUME NEW n \in 1 .. N PROVE reach[n] = LinkOf(reach[n - 1])
    <3>1. n \in 0 .. N /\ n # 0
      BY <1>1
    <3>2. reach[n] = Next0(reach, n)
      BY <1>6, <3>1
    <3>. QED BY <3>1, <3>2 DEF LinkOf
  <2>. QED BY <2>1, <2>2
<1>9. reach \in [0 .. N -> T]
  <2> DEFINE S == {n \in 0 .. N : reach[n] \in T}
  <2>1. 0 \in S
    BY <1>1, <1>8
  <2>2. ASSUME NEW n \in 0 .. N - 1, n \in S PROVE n + 1 \in S
    <3>1. n + 1 \in 1 .. N /\ n + 1 \in 0 .. N /\ (n + 1) - 1 = n
      BY <1>1
    <3>2. reach[n + 1] = LinkOf(reach[n])
      BY <1>8, <3>1
    <3>. QED BY <2>2, <3>1, <3>2, LinkType
  <2>3. 0 .. N \subseteq S
    <3> HIDE DEF S
    <3>. QED BY <1>1, <2>1, <2>2, Induction
  <2>. QED BY <1>6, <2>3
<1>. QED BY <1>7, <1>8, <1>9

\* A chain that has ended stays ended.
LEMMA ChainStaysEnded ==
  ASSUME TypeOK, NEW k \in 0 .. Len(actions), NEW n \in 0 .. Len(actions),
         Chain(k)[n] = 0, NEW m \in n .. Len(actions)
  PROVE  Chain(k)[m] = 0
<1> DEFINE N == Len(actions)
           c == Chain(k)
           S == {d \in 0 .. N - n : c[n + d] = 0}
<1>1. N \in Nat /\ \A j \in 1 .. N : c[j] = LinkOf(c[j - 1])
  BY ActionsLength, ChainSteps
<1>2. 0 \in S
  BY <1>1
<1>3. ASSUME NEW d \in 0 .. (N - n) - 1, d \in S PROVE d + 1 \in S
  <2> DEFINE j == n + (d + 1)
  <2>1. j \in 1 .. N /\ j - 1 = n + d /\ d + 1 \in 0 .. N - n
    BY <1>1
  <2> HIDE DEF j
  <2>2. c[j] = LinkOf(c[n + d])
    BY <1>1, <2>1
  <2>3. c[j] = 0
    BY <1>3, <2>2 DEF LinkOf
  <2>. QED BY <2>1, <2>3 DEF j
<1>4. N - n \in Nat /\ m - n \in 0 .. N - n /\ n + (m - n) = m
  BY <1>1
<1>5. 0 .. N - n \subseteq S
  <2> HIDE DEF S, N
  <2>. QED BY <1>2, <1>3, <1>4, Induction
<1>6. c[n + (m - n)] = 0
  BY <1>4, <1>5
<1>. QED BY <1>4, <1>6

\* A chain that has not ended after as many links as there are records comes
\* back on itself: its links never lead out of it.
LEMMA ChainComesBack ==
  ASSUME TypeOK, NEW k \in 0 .. Len(actions), Chain(k)[Len(actions)] # 0,
         NEW n \in 0 .. Len(actions)
  PROVE  /\ Chain(k)[n] # 0
         /\ \E m \in 0 .. Len(actions) : LinkOf(Chain(k)[n]) = Chain(k)[m]
<1> DEFINE N == Len(actions)
           c == Chain(k)
<1>1. /\ N \in Nat
      /\ c \in [0 .. N -> 0 .. N]
      /\ \A j \in 1 .. N : c[j] = LinkOf(c[j - 1])
  BY ActionsLength, ChainSteps
<1>2. ASSUME NEW j \in 0 .. N PROVE c[j] # 0
  <2>1. N \in j .. N
    BY <1>1
  <2>. QED BY <2>1, ChainStaysEnded
<1> HIDE DEF N, c
<1>3. CASE n < N
  <2>1. n + 1 \in 1 .. N /\ n + 1 \in 0 .. N /\ (n + 1) - 1 = n
    BY <1>1, <1>3 DEF N
  <2>2. c[n + 1] = LinkOf(c[n])
    BY <1>1, <2>1
  <2>. QED BY <1>2, <2>1, <2>2 DEF N, c
<1>4. CASE ~(n < N)
  <2>1. n = N
    BY <1>1, <1>4 DEF N
  <2>2. c \in [0 .. N -> 1 .. N]
    BY <1>1, <1>2
  <2>3. PICK x \in 0 .. N, y \in 0 .. N : x # y /\ c[x] = c[y]
    <3>1. /\ IsFiniteSet(0 .. N) /\ Cardinality(0 .. N) = N + 1
          /\ IsFiniteSet(1 .. N) /\ Cardinality(1 .. N) = N
      BY <1>1, FS_Interval
    <3>2. Cardinality(1 .. N) < Cardinality(0 .. N)
      BY <1>1, <3>1
    <3>. QED BY <2>2, <3>1, <3>2, FS_PigeonHole
  <2>4. PICK a \in 0 .. N, b \in 0 .. N : a < b /\ c[a] = c[b]
    <3>1. x < y \/ y < x
      BY <2>3
    <3>. QED BY <2>3, <3>1
  <2> DEFINE S == {d \in 0 .. N - b : c[b + d] = c[a + d]}
  <2>5. 0 \in S
    BY <1>1, <2>4
  <2>6. ASSUME NEW d \in 0 .. (N - b) - 1, d \in S PROVE d + 1 \in S
    <3>1. /\ b + (d + 1) \in 1 .. N /\ (b + (d + 1)) - 1 = b + d
          /\ a + (d + 1) \in 1 .. N /\ (a + (d + 1)) - 1 = a + d
          /\ d + 1 \in 0 .. N - b
      BY <1>1, <2>4
    <3>2. c[b + (d + 1)] = LinkOf(c[b + d]) /\ c[a + (d + 1)] = LinkOf(c[a + d])
      BY <1>1, <3>1
    <3>. QED BY <2>6, <3>1, <3>2
  <2>7. N - b \in Nat /\ N - b \in 0 .. N - b /\ b + (N - b) = N
    BY <1>1
  <2>8. 0 .. N - b \subseteq S
    <3> HIDE DEF S
    <3>. QED BY <2>5, <2>6, <2>7, Induction
  <2>9. c[N] = c[a + (N - b)]
    BY <2>7, <2>8
  <2> DEFINE m == a + (N - b) + 1
  <2>10. m \in 1 .. N /\ m \in 0 .. N /\ m - 1 = a + (N - b)
    BY <1>1, <2>4
  <2>11. c[m] = LinkOf(c[N])
    <3> HIDE DEF m
    <3>. QED BY <1>1, <2>9, <2>10
  <2> HIDE DEF m
  <2>. QED BY <1>2, <2>1, <2>10, <2>11 DEF N, c
<1>. QED BY <1>3, <1>4

\* A chain whose first n places hold records, and no other, has n records.
LEMMA ChainLength ==
  ASSUME TypeOK, NEW k \in 0 .. Len(actions), NEW n \in 0 .. Len(actions),
         Chain(k)[n] = 0, \A m \in 0 .. n - 1 : Chain(k)[m] # 0
  PROVE  ScopeTable!Ends(k) /\ ScopeTable!Length(k) = n
<1> DEFINE N == Len(actions)
<1>1. N \in Nat
  BY ActionsLength
<1>2. Chain(k)[N] = 0
  BY <1>1, N \in n .. N, ChainStaysEnded
<1>3. {m \in 0 .. N : Chain(k)[m] # 0} = 0 .. n - 1
  <2>1. ASSUME NEW m \in 0 .. N, Chain(k)[m] # 0 PROVE m \in 0 .. n - 1
    <3>1. m \notin n .. N
      BY <2>1, ChainStaysEnded
    <3>. QED BY <1>1, <3>1
  <2>2. \A m \in 0 .. n - 1 : m \in 0 .. N
    BY <1>1
  <2>. QED BY <2>1, <2>2
<1>4. Cardinality(0 .. n - 1) = n
  BY FS_Interval
<1>5. ScopeTable!Length(k) = Cardinality({m \in 0 .. N : Chain(k)[m] # 0})
  BY DEF Chain, ScopeTable!Length, Cardinality, ScopeTable!Cardinality
<1>6. ScopeTable!Length(k) = n
  BY <1>3, <1>4, <1>5
<1>. QED BY <1>2, <1>6 DEF Chain, ScopeTable!Ends

\* There are no more records than bytes: every record is at least one byte.
LEMMA RecordsFit ==
  ASSUME TypeOK, ActionsTile, pc \in {"action", "type", "scope", "chain", "done"}
  PROVE  Len(actions) <= Len(data)
<1> DEFINE N == Len(actions)
<1>1. /\ N \in Nat /\ DOMAIN actions = 1 .. N /\ Len(data) \in Nat
      /\ \A k \in DOMAIN actions : actions[k].entry_offset \in Int
  BY ActionsLength, ActionFields DEF TypeOK
<1>2. CASE N = 0
  BY <1>1, <1>2
<1>3. CASE N # 0
  <2>1. 1 \in 1 .. N /\ N \in 1 .. N /\ actions # <<>>
    BY <1>1, <1>3
  <2>2. /\ actions[1].entry_offset = 0
        /\ \A k, n \in DOMAIN actions :
             k < n => actions[k].entry_offset < actions[n].entry_offset
        /\ actions[N].entry_offset < EndOf(N)
    BY <1>1, <2>1 DEF ActionsTile
  <2> DEFINE S == {d \in 0 .. N - 1 : actions[d + 1].entry_offset >= d}
  <2>3. 0 \in S
    BY <1>1, <1>3, <2>2
  <2>4. ASSUME NEW d \in 0 .. (N - 1) - 1, d \in S PROVE d + 1 \in S
    <3>1. d + 1 \in 1 .. N /\ (d + 1) + 1 \in 1 .. N /\ d + 1 < (d + 1) + 1
          /\ d + 1 \in 0 .. N - 1
      BY <1>1
    <3>2. actions[d + 1].entry_offset < actions[(d + 1) + 1].entry_offset
      BY <1>1, <2>2, <3>1
    <3>3. /\ actions[d + 1].entry_offset \in Int
          /\ actions[(d + 1) + 1].entry_offset \in Int
      BY <1>1, <3>1
    <3>4. actions[d + 1].entry_offset >= d
      BY <2>4
    <3>. QED BY <3>1, <3>2, <3>3, <3>4
  <2>5. N - 1 \in Nat /\ N - 1 \in 0 .. N - 1 /\ (N - 1) + 1 = N
    BY <1>1, <1>3
  <2>6. 0 .. N - 1 \subseteq S
    <3> HIDE DEF S, N
    <3>. QED BY <2>3, <2>4, <2>5, Induction
  <2>7. actions[N].entry_offset >= N - 1
    BY <2>5, <2>6
  <2>8. EndOf(N) <= Len(data) /\ EndOf(N) \in Int
    <3>1. /\ ActionsLimit \in 0 .. Len(data) /\ index \in 0 .. Len(data)
          /\ actions_start \in 0 .. Len(data)
      BY LimitType DEF TypeOK
    <3>. QED BY <1>1, <3>1 DEF EndOf, ActionsEnd
  <2>. QED BY <1>1, <2>1, <2>2, <2>7, <2>8
<1>. QED BY <1>2, <1>3

-----------------------------------------------------------------------------
(* The loop over an action chain.                                          *)

\* The chain of the call site build_scopes is at.
SiteFirst == FirstAction(call_sites[site]) + 1
SiteChain == Chain(SiteFirst)

\* build_scopes walks that chain: its handlers are those of the records it has
\* passed, in order.  Once it has come round it may have stopped appending, and
\* it never ends.
ChainInv ==
  pc = "chain" =>
    /\ call_sites[site].landing_pad # 0
    /\ SiteFirst # 0
    /\ \E n \in 0 .. Len(actions) :
         /\ action_index + 1 = SiteChain[n]
         /\ \/ SiteChain[Len(actions)] # 0
            \/ /\ Len(handlers) = n
               /\ \A m \in 1 .. n :
                    /\ SiteChain[m - 1] # 0
                    /\ handlers[m] = Handler(actions[SiteChain[m - 1]].type, call_sites[site])

\* build_scopes has not begun: no scope, no call site passed.
Untouched == pc \notin {"scope", "chain", "done"} => scopes = <<>> /\ site = 1

\* FirstAction counts the records from 0, ScopeTable from 1.
LEMMA FirstIsFirst ==
  ASSUME TypeOK, NEW cs \in CallSite
  PROVE  /\ FirstAction(cs) \in -1 .. Len(actions) - 1
         /\ ScopeTable!First(cs) = FirstAction(cs) + 1
<1> DEFINE here == {k \in DOMAIN actions : actions[k].entry_offset = cs.action - 1}
<1>1. here \in SUBSET Nat /\ here \subseteq 1 .. Len(actions) /\ Len(actions) \in Nat
  BY ActionsLength
<1>2. ScopeTable!At(cs.action - 1) = here
  BY DEF ScopeTable!At
<1>3. ActionIndexAt(cs.action - 1) = IF here = {} THEN -1 ELSE Min(here) - 1
  BY DEF ActionIndexAt
<1>4. here # {} => Min(here) \in here
  <2> HIDE DEF here
  <2>. QED BY <1>1, MinOfNaturals
<1>5. Min(here) = CHOOSE k \in here : \A n \in here : k <= n
  BY DEF Min
<1> HIDE DEF here
<1>6. CASE cs.action <= 0 \/ here = {}
  <2>1. FirstAction(cs) = -1
    BY <1>3, <1>6 DEF FirstAction
  <2>2. ScopeTable!First(cs) = 0
    BY <1>2, <1>6 DEF ScopeTable!First
  <2>. QED BY <1>1, <2>1, <2>2
<1>7. CASE ~(cs.action <= 0 \/ here = {})
  <2>1. FirstAction(cs) = Min(here) - 1
    BY <1>3, <1>7 DEF FirstAction
  <2>2. ScopeTable!First(cs) = Min(here)
    BY <1>2, <1>5, <1>7 DEF ScopeTable!First
  <2>3. Min(here) \in 1 .. Len(actions)
    BY <1>1, <1>4, <1>7
  <2>. QED BY <1>1, <2>1, <2>2, <2>3
<1>. QED BY <1>6, <1>7

\* What an iteration of the loop reads.
LEMMA ChainState ==
  ASSUME TypeOK, pc = "chain"
  PROVE  /\ site \in 1 .. Len(call_sites)
         /\ call_sites[site] \in CallSite
         /\ SiteFirst \in 0 .. Len(actions)
<1>1. site \in 1 .. Len(call_sites) /\ call_sites \in Seq(CallSite)
  BY DEF TypeOK
<1>2. call_sites[site] \in CallSite
  BY <1>1
<1>. QED BY <1>1, <1>2, FirstIsFirst, ActionsLength DEF SiteFirst

\* The two handlers are the same record.
LEMMA HandlersAgree ==
  ASSUME NEW type \in Int, NEW cs
  PROVE  Handler(type, cs) = ScopeTable!Handler(type, cs.landing_pad)
BY DEF Handler, Kind, ScopeTable!Handler

\* When the loop ends, the chain does, and the scope is the promised one.
LEMMA ChainDone ==
  ASSUME TypeOK, ChainInv, pc = "chain", action_index < 0
  PROVE  LET cs == call_sites[site]
         IN  /\ cs.landing_pad # 0
             /\ ScopeTable!Ends(ScopeTable!First(cs))
             /\ handlers # <<>>
             /\ \A h \in DOMAIN handlers : handlers[h].landing_pad = cs.landing_pad
             /\ ScopeOf(cs, handlers) = ScopeTable!ScopeFor(cs)
<1> DEFINE cs == call_sites[site]
           k  == SiteFirst
           c  == SiteChain
           N  == Len(actions)
<1>1. /\ cs \in CallSite /\ k \in 0 .. N /\ N \in Nat
      /\ ScopeTable!First(cs) = k
  BY ChainState, FirstIsFirst, ActionsLength DEF SiteFirst
<1>2. action_index + 1 = 0
  BY DEF TypeOK
<1>3. PICK n \in 0 .. N :
        /\ c[n] = 0
        /\ \/ c[N] # 0
           \/ /\ Len(handlers) = n
              /\ \A m \in 1 .. n :
                   c[m - 1] # 0 /\ handlers[m] = Handler(actions[c[m - 1]].type, cs)
  BY <1>2 DEF ChainInv
<1>4. cs.landing_pad # 0 /\ k # 0
  BY <1>1 DEF ChainInv
<1>5. c \in [0 .. N -> 0 .. N] /\ c[0] = k
  BY <1>1, ChainSteps DEF SiteChain
<1>6. c[N] = 0
  BY <1>1, <1>3, N \in n .. N, ChainStaysEnded DEF SiteChain
<1>7. /\ Len(handlers) = n /\ n \in Nat \ {0}
      /\ \A m \in 1 .. n :
           c[m - 1] # 0 /\ handlers[m] = Handler(actions[c[m - 1]].type, cs)
  BY <1>1, <1>3, <1>4, <1>5, <1>6
<1> HIDE DEF cs, k, N
<1>8. ScopeTable!Ends(k) /\ ScopeTable!Length(k) = n
  <2>1. \A m \in 0 .. n - 1 : m + 1 \in 1 .. n /\ (m + 1) - 1 = m
    BY <1>7
  <2>2. \A m \in 0 .. n - 1 : c[m] # 0
    BY <1>7, <2>1
  <2>. QED BY <1>1, <1>3, <2>2, ChainLength DEF SiteChain, k, N
<1>9. handlers \in Seq(HandlerRecord) /\ handlers # <<>> /\ DOMAIN handlers = 1 .. n
  BY <1>7 DEF TypeOK
<1>10. \A h \in DOMAIN handlers : handlers[h].landing_pad = cs.landing_pad
  BY <1>7, <1>9 DEF Handler
<1>11. \A m \in 1 .. n : actions[c[m - 1]].type \in Int
  <2> SUFFICES ASSUME NEW m \in 1 .. n PROVE actions[c[m - 1]].type \in Int
    OBVIOUS
  <2>1. m - 1 \in 0 .. N
    BY <1>1
  <2>2. c[m - 1] \in 1 .. N
    <3>1. c[m - 1] # 0
      BY <1>7
    <3>2. c[m - 1] \in 0 .. N
      BY <1>5, <2>1
    <3>. QED BY <1>1, <3>1, <3>2
  <2>3. actions[c[m - 1]] \in Action
    BY <2>2, ActionsLength, ActionFields DEF N
  <2>. QED BY <2>3 DEF Action
<1>12. ScopeTable!Clauses(k) = [m \in 1 .. n |-> actions[c[m - 1]].type]
  BY <1>4, <1>8 DEF ScopeTable!Clauses, Chain, SiteChain, k
<1>13. handlers = [m \in 1 .. n |-> ScopeTable!Handler(actions[c[m - 1]].type, cs.landing_pad)]
  <2>1. \A m \in 1 .. n :
          handlers[m] = ScopeTable!Handler(actions[c[m - 1]].type, cs.landing_pad)
    BY <1>7, <1>11, HandlersAgree
  <2>. QED BY <1>9, <2>1
<1>14. ScopeOf(cs, handlers) = ScopeTable!ScopeFor(cs)
  <2> DEFINE clauses == ScopeTable!Clauses(ScopeTable!First(cs))
  <2>1. clauses = [m \in 1 .. n |-> actions[c[m - 1]].type]
    BY <1>1, <1>12
  <2>2. Len(clauses) = n /\ \A m \in 1 .. n : clauses[m] = actions[c[m - 1]].type
    BY <1>7, <2>1
  <2> HIDE DEF clauses
  <2>3. handlers = [m \in 1 .. Len(clauses) |-> ScopeTable!Handler(clauses[m], cs.landing_pad)]
    BY <1>13, <2>2
  <2>. QED BY <2>3 DEF ScopeOf, ScopeTable!ScopeFor, clauses
<1>. QED BY <1>1, <1>4, <1>8, <1>9, <1>10, <1>14 DEF cs

\* Steps outside build_scopes leave its variables alone, and those inside it the
\* tables.
LEMMA WalkIsLocal ==
  /\ Next /\ ~build_scopes => /\ pc \notin {"scope", "chain", "done"}
                              /\ UNCHANGED <<scopes, site>>
                              /\ pc' # "chain"
  /\ build_scopes => /\ pc \in {"scope", "chain"}
                     /\ pc' \in {"scope", "chain", "done"}
                     /\ UNCHANGED <<call_sites, actions>>
  /\ Next => data' = data
BY DEF Next, build_scopes, SkipCallSite, CleanupScope, BeginChain, FollowChain, EndChain,
       EndScopes, ParseHeader, ParseCallSiteDescriptor, ParseCallSite, EndCallSites,
       ParseAction, EndActions, ParseType, EndTypes, Throw, cursor, tables, walk

LEMMA ChainUnchanged ==
  ASSUME UNCHANGED <<call_sites, actions, site>>
  PROVE  SiteFirst' = SiteFirst /\ SiteChain' = SiteChain
<1>1. SiteFirst' = SiteFirst
  BY DEF SiteFirst, FirstAction, ActionIndexAt
<1>2. SiteChain' = SiteChain
  BY <1>1 DEF SiteChain, Chain, ScopeTable!Chain
<1>. QED BY <1>1, <1>2

\* One iteration: the record the loop is at is passed, and the link taken.
LEMMA FollowChainInv ==
  ASSUME IInv, ChainInv, data \in Inputs, FollowChain
  PROVE  ChainInv'
<1> DEFINE cs == call_sites[site]
           k  == SiteFirst
           c  == SiteChain
           N  == Len(actions)
           a  == actions[action_index + 1]
<1>1. /\ pc = "chain" /\ action_index >= 0 /\ TypeOK /\ ActionsTile
      /\ handlers' = IF Len(handlers) < MaxHandlers
                     THEN Append(handlers, Handler(a.type, cs))
                     ELSE handlers
      /\ action_index' = a.next_index
      /\ UNCHANGED <<pc, call_sites, actions, site>>
  BY DEF FollowChain, IInv, tables
<1>2. cs \in CallSite /\ k \in 0 .. N /\ N \in Nat
  BY <1>1, ChainState, ActionsLength
<1>3. /\ c \in [0 .. N -> 0 .. N] /\ c[0] = k
      /\ \A n \in 1 .. N : c[n] = LinkOf(c[n - 1])
  BY <1>1, <1>2, ChainSteps DEF SiteChain
<1>4. PICK n \in 0 .. N :
        /\ action_index + 1 = c[n]
        /\ \/ c[N] # 0
           \/ /\ Len(handlers) = n
              /\ \A m \in 1 .. n :
                   c[m - 1] # 0 /\ handlers[m] = Handler(actions[c[m - 1]].type, cs)
  BY <1>1 DEF ChainInv
<1>5. cs.landing_pad # 0 /\ k # 0
  BY <1>1 DEF ChainInv
<1>6. c[n] # 0 /\ action_index' + 1 = LinkOf(c[n])
  <2>1. c[n] # 0
    BY <1>1, <1>4 DEF TypeOK
  <2>. QED BY <1>1, <1>4, <2>1 DEF LinkOf
<1>7. handlers \in Seq(HandlerRecord) /\ Len(handlers) \in Nat
  BY <1>1 DEF TypeOK
<1>8. c' = c /\ k' = k
  BY <1>1, ChainUnchanged
<1> SUFFICES \E m \in 0 .. N :
               /\ action_index' + 1 = c[m]
               /\ \/ c[N] # 0
                  \/ /\ Len(handlers') = m
                     /\ \A j \in 1 .. m :
                          /\ c[j - 1] # 0
                          /\ handlers'[j] = Handler(actions[c[j - 1]].type, cs)
  BY <1>1, <1>5, <1>8 DEF ChainInv
<1>9. CASE c[N] # 0
  <2>1. PICK m \in 0 .. N : LinkOf(c[n]) = c[m]
    BY <1>1, <1>2, <1>9, ChainComesBack DEF SiteChain
  <2>. QED BY <1>6, <1>9, <2>1
<1>10. CASE c[N] = 0
  <2> HIDE DEF N, cs
  <2>1. n # N
    BY <1>6, <1>10
  <2>2. n + 1 \in 1 .. N /\ n + 1 \in 0 .. N /\ (n + 1) - 1 = n
    BY <1>2, <2>1
  <2>3. action_index' + 1 = c[n + 1]
    BY <1>3, <1>6, <2>2
  <2>4. Len(handlers) = n
    BY <1>4, <1>10
  <2>5. handlers' = Append(handlers, Handler(a.type, cs))
    <3>1. N <= Len(data) /\ Len(data) <= MaxHandlers
      BY <1>1, RecordsFit, InputsAssumption DEF N
    <3>2. Len(data) \in Nat /\ MaxHandlers \in Nat
      BY <1>1, InputsAssumption DEF TypeOK
    <3>3. n < N
      BY <1>2, <2>1
    <3>4. Len(handlers) < MaxHandlers
      BY <1>2, <2>4, <3>1, <3>2, <3>3
    <3>. QED BY <1>1, <3>4 DEF cs
  <2>6. /\ Len(handlers') = n + 1
        /\ \A j \in 1 .. n : handlers'[j] = handlers[j]
        /\ handlers'[n + 1] = Handler(a.type, cs)
    BY <1>7, <2>4, <2>5
  <2>7. a = actions[c[n]]
    BY <1>4
  <2>8. ASSUME NEW j \in 1 .. n + 1
        PROVE  c[j - 1] # 0 /\ handlers'[j] = Handler(actions[c[j - 1]].type, cs)
    <3>1. CASE j = n + 1
      BY <1>6, <2>2, <2>6, <2>7, <3>1
    <3>2. CASE j # n + 1
      <4>1. j \in 1 .. n
        BY <3>2
      <4>. QED BY <1>4, <1>10, <2>6, <4>1
    <3>. QED BY <3>1, <3>2
  <2>. QED BY <2>2, <2>3, <2>6, <2>8
<1>. QED BY <1>9, <1>10

LEMMA BeginChainInv ==
  ASSUME TypeOK, BeginChain
  PROVE  ChainInv'
<1> DEFINE cs == call_sites[site]
<1>1. /\ site \in 1 .. Len(call_sites) /\ call_sites \in Seq(CallSite)
      /\ cs.landing_pad # 0 /\ FirstAction(cs) # -1
      /\ action_index' = FirstAction(cs) /\ handlers' = <<>>
      /\ UNCHANGED <<call_sites, actions, site>>
  BY DEF BeginChain, TypeOK, tables
<1>2. cs \in CallSite
  BY <1>1
<1>3. /\ FirstAction(cs) \in -1 .. Len(actions) - 1 /\ Len(actions) \in Nat
      /\ SiteFirst = FirstAction(cs) + 1
  BY <1>2, FirstIsFirst, ActionsLength DEF SiteFirst
<1>4. SiteFirst \in 0 .. Len(actions) /\ SiteFirst # 0
  BY <1>1, <1>3
<1>5. SiteChain[0] = SiteFirst
  BY <1>4, ChainSteps DEF SiteChain
<1>6. SiteFirst' = SiteFirst /\ SiteChain' = SiteChain
  BY <1>1, ChainUnchanged
<1>7. 0 \in 0 .. Len(actions) /\ Len(handlers') = 0 /\ action_index' + 1 = SiteChain[0]
      /\ \A m \in 1 .. 0 : FALSE
  BY <1>1, <1>3, <1>5
<1> HIDE DEF cs
<1>8. \E n \in 0 .. Len(actions) :
        /\ action_index' + 1 = SiteChain[n]
        /\ \/ SiteChain[Len(actions)] # 0
           \/ /\ Len(handlers') = n
              /\ \A m \in 1 .. n :
                   /\ SiteChain[m - 1] # 0
                   /\ handlers'[m] = Handler(actions[SiteChain[m - 1]].type, cs)
  BY <1>7
<1>. QED BY <1>1, <1>4, <1>6, <1>8 DEF ChainInv, cs

-----------------------------------------------------------------------------
(* One scope of every call site with a landing pad.                        *)

LEMMA PadsType ==
  ASSUME NEW n \in Nat
  PROVE  /\ PadsBefore(n) \in Nat
         /\ PadsBefore(n + 1) = IF n > 0 /\ call_sites[n].landing_pad # 0
                                THEN PadsBefore(n) + 1 ELSE PadsBefore(n)
<1> DEFINE P(m) == {j \in 1 .. m - 1 : call_sites[j].landing_pad # 0}
<1>1. \A m \in Nat : IsFiniteSet(P(m))
  <2> SUFFICES ASSUME NEW m \in Nat PROVE IsFiniteSet(P(m))
    OBVIOUS
  <2>1. IsFiniteSet(1 .. m - 1)
    BY FS_Interval
  <2>2. P(m) \in SUBSET (1 .. m - 1)
    OBVIOUS
  <2> HIDE DEF P
  <2>. QED BY <2>1, <2>2, FS_Subset
<1>2. PadsBefore(n) = Cardinality(P(n)) /\ PadsBefore(n + 1) = Cardinality(P(n + 1))
  BY DEF PadsBefore
<1>3. n \notin P(n)
  OBVIOUS
<1>4. CASE n > 0 /\ call_sites[n].landing_pad # 0
  <2>1. P(n + 1) = P(n) \cup {n}
    BY <1>4
  <2> HIDE DEF P
  <2>. QED BY <1>1, <1>2, <1>3, <1>4, <2>1, FS_AddElement, FS_CardinalityType
<1>5. CASE ~(n > 0 /\ call_sites[n].landing_pad # 0)
  <2>1. P(n + 1) = P(n)
    BY <1>5
  <2> HIDE DEF P
  <2>. QED BY <1>1, <1>2, <1>5, <2>1, FS_CardinalityType
<1>. QED BY <1>4, <1>5

\* The landing pads before a call site are no fewer than those before an
\* earlier one, and one more if the earlier one has a landing pad itself.
LEMMA PadsGrow ==
  ASSUME NEW n \in Nat, NEW j \in 1 .. n - 1, call_sites[j].landing_pad # 0
  PROVE  PadsBefore(j) + 1 \in 1 .. PadsBefore(n)
<1>1. PadsBefore(j) \in Nat /\ PadsBefore(j + 1) = PadsBefore(j) + 1
  BY j \in Nat, PadsType
<1> DEFINE P(m) == {i \in 1 .. m - 1 : call_sites[i].landing_pad # 0}
<1>2. P(j + 1) \in SUBSET P(n)
  OBVIOUS
<1>3. IsFiniteSet(P(n))
  <2>1. IsFiniteSet(1 .. n - 1)
    BY FS_Interval
  <2>2. P(n) \in SUBSET (1 .. n - 1)
    OBVIOUS
  <2> HIDE DEF P
  <2>. QED BY <2>1, <2>2, FS_Subset
<1>4. Cardinality(P(j + 1)) <= Cardinality(P(n))
  <2> HIDE DEF P
  <2>. QED BY <1>2, <1>3, FS_Subset
<1>5. PadsBefore(j + 1) = Cardinality(P(j + 1)) /\ PadsBefore(n) = Cardinality(P(n))
  BY DEF PadsBefore
<1>6. PadsBefore(n) \in Nat
  BY PadsType
<1> HIDE DEF P
<1>. QED BY <1>1, <1>4, <1>5, <1>6

\* What a scope has to have of its call site.
Mirrors(s, cs) ==
  /\ s.start = cs.start
  /\ s.handlers # <<>>
  /\ \A h \in DOMAIN s.handlers : s.handlers[h].landing_pad = cs.landing_pad

LEMMA MirrorsUnchanged ==
  ASSUME ScopesMirrorCallSites, UNCHANGED <<call_sites, scopes, site>>
  PROVE  ScopesMirrorCallSites'
<1>1. \A n : PadsBefore(n)' = PadsBefore(n)
  BY DEF PadsBefore
<1>2. PadsBefore(site)' = PadsBefore(site)
  BY DEF PadsBefore
<1>. QED BY <1>1, <1>2 DEF ScopesMirrorCallSites

\* A call site is passed: with a scope that mirrors it, or none if it has no
\* landing pad.
LEMMA PassedMirrors ==
  ASSUME TypeOK, ScopesMirrorCallSites, site <= Len(call_sites),
         UNCHANGED call_sites, site' = site + 1,
         LET cs == call_sites[site]
         IN  \/ cs.landing_pad = 0 /\ UNCHANGED scopes
             \/ /\ cs.landing_pad # 0
                /\ \E s : scopes' = Append(scopes, s) /\ Mirrors(s, cs)
  PROVE  ScopesMirrorCallSites'
<1>1. /\ site \in 1 .. Len(call_sites) /\ Len(call_sites) \in Nat
      /\ site \in Nat /\ site > 0 /\ scopes \in Seq(Scope) /\ Len(scopes) \in Nat
  BY DEF TypeOK
<1>2. /\ Len(scopes) = PadsBefore(site)
      /\ \A j \in 1 .. site - 1 :
           call_sites[j].landing_pad # 0 =>
             Mirrors(scopes[PadsBefore(j) + 1], call_sites[j])
  BY DEF ScopesMirrorCallSites, Mirrors
<1>3. \A n : PadsBefore(n)' = PadsBefore(n)
  BY DEF PadsBefore
<1>4. /\ PadsBefore(site) \in Nat
      /\ PadsBefore(site + 1) = IF call_sites[site].landing_pad # 0
                                THEN PadsBefore(site) + 1 ELSE PadsBefore(site)
  BY <1>1, PadsType
<1>5. SUFFICES /\ Len(scopes') = PadsBefore(site + 1)
               /\ \A j \in 1 .. site :
                    call_sites[j].landing_pad # 0 =>
                      Mirrors(scopes'[PadsBefore(j) + 1], call_sites[j])
  <2>1. \A j \in 1 .. (site + 1) - 1 : j \in 1 .. site
    BY <1>1
  <2>2. PadsBefore(site)' = PadsBefore(site + 1)
    BY <1>3 DEF PadsBefore
  <2>. QED BY <1>1, <1>3, <2>1, <2>2 DEF ScopesMirrorCallSites, Mirrors
<1>6. CASE call_sites[site].landing_pad = 0 /\ UNCHANGED scopes
  <2>1. \A j \in 1 .. site : j = site \/ j \in 1 .. site - 1
    BY <1>1
  <2>. QED BY <1>2, <1>4, <1>6, <2>1
<1>7. CASE call_sites[site].landing_pad # 0
  <2>1. PICK s : scopes' = Append(scopes, s) /\ Mirrors(s, call_sites[site])
    BY <1>7
  <2>2. /\ Len(scopes') = Len(scopes) + 1
        /\ \A k \in 1 .. Len(scopes) : scopes'[k] = scopes[k]
        /\ scopes'[Len(scopes) + 1] = s
    BY <1>1, <2>1
  <2>3. ASSUME NEW j \in 1 .. site, call_sites[j].landing_pad # 0
        PROVE  Mirrors(scopes'[PadsBefore(j) + 1], call_sites[j])
    <3>1. CASE j = site
      BY <1>2, <2>1, <2>2, <3>1
    <3>2. CASE j # site
      <4>1. j \in 1 .. site - 1
        BY <1>1, <3>2
      <4>2. PadsBefore(j) + 1 \in 1 .. Len(scopes)
        BY <1>1, <1>2, <2>3, <4>1, PadsGrow
      <4>. QED BY <1>2, <2>2, <2>3, <4>1, <4>2
    <3>. QED BY <3>1, <3>2
  <2>. QED BY <1>2, <1>4, <1>7, <2>2, <2>3
<1>. QED BY <1>6, <1>7

-----------------------------------------------------------------------------
(* The invariant and the theorems.                                         *)

\* What LsdaParserProofs proves, and about build_scopes: it has not begun, or
\* its scopes mirror the call sites passed and it is somewhere on the chain of
\* the next one.  That the vector is one of Inputs bounds the handlers.
WalkInv ==
  /\ IInv
  /\ data \in Inputs
  /\ Untouched
  /\ ChainInv
  /\ ScopesMirrorCallSites

LEMMA WalkInit == Init => WalkInv
<1> SUFFICES ASSUME Init PROVE WalkInv
  OBVIOUS
<1>1. IInv
  BY InitType, InitOrder, InitTile, InitLinks DEF IInv
<1>2. data \in Inputs /\ Untouched /\ ChainInv
  BY DEF Init, Untouched, ChainInv
<1>3. PadsBefore(1) = 0
  <2>1. {j \in 1 .. 1 - 1 : call_sites[j].landing_pad # 0} = {}
    OBVIOUS
  <2>. QED BY <2>1, FS_EmptySet DEF PadsBefore
<1>4. scopes = <<>> /\ site = 1 /\ Len(scopes) = 0
  BY DEF Init
<1>5. ScopesMirrorCallSites
  BY <1>3, <1>4 DEF ScopesMirrorCallSites
<1>. QED BY <1>1, <1>2, <1>5 DEF WalkInv

LEMMA WalkStep == WalkInv /\ [Next]_vars => WalkInv'
<1> SUFFICES ASSUME WalkInv, [Next]_vars PROVE WalkInv'
  OBVIOUS
<1>1. IInv'
  BY NextType, NextOrder, NextTile, NextLinks DEF WalkInv, IInv
<1>2. data' \in Inputs
  BY WalkIsLocal DEF WalkInv, vars
<1>3. /\ TypeOK /\ ScopesMirrorCallSites /\ call_sites \in Seq(CallSite)
  BY DEF WalkInv, IInv, TypeOK
<1>4. CASE UNCHANGED vars
  <2>1. UNCHANGED <<pc, call_sites, actions, scopes, site, action_index, handlers>>
    BY <1>4 DEF vars, tables, walk
  <2>2. SiteFirst' = SiteFirst /\ SiteChain' = SiteChain
    BY <2>1, ChainUnchanged
  <2>3. Untouched' /\ ChainInv'
    BY <2>1, <2>2 DEF WalkInv, Untouched, ChainInv
  <2>4. ScopesMirrorCallSites'
    BY <1>3, <2>1, MirrorsUnchanged
  <2>. QED BY <1>1, <1>2, <2>3, <2>4 DEF WalkInv
<1>5. CASE Next /\ ~build_scopes
  <2>1. /\ pc \notin {"scope", "chain", "done"} /\ pc' # "chain"
        /\ scopes' = <<>> /\ site' = 1
    BY <1>5, WalkIsLocal DEF WalkInv, Untouched
  <2>2. PadsBefore(1)' = 0
    <3>1. {j \in 1 .. 1 - 1 : call_sites'[j].landing_pad # 0} = {}
      OBVIOUS
    <3>. QED BY <3>1, FS_EmptySet DEF PadsBefore
  <2>3. Untouched' /\ ChainInv'
    BY <2>1 DEF Untouched, ChainInv
  <2>4. ScopesMirrorCallSites'
    <3>1. Len(scopes') = 0 /\ PadsBefore(site)' = 0
      BY <2>1, <2>2 DEF PadsBefore
    <3>. QED BY <2>1, <3>1 DEF ScopesMirrorCallSites
  <2>. QED BY <1>1, <1>2, <2>3, <2>4 DEF WalkInv
<1>6. CASE build_scopes
  <2>1. /\ pc \in {"scope", "chain"} /\ pc' \in {"scope", "chain", "done"}
        /\ UNCHANGED <<call_sites, actions>>
    BY <1>6, WalkIsLocal
  <2>2. Untouched'
    BY <2>1 DEF Untouched
  <2>3. CASE SkipCallSite
    <3>1. /\ site <= Len(call_sites) /\ call_sites[site].landing_pad = 0
          /\ site' = site + 1 /\ UNCHANGED scopes /\ pc' = "scope"
      BY <2>3 DEF SkipCallSite, tables
    <3>2. ScopesMirrorCallSites'
      BY <1>3, <2>1, <3>1, PassedMirrors
    <3>. QED BY <1>1, <1>2, <2>2, <3>1, <3>2 DEF WalkInv, ChainInv
  <2>4. CASE CleanupScope
    <3> DEFINE cs == call_sites[site]
               s  == ScopeOf(cs, <<Handler(0, cs)>>)
    <3>1. /\ site <= Len(call_sites) /\ cs.landing_pad # 0
          /\ site' = site + 1 /\ scopes' = Append(scopes, s) /\ pc' = "scope"
      BY <2>4 DEF CleanupScope
    <3>2. Mirrors(s, cs)
      BY DEF Mirrors, ScopeOf, Handler
    <3> HIDE DEF s
    <3>3. ScopesMirrorCallSites'
      BY <1>3, <2>1, <3>1, <3>2, PassedMirrors
    <3>. QED BY <1>1, <1>2, <2>2, <3>1, <3>3 DEF WalkInv, ChainInv
  <2>5. CASE BeginChain
    <3>1. UNCHANGED <<call_sites, scopes, site>>
      BY <2>5 DEF BeginChain, tables
    <3>2. ScopesMirrorCallSites'
      BY <1>3, <3>1, MirrorsUnchanged
    <3>3. ChainInv'
      BY <1>3, <2>5, BeginChainInv
    <3>. QED BY <1>1, <1>2, <2>2, <3>2, <3>3 DEF WalkInv
  <2>6. CASE FollowChain
    <3>1. UNCHANGED <<call_sites, scopes, site>>
      BY <2>6 DEF FollowChain, tables
    <3>2. ScopesMirrorCallSites'
      BY <1>3, <3>1, MirrorsUnchanged
    <3>3. ChainInv'
      BY <2>6, FollowChainInv DEF WalkInv
    <3>. QED BY <1>1, <1>2, <2>2, <3>2, <3>3 DEF WalkInv
  <2>7. CASE EndChain
    <3> DEFINE cs == call_sites[site]
               s  == ScopeOf(cs, handlers)
    <3>1. /\ pc = "chain" /\ action_index < 0
          /\ site' = site + 1 /\ scopes' = Append(scopes, s) /\ pc' = "scope"
      BY <2>7 DEF EndChain
    <3>2. site <= Len(call_sites)
      BY <1>3, <3>1 DEF TypeOK
    <3>3. /\ cs.landing_pad # 0 /\ handlers # <<>>
          /\ \A h \in DOMAIN handlers : handlers[h].landing_pad = cs.landing_pad
      BY <1>3, <3>1, ChainDone DEF WalkInv
    <3>4. Mirrors(s, cs)
      BY <3>3 DEF Mirrors, ScopeOf
    <3> HIDE DEF s
    <3>5. ScopesMirrorCallSites'
      BY <1>3, <2>1, <3>1, <3>2, <3>3, <3>4, PassedMirrors
    <3>. QED BY <1>1, <1>2, <2>2, <3>1, <3>5 DEF WalkInv, ChainInv
  <2>8. CASE EndScopes
    <3>1. UNCHANGED <<call_sites, scopes, site>> /\ pc' = "done"
      BY <2>8 DEF EndScopes, tables, walk
    <3>2. ScopesMirrorCallSites'
      BY <1>3, <3>1, MirrorsUnchanged
    <3>. QED BY <1>1, <1>2, <2>2, <3>1, <3>2 DEF WalkInv, ChainInv
  <2>. QED BY <1>6, <2>3, <2>4, <2>5, <2>6, <2>7, <2>8 DEF build_scopes
<1>. QED BY <1>4, <1>5, <1>6

LEMMA WalkInvariant == Spec => []WalkInv
<1>. QED BY WalkInit, WalkStep, PTL DEF Spec

\* build_scopes makes one scope of every call site with a landing pad, in
\* order, with that call site's range, at least one handler, and no handler of
\* another call site's landing pad (abi_parse.cpp:67-134).
THEOREM ScopesMirror == Spec => []ScopesMirrorCallSites
<1>1. WalkInv => ScopesMirrorCallSites
  BY DEF WalkInv
<1>. QED BY <1>1, WalkInvariant, PTL

\* A step of parse() is a step of ScopeTable: it fills the tables, builds the
\* next scope, or, inside a chain, is not to be seen.
LEMMA StepRefines == WalkInv /\ [Next]_vars => [ScopeTable!Next]_(ScopeTable!vars)
<1> SUFFICES ASSUME WalkInv, [Next]_vars
             PROVE  ScopeTable!Next \/ UNCHANGED ScopeTable!vars
  OBVIOUS
<1> DEFINE ready == Resolved /\ pc # "type"
<1>1. ready = (pc \in {"scope", "chain", "done"}) /\ ready' = (pc' \in {"scope", "chain", "done"})
  BY DEF Resolved
<1>2. TypeOK /\ call_sites \in Seq(CallSite)
  BY DEF WalkInv, IInv, TypeOK
<1>3. CASE UNCHANGED vars
  BY <1>3 DEF vars, tables, walk, ScopeTable!vars, Resolved
<1>4. CASE Next /\ ~build_scopes
  <2>1. ~ready /\ UNCHANGED <<scopes, site>> /\ ready' \in BOOLEAN
    BY <1>1, <1>4, WalkIsLocal
  <2>2. ScopeTable!Fill
    BY <2>1 DEF ScopeTable!Fill
  <2>. QED BY <2>2 DEF ScopeTable!Next
<1>5. CASE build_scopes
  <2>1. ready /\ ready' /\ ready' = ready /\ UNCHANGED <<call_sites, actions>>
    BY <1>1, <1>5, WalkIsLocal
  <2>2. CASE SkipCallSite
    <3>1. ScopeTable!Build
      BY <2>1, <2>2 DEF SkipCallSite, tables, ScopeTable!Build
    <3>. QED BY <3>1 DEF ScopeTable!Next
  <2>3. CASE CleanupScope
    <3> DEFINE cs == call_sites[site]
    <3>1. /\ site <= Len(call_sites) /\ cs.landing_pad # 0
          /\ FirstAction(cs) = -1 /\ site' = site + 1
          /\ scopes' = Append(scopes, ScopeOf(cs, <<Handler(0, cs)>>))
      BY <2>3 DEF CleanupScope
    <3>2. cs \in CallSite
      <4>1. call_sites \in Seq(CallSite) /\ site \in 1 .. Len(call_sites) + 1
        BY <1>2 DEF TypeOK
      <4>2. site \in 1 .. Len(call_sites)
        BY <3>1, <4>1
      <4> QED BY <4>1, <4>2
    <3>3. ScopeTable!First(cs) = 0
      BY <1>2, <3>1, <3>2, FirstIsFirst
    <3>4. ScopeTable!Ends(0)
      <4>1. Len(actions) \in Nat /\ 0 \in 0 .. Len(actions) /\ Len(actions) \in 0 .. Len(actions)
        BY <1>2, ActionsLength
      <4>2. Chain(0)[0] = 0
        BY <1>2, <4>1, ChainSteps
      <4>3. Chain(0)[Len(actions)] = 0
        BY <1>2, <4>1, <4>2, ChainStaysEnded
      <4>. QED BY <4>3 DEF ScopeTable!Ends, Chain
    <3>5. ScopeOf(cs, <<Handler(0, cs)>>) = ScopeTable!ScopeFor(cs)
      <4>1. ScopeTable!Clauses(0) = <<0>>
        BY DEF ScopeTable!Clauses
      <4>2. Handler(0, cs) = ScopeTable!Handler(0, cs.landing_pad)
        BY HandlersAgree
      <4>3. <<Handler(0, cs)>> =
              [n \in 1 .. Len(<<0>>) |-> ScopeTable!Handler(<<0>>[n], cs.landing_pad)]
        BY <4>2
      <4>. QED BY <3>3, <4>1, <4>3 DEF ScopeOf, ScopeTable!ScopeFor
    <3> HIDE DEF cs
    <3>6. ScopeTable!Build
      BY <2>1, <3>1, <3>3, <3>4, <3>5 DEF ScopeTable!Build, cs
    <3>. QED BY <3>6 DEF ScopeTable!Next
  <2>4. CASE EndChain
    <3> DEFINE cs == call_sites[site]
    <3>1. /\ pc = "chain" /\ action_index < 0 /\ site <= Len(call_sites)
          /\ scopes' = Append(scopes, ScopeOf(cs, handlers)) /\ site' = site + 1
      BY <1>2, <2>4 DEF EndChain, TypeOK
    <3>2. /\ cs.landing_pad # 0 /\ ScopeTable!Ends(ScopeTable!First(cs))
          /\ ScopeOf(cs, handlers) = ScopeTable!ScopeFor(cs)
      BY <1>2, <3>1, ChainDone DEF WalkInv
    <3> HIDE DEF cs
    <3>3. ScopeTable!Build
      BY <2>1, <3>1, <3>2 DEF ScopeTable!Build, cs
    <3>. QED BY <3>3 DEF ScopeTable!Next
  <2>5. CASE BeginChain \/ FollowChain \/ EndScopes
    <3>1. UNCHANGED <<scopes, site>>
      BY <2>5 DEF BeginChain, FollowChain, EndScopes, tables, walk
    <3>. QED BY <2>1, <3>1 DEF ScopeTable!vars
  <2>. QED BY <1>5, <2>2, <2>3, <2>4, <2>5 DEF build_scopes
<1>. QED BY <1>3, <1>4, <1>5

\* build_scopes, which walks its chains record by record, gives every call site
\* the scope ScopeTable promises its callers, in one step, or none if its chain
\* comes back on itself (abi_parse.cpp:67-134).
THEOREM Refinement == Spec => ImplementsScopeTable
<1>1. Init => ScopeTable!Init
  BY DEF Init, ScopeTable!Init, Resolved
<1>. QED BY <1>1, WalkInvariant, StepRefines, PTL
         DEF Spec, ImplementsScopeTable, ScopeTable!Spec
=============================================================================
