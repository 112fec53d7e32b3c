----------------------------- MODULE LsdaParser -----------------------------
(***************************************************************************)
(* LsdaParser of src/src/abi_parse.cpp: parse() over one byte vector, from *)
(* the header to build_scopes().  A step is one iteration of one of its    *)
(* loops, or the straight-line code between two loops.  pc names the loop: *)
(*                                                                         *)
(*   "header"    parse_header, tt_start                                    *)
(*   "call_len"  the call-site table descriptor                            *)
(*   "call_site" parse_call_sites                                          *)
(*   "action"    parse_actions_tail, both passes                           *)
(*   "type"      the type table loop                                       *)
(*   "scope"     build_scopes, its loop over the call sites                *)
(*   "chain"     build_scopes, its loop over an action chain               *)
(*   "done"      the constructor has returned                              *)
(*   "threw"     a std::runtime_error left the constructor: no object      *)
(***************************************************************************)
EXTENDS Leb128

CONSTANTS Inputs,      \* the byte vectors the constructor may be given
          MaxHandlers  \* cap on the handlers of one scope: the loop over an
                       \* action chain that never ends appends no further

ASSUME InputsAssumption ==
  /\ Inputs \subseteq Seq(Byte)
  /\ MaxHandlers \in Nat
  /\ \A d \in Inputs : Len(d) <= MaxHandlers

VARIABLES
  data,           \* std::vector<uint8_t> data, never changed
  pc,             \* where parse() is
  index,          \* size_t index, bytes consumed
  tt,             \* tt_enc and tt_start
  call,           \* call_enc and call_site_end
  actions_start,  \* where the action table begins
  call_sites, actions, type_table, scopes,
  site,           \* build_scopes: the call site being looked at
  action_index,   \* build_scopes: int64_t action_index, -1 ends the chain
  handlers        \* build_scopes: s.handlers of the scope under construction

tables == <<call_sites, actions, type_table, scopes>>
cursor == <<index, tt, call, actions_start>>
walk   == <<site, action_index, handlers>>
vars   == <<data, pc, cursor, tables, walk>>

Init ==
  /\ data \in Inputs
  /\ pc = "header"
  /\ index = 0
  /\ tt = [enc |-> Omit, start |-> 0]
  /\ call = [enc |-> Omit, end |-> 0]
  /\ actions_start = 0
  /\ call_sites = <<>> /\ actions = <<>> /\ type_table = <<>> /\ scopes = <<>>
  /\ site = 1
  /\ action_index = -1
  /\ handlers = <<>>

Throw ==
  /\ pc' = "threw"
  /\ UNCHANGED <<data, cursor, tables, walk>>

-----------------------------------------------------------------------------
(* The header and the call-site table.                                     *)

\* Mutant: the offset of the type table is read even when it is omitted.
HeaderReadsOffset ==
  LET start == read8(data, 0)
      lp    == r_encode(data, start.next, start.val, start.next)
      enc   == read8(data, lp.next)
      off   == read_uleb128(data, enc.next)
  IN  [ok   |-> start.ok /\ lp.ok /\ enc.ok /\ off.ok,
       enc  |-> enc.val,
       off  |-> off.val,
       next |-> off.next]

Header ==
  LET start == read8(data, 0)
      lp    == r_encode(data, start.next, start.val, start.next)
      enc   == read8(data, lp.next)
      off   == IF enc.val = Omit THEN Got(0, enc.next)
                                 ELSE read_uleb128(data, enc.next)
  IN  [ok   |-> start.ok /\ lp.ok /\ enc.ok /\ off.ok,
       enc  |-> enc.val,
       off  |-> off.val,
       next |-> off.next]

ParseHeader ==
  /\ pc = "header"
  /\ \/ /\ ~Header.ok
        /\ Throw
     \/ /\ Header.ok
        /\ index' = Header.next
        /\ tt' = [enc   |-> Header.enc,
                  start |-> IF Header.enc = Omit
                            THEN Len(data)
                            ELSE (Header.next + Header.off) % WordSize]
        /\ pc' = "call_len"
        /\ UNCHANGED <<data, call, actions_start, tables, walk>>

ParseCallSiteDescriptor ==
  LET enc == read8(data, index)
      len == read_uleb128(data, enc.next)
      end == (len.next + len.val) % WordSize
  IN  /\ pc = "call_len"
      /\ \/ /\ ~(enc.ok /\ len.ok /\ end <= Len(data))
            /\ Throw
         \/ /\ enc.ok /\ len.ok /\ end <= Len(data)
            /\ index' = len.next
            /\ call' = [enc |-> enc.val, end |-> end]
            /\ pc' = "call_site"
            /\ UNCHANGED <<data, tt, actions_start, tables, walk>>

CallSiteAt(i) ==
  LET start  == r_encode(data, i, call.enc, 0)
      length == r_encode(data, start.next, call.enc, 0)
      pad    == r_encode(data, length.next, call.enc, 0)
      action == read_sleb128(data, pad.next)
  IN  [ok   |-> start.ok /\ length.ok /\ pad.ok /\ action.ok,
       rec  |-> [start |-> start.val, length |-> length.val,
                 landing_pad |-> pad.val, action |-> Signed(action.val)],
       next |-> action.next]

ParseCallSite ==
  /\ pc = "call_site"
  /\ index < call.end
  /\ LET cs == CallSiteAt(index)
     IN  \/ /\ ~cs.ok
            /\ Throw
         \/ /\ cs.ok
            /\ index' = cs.next
            /\ call_sites' = Append(call_sites, cs.rec)
            /\ UNCHANGED <<data, pc, tt, call, actions_start,
                           actions, type_table, scopes, walk>>

\* Mutant: the actions may run into the type table.
ActionsUnlimited == Len(data)

ActionsLimit == Min({tt.start, Len(data)})

EndCallSites ==
  /\ pc = "call_site"
  /\ index >= call.end
  /\ \/ /\ ~(index = call.end /\ index <= ActionsLimit)
        /\ Throw
     \/ /\ index = call.end
        /\ index <= ActionsLimit
        /\ actions_start' = index
        /\ pc' = "action"
        /\ UNCHANGED <<data, index, tt, call, tables, walk>>

-----------------------------------------------------------------------------
(* The action table.  Offsets are relative to actions_start; next_index    *)
(* counts from 0, as in the code, so it names actions[next_index + 1].     *)

\* Mutant: no check that the record ends before the limit.
ActionAtUnchecked(i) ==
  LET type == read_sleb128(data, i)
      last == type.next = ActionsLimit
      disp == IF last THEN Got(0, type.next) ELSE read_sleb128(data, type.next)
  IN  [ok   |-> type.ok /\ disp.ok,
       rec  |-> [type              |-> Signed(type.val),
                 next_offset       |-> Signed(disp.val),
                 entry_offset      |-> i - actions_start,
                 next_index        |-> -1,
                 next_field_offset |-> IF last THEN -1
                                       ELSE type.next - actions_start],
       next |-> disp.next]

ActionAt(i) ==
  LET type == read_sleb128(data, i)
      last == type.next = ActionsLimit
      disp == IF last THEN Got(0, type.next) ELSE read_sleb128(data, type.next)
  IN  [ok   |-> type.ok /\ disp.ok /\ disp.next <= ActionsLimit,
       rec  |-> [type              |-> Signed(type.val),
                 next_offset       |-> Signed(disp.val),
                 entry_offset      |-> i - actions_start,
                 next_index        |-> -1,
                 next_field_offset |-> IF last THEN -1
                                       ELSE type.next - actions_start],
       next |-> disp.next]

ParseAction ==
  /\ pc = "action"
  /\ index < ActionsLimit
  /\ LET a == ActionAt(index)
     IN  \/ /\ ~a.ok
            /\ Throw
         \/ /\ a.ok
            /\ index' = a.next
            /\ actions' = Append(actions, a.rec)
            /\ UNCHANGED <<data, pc, tt, call, actions_start,
                           call_sites, type_table, scopes, walk>>

\* Mutants: counted from 1; the nearest action at or behind the offset.
ActionIndexFromOne(offset) ==
  LET here == {k \in DOMAIN actions : actions[k].entry_offset = offset}
  IN  IF here = {} THEN -1 ELSE Min(here)

ActionIndexNear(offset) ==
  LET here == {k \in DOMAIN actions : actions[k].entry_offset >= offset}
  IN  IF here = {} THEN -1 ELSE Min(here) - 1

\* The index, from 0, of the first action recorded at this offset, or -1.
ActionIndexAt(offset) ==
  LET here == {k \in DOMAIN actions : actions[k].entry_offset = offset}
  IN  IF here = {} THEN -1 ELSE Min(here) - 1

\* Mutants: the displacement 0 is followed; the displacement is subtracted.
NextIndexAlways(a) == ActionIndexAt(a.entry_offset + a.next_offset)

NextIndexBackwards(a) ==
  IF a.next_offset = 0
  THEN -1
  ELSE ActionIndexAt(a.entry_offset - a.next_offset)

\* The second pass.  The target is counted from the start of the entry.
NextIndex(a) ==
  IF a.next_offset = 0
  THEN -1
  ELSE ActionIndexAt(a.entry_offset + a.next_offset)

EndActions ==
  /\ pc = "action"
  /\ index >= ActionsLimit
  /\ \/ /\ tt.enc # Omit
        /\ tt.start > Len(data)
        /\ Throw
     \/ /\ tt.enc = Omit \/ tt.start <= Len(data)
        /\ actions' = [k \in DOMAIN actions |->
                        [actions[k] EXCEPT !.next_index = NextIndex(actions[k])]]
        /\ pc' = IF tt.enc = Omit THEN "scope" ELSE "type"
        /\ index' = IF tt.enc = Omit THEN index ELSE tt.start
        /\ UNCHANGED <<data, tt, call, actions_start,
                       call_sites, type_table, scopes, walk>>

-----------------------------------------------------------------------------
(* The type table: what cannot be read ends it and is not an error.        *)

ParseType ==
  /\ pc = "type"
  /\ index < Len(data)
  /\ LET type == r_encode(data, index, tt.enc, 0)
     IN  \/ /\ type.ok /\ type.next > index
            /\ index' = type.next
            /\ type_table' = Append(type_table, type.val)
            /\ UNCHANGED pc
         \/ /\ ~(type.ok /\ type.next > index)
            /\ pc' = "scope"
            /\ UNCHANGED <<index, type_table>>
  /\ UNCHANGED <<data, tt, call, actions_start, call_sites, actions, scopes, walk>>

EndTypes ==
  /\ pc = "type"
  /\ index >= Len(data)
  /\ pc' = "scope"
  /\ UNCHANGED <<data, cursor, tables, walk>>

NoType == -1  \* std::nullopt; no table entry is negative

resolve_type(type_index) ==
  IF type_index \in 1 .. Len(type_table)
  THEN type_table[Len(type_table) - type_index + 1]
  ELSE NoType

-----------------------------------------------------------------------------
(* build_scopes.                                                           *)

\* Mutant: a cleanup taken for a catch.
KindOfSign(type) == IF type >= 0 THEN "Catch" ELSE "Filter"

Kind(type) == IF type = 0 THEN "Cleanup" ELSE IF type > 0 THEN "Catch" ELSE "Filter"

Handler(type, cs) ==
  [type |-> Kind(type), type_index |-> type, landing_pad |-> cs.landing_pad]

ScopeOf(cs, hs) ==
  [start |-> cs.start, end |-> (cs.start + cs.length) % WordSize, handlers |-> hs]

\* Mutant: the offset of the first action is not corrected by one.
FirstActionUnbiased(cs) == IF cs.action <= 0 THEN -1 ELSE ActionIndexAt(cs.action)

\* The index of the action a call site names, or -1: it names none, or an
\* offset where no action was recorded.
FirstAction(cs) == IF cs.action <= 0 THEN -1 ELSE ActionIndexAt(cs.action - 1)

SkipCallSite ==
  /\ pc = "scope"
  /\ site <= Len(call_sites)
  /\ call_sites[site].landing_pad = 0
  /\ site' = site + 1
  /\ UNCHANGED <<data, pc, cursor, tables, action_index, handlers>>

CleanupScope ==
  /\ pc = "scope"
  /\ site <= Len(call_sites)
  /\ LET cs == call_sites[site]
     IN  /\ cs.landing_pad # 0
         /\ FirstAction(cs) = -1
         /\ scopes' = Append(scopes, ScopeOf(cs, <<Handler(0, cs)>>))
  /\ site' = site + 1
  /\ UNCHANGED <<data, pc, cursor, call_sites, actions, type_table,
                 action_index, handlers>>

\* Mutant: the handlers of the previous scope are not dropped.
BeginChainKeepsHandlers ==
  /\ pc = "scope"
  /\ site <= Len(call_sites)
  /\ LET cs == call_sites[site]
     IN  /\ cs.landing_pad # 0
         /\ FirstAction(cs) # -1
         /\ action_index' = FirstAction(cs)
  /\ pc' = "chain"
  /\ UNCHANGED <<data, cursor, tables, site, handlers>>

BeginChain ==
  /\ pc = "scope"
  /\ site <= Len(call_sites)
  /\ LET cs == call_sites[site]
     IN  /\ cs.landing_pad # 0
         /\ FirstAction(cs) # -1
         /\ action_index' = FirstAction(cs)
  /\ handlers' = <<>>
  /\ pc' = "chain"
  /\ UNCHANGED <<data, cursor, tables, site>>

FollowChain ==
  /\ pc = "chain"
  /\ action_index >= 0
  /\ LET a == actions[action_index + 1]
     IN  /\ handlers' = IF Len(handlers) < MaxHandlers
                        THEN Append(handlers, Handler(a.type, call_sites[site]))
                        ELSE handlers
         /\ action_index' = a.next_index
  /\ UNCHANGED <<data, pc, cursor, tables, site>>

EndChain ==
  /\ pc = "chain"
  /\ action_index < 0
  /\ scopes' = Append(scopes, ScopeOf(call_sites[site], handlers))
  /\ site' = site + 1
  /\ pc' = "scope"
  /\ UNCHANGED <<data, cursor, call_sites, actions, type_table,
                 action_index, handlers>>

EndScopes ==
  /\ pc = "scope"
  /\ site > Len(call_sites)
  /\ pc' = "done"
  /\ UNCHANGED <<data, cursor, tables, walk>>

-----------------------------------------------------------------------------
build_scopes ==
  \/ SkipCallSite \/ CleanupScope \/ BeginChain \/ FollowChain \/ EndChain
  \/ EndScopes

Next ==
  \/ ParseHeader \/ ParseCallSiteDescriptor \/ ParseCallSite \/ EndCallSites
  \/ ParseAction \/ EndActions
  \/ ParseType \/ EndTypes
  \/ build_scopes

\* parse() runs on one thread and is never suspended.  Fairness is asked of
\* build_scopes only: that the loops before it end is LoopsAdvance.
Spec == Init /\ [][Next]_vars /\ WF_vars(build_scopes)
-----------------------------------------------------------------------------
CallSite == [start : Word, length : Word, landing_pad : Word, action : Int]
Action   == [type : Int, next_offset : Int, entry_offset : Nat,
             next_index : Int, next_field_offset : Int]
HandlerRecord == {h \in [type : {"Catch", "Cleanup", "Filter"}, type_index : Int,
                         landing_pad : Word] : h.type = Kind(h.type_index)}
Scope    == [start : Word, end : Word, handlers : Seq(HandlerRecord)]

TypeOK ==
  /\ data \in Seq(Byte)
  /\ pc \in {"header", "call_len", "call_site", "action", "type", "scope",
             "chain", "done", "threw"}
  /\ index \in 0 .. Len(data)
  /\ tt \in [enc : Byte, start : Nat]
  /\ call \in [enc : Byte, end : 0 .. Len(data)]
  /\ actions_start \in 0 .. Len(data)
  /\ call_sites \in Seq(CallSite)
  /\ actions \in Seq(Action)
  /\ type_table \in Seq(Word)
  /\ scopes \in Seq(Scope)
  /\ site \in 1 .. Len(call_sites) + 1
  /\ action_index \in -1 .. Len(actions) - 1
  /\ handlers \in Seq(HandlerRecord)
  /\ \A k \in DOMAIN actions : actions[k].next_index \in -1 .. Len(actions) - 1
  /\ pc = "chain" => site <= Len(call_sites)

Resolved == pc \in {"type", "scope", "chain", "done"}

\* The three tables lie in the buffer one after the other: no wrapped size_t
\* sum (tt_start, call_site_end) survives the checks that follow it, so the
\* cursor never goes back over bytes already taken for another table
\* (abi_parse.cpp:263-289, 358-369).
TablesInOrder ==
  /\ pc \in {"action", "type", "scope", "chain", "done"} =>
       /\ call.end = actions_start
       /\ actions_start <= index
       /\ actions_start <= tt.start
  /\ pc = "action" => index <= ActionsLimit
  /\ Resolved => tt.start <= Len(data)
  /\ pc = "type" => tt.start <= index
  /\ pc \notin {"header", "threw"} /\ tt.enc = Omit => tt.start = Len(data)

\* The actions recorded tile the bytes of the action table read so far: each
\* begins at the offset where its predecessor ended, behind its own next
\* field, so no two share an offset and "the first action at this offset" is
\* the only one (abi_parse.cpp:375-403).
ActionsEnd == IF pc = "action" THEN index ELSE ActionsLimit

EndOf(k) ==
  IF k < Len(actions) THEN actions[k + 1].entry_offset
                      ELSE ActionsEnd - actions_start

ActionsTile ==
  /\ pc \in {"header", "call_len", "call_site"} => actions = <<>>
  /\ pc \in {"action", "type", "scope", "chain", "done"} =>
       /\ IF actions = <<>> THEN actions_start = ActionsEnd
                            ELSE actions[1].entry_offset = 0
       /\ \A k, n \in DOMAIN actions :
            k < n => actions[k].entry_offset < actions[n].entry_offset
       /\ \A k \in DOMAIN actions :
            /\ actions[k].entry_offset < EndOf(k)
            /\ \/ actions[k].next_field_offset
                     \in actions[k].entry_offset + 1 .. EndOf(k) - 1
               \/ /\ actions[k].next_field_offset = -1
                  /\ k = Len(actions)
                  /\ ActionsEnd = ActionsLimit

\* After the second pass a link is present exactly when some action was
\* recorded at entry_offset + next_offset, and then it names that action
\* (abi_parse.cpp:406-438).
LinksAreExact ==
  Resolved =>
    \A k, n \in DOMAIN actions :
      (actions[k].next_index = n - 1) <=>
        /\ actions[k].next_offset # 0
        /\ actions[n].entry_offset = actions[k].entry_offset + actions[k].next_offset

\* Links that point backwards, the only ones GCC and LLVM emit, lead to an
\* earlier record: a chain of them visits no action twice
\* (abi_parse.cpp:113-131).
BackwardLinksDescend ==
  Resolved =>
    \A k \in DOMAIN actions :
      actions[k].next_offset <= 0 => actions[k].next_index < k - 1

\* build_scopes makes one scope of every call site with a landing pad, in
\* order, with that call site's range, at least one handler, and no handler
\* of another call site's landing pad (abi_parse.cpp:67-134).
PadsBefore(n) == Cardinality({j \in 1 .. n - 1 : call_sites[j].landing_pad # 0})

ScopesMirrorCallSites ==
  /\ Len(scopes) = PadsBefore(site)
  /\ \A j \in 1 .. site - 1 :
       LET cs == call_sites[j]
           s  == scopes[PadsBefore(j) + 1]
       IN  cs.landing_pad # 0 =>
             /\ s.start = cs.start
             /\ s.handlers # <<>>
             /\ \A h \in DOMAIN s.handlers : s.handlers[h].landing_pad = cs.landing_pad

AllBackward == \A k \in DOMAIN actions : actions[k].next_offset <= 0

\* With backward links only, build_scopes ends (abi_parse.cpp:113).
BackwardChainsEnd == (pc = "scope" /\ AllBackward) ~> (pc = "done")

\* The three reading loops end: each of their iterations consumes at least one
\* byte, even with call_enc = 0xFF, where three of the four fields of a call
\* site take none (abi_parse.cpp:292-302, 359-366, 375-403).
LoopsAdvance ==
  [][pc' = pc /\ pc \in {"call_site", "action", "type"} => index' > index]_vars

\* The abstract specification of build_scopes: see ScopeTable.
ScopeTable == INSTANCE ScopeTable WITH ready <- Resolved /\ pc # "type"

\* build_scopes, step by step along its chains, implements ScopeTable.
ImplementsScopeTable == ScopeTable!Spec
=============================================================================
