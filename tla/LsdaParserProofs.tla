-------------------------- MODULE LsdaParserProofs --------------------------
(***************************************************************************)
(* What holds of LsdaParser for every byte vector and every word size.     *)
(***************************************************************************)
EXTENDS LsdaParser, Leb128Proofs, SequenceTheorems

-----------------------------------------------------------------------------
(* The reads of one record.                                                *)

\* The header decoder returns an encoding byte, an offset and a cursor in the
\* buffer.
LEMMA HeaderType ==
  ASSUME data \in Seq(Byte)
  PROVE  /\ Header.enc \in Byte
         /\ Header.off \in Word
         /\ Header.next \in 0 .. Len(data)
<1> DEFINE start == read8(data, 0)
           lp    == r_encode(data, start.next, start.val, start.next)
           enc   == read8(data, lp.next)
           off   == IF enc.val = Omit THEN Got(0, enc.next)
                                      ELSE read_uleb128(data, enc.next)
<1>1. start.next \in 0 .. Len(data) /\ start.val \in Byte
  BY Read8Type DEF IsReading
<1>2. start.val \in Int /\ start.next \in Int
  <2> HIDE DEF start
  <2>. QED BY <1>1, ByteType
<1>3. lp.next \in 0 .. Len(data)
  <2> HIDE DEF start
  <2>1. IsReading(lp, data, start.next)
    BY <1>1, <1>2, EncodedType
  <2> HIDE DEF lp
  <2>. QED BY <1>1, <2>1 DEF IsReading
<1>4. enc.next \in 0 .. Len(data) /\ enc.val \in Byte
  <2> HIDE DEF lp
  <2>1. IsReading(enc, data, lp.next) /\ enc.val \in Byte
    BY <1>3, Read8Type
  <2> HIDE DEF enc
  <2>. QED BY <1>3, <2>1 DEF IsReading
<1>5. off.next \in 0 .. Len(data) /\ off.val \in Word
  <2> HIDE DEF enc
  <2>1. IsReading(Got(0, enc.next), data, enc.next)
    <3>1. 0 \in Word /\ enc.next \in enc.next .. Len(data)
      BY <1>4, WordAssumption DEF Word
    <3>. QED BY <1>4, <3>1, GotReading
  <2>2. IsReading(read_uleb128(data, enc.next), data, enc.next)
    BY <1>4, Uleb128Type
  <2>3. IsReading(off, data, enc.next)
    BY <2>1, <2>2
  <2> HIDE DEF off
  <2>. QED BY <1>4, <2>3 DEF IsReading, Reading
<1>6. Header.enc = enc.val /\ Header.off = off.val /\ Header.next = off.next
  BY DEF Header
<1>. QED BY <1>4, <1>5, <1>6

\* A call-site record is one, and its four fields move the cursor forwards
\* even when the first three are omitted.
LEMMA CallSiteType ==
  ASSUME data \in Seq(Byte), call.enc \in Byte, NEW i \in 0 .. Len(data)
  PROVE  LET cs == CallSiteAt(i)
         IN  /\ cs.rec \in CallSite
             /\ cs.next \in i .. Len(data)
             /\ cs.ok /\ i < Len(data) => i < cs.next
<1> DEFINE start  == r_encode(data, i, call.enc, 0)
           length == r_encode(data, start.next, call.enc, 0)
           pad    == r_encode(data, length.next, call.enc, 0)
           action == read_sleb128(data, pad.next)
<1>1. call.enc \in Int /\ 0 \in Int
  BY ByteType
<1>2. start.next \in i .. Len(data) /\ start.val \in Word
  <2>1. IsReading(start, data, i)
    BY <1>1, EncodedType
  <2> HIDE DEF start
  <2>. QED BY <2>1 DEF IsReading, Reading
<1>3. length.next \in i .. Len(data) /\ length.val \in Word
  <2> HIDE DEF start
  <2>1. start.next \in 0 .. Len(data)
    BY <1>2
  <2>2. IsReading(length, data, start.next)
    BY <1>1, <2>1, EncodedType
  <2> HIDE DEF length
  <2>. QED BY <1>2, <2>2 DEF IsReading, Reading
<1>4. pad.next \in i .. Len(data) /\ pad.val \in Word
  <2> HIDE DEF length
  <2>1. length.next \in 0 .. Len(data)
    BY <1>3
  <2>2. IsReading(pad, data, length.next)
    BY <1>1, <2>1, EncodedType
  <2> HIDE DEF pad
  <2>. QED BY <1>3, <2>2 DEF IsReading, Reading
<1>5. /\ action.next \in i .. Len(data) /\ action.val \in Word
      /\ action.ok /\ i < Len(data) => i < action.next
  <2> HIDE DEF pad
  <2>1. pad.next \in 0 .. Len(data)
    BY <1>4
  <2>2. /\ IsReading(action, data, pad.next)
        /\ action.ok /\ pad.next < Len(data) => pad.next < action.next
    BY <2>1, Sleb128Type
  <2> HIDE DEF action
  <2>. QED BY <1>4, <2>2 DEF IsReading, Reading
<1>6. Signed(action.val) \in Int
  <2> HIDE DEF action
  <2>. QED BY <1>5, SignedType
<1> DEFINE cs == CallSiteAt(i)
<1>7. /\ cs.next = action.next
      /\ cs.ok => action.ok
      /\ cs.rec = [start |-> start.val, length |-> length.val,
                   landing_pad |-> pad.val, action |-> Signed(action.val)]
  BY DEF CallSiteAt
<1> HIDE DEF start, length, pad, action, cs
<1>8. cs.rec \in CallSite
  BY <1>2, <1>3, <1>4, <1>6, <1>7 DEF CallSite
<1>9. cs.next \in i .. Len(data) /\ (cs.ok /\ i < Len(data) => i < cs.next)
  BY <1>5, <1>7
<1>. QED BY <1>8, <1>9 DEF cs
\* The action table is limited by the type table and by the buffer.
LEMMA LimitType ==
  ASSUME data \in Seq(Byte), tt.start \in Nat
  PROVE  /\ ActionsLimit \in 0 .. Len(data)
         /\ ActionsLimit <= tt.start
         /\ tt.start <= Len(data) => ActionsLimit = tt.start
<1> DEFINE S == {tt.start, Len(data)}
<1>1. S \in SUBSET Nat /\ S # {}
  OBVIOUS
<1>2. Min(S) \in S /\ \A n \in S : Min(S) <= n
  <2> HIDE DEF S
  <2>. QED BY <1>1, MinOfNaturals
<1>. QED BY <1>2 DEF ActionsLimit

\* An action record that is accepted ends at or before the limit, behind the
\* byte it starts with; its next field lies inside it, or it has none and
\* ends at the limit.
LEMMA ActionType ==
  ASSUME data \in Seq(Byte), tt.start \in Nat, actions_start \in Nat,
         NEW i \in 0 .. Len(data), actions_start <= i, i < ActionsLimit
  PROVE  LET a == ActionAt(i)
         IN  /\ a.rec \in Action
             /\ a.rec.next_index = -1
             /\ a.rec.entry_offset = i - actions_start
             /\ a.next \in i .. Len(data)
             /\ a.ok => /\ i < a.next
                        /\ a.next <= ActionsLimit
                        /\ \/ a.rec.next_field_offset
                               \in i - actions_start + 1 .. a.next - actions_start - 1
                           \/ /\ a.rec.next_field_offset = -1
                              /\ a.next = ActionsLimit
<1> DEFINE type == read_sleb128(data, i)
           last == type.next = ActionsLimit
           disp == IF last THEN Got(0, type.next) ELSE read_sleb128(data, type.next)
           a    == ActionAt(i)
<1>1. ActionsLimit \in 0 .. Len(data)
  BY LimitType
<1>2. /\ type.next \in i .. Len(data) /\ type.val \in Word
      /\ type.ok => i < type.next
  <2>1. IsReading(type, data, i) /\ (type.ok /\ i < Len(data) => i < type.next)
    BY Sleb128Type
  <2> HIDE DEF type
  <2>. QED BY <1>1, <2>1 DEF IsReading, Reading
<1>3. /\ disp.next \in type.next .. Len(data) /\ disp.val \in Word
      /\ last => disp.next = ActionsLimit
      /\ disp.ok /\ ~last /\ type.next < Len(data) => type.next < disp.next
  <2> HIDE DEF type
  <2>1. type.next \in 0 .. Len(data) /\ 0 \in Word
    BY <1>2, WordAssumption DEF Word
  <2>2. CASE last
    BY <2>1, <2>2, <1>2 DEF Got
  <2>3. CASE ~last
    <3>1. /\ IsReading(read_sleb128(data, type.next), data, type.next)
          /\ read_sleb128(data, type.next).ok /\ type.next < Len(data)
               => type.next < read_sleb128(data, type.next).next
      BY <2>1, Sleb128Type
    <3>. QED BY <2>3, <3>1 DEF IsReading, Reading
  <2>. QED BY <2>2, <2>3
<1>4. Signed(type.val) \in Int /\ Signed(disp.val) \in Int
  <2> HIDE DEF type, disp
  <2>. QED BY <1>2, <1>3, SignedType
<1>5. /\ a.next = disp.next
      /\ a.ok <=> type.ok /\ disp.ok /\ disp.next <= ActionsLimit
      /\ a.rec = [type              |-> Signed(type.val),
                  next_offset       |-> Signed(disp.val),
                  entry_offset      |-> i - actions_start,
                  next_index        |-> -1,
                  next_field_offset |-> IF last THEN -1
                                        ELSE type.next - actions_start]
  BY DEF ActionAt
<1> HIDE DEF type, disp, a
<1>6. a.rec \in Action
  BY <1>2, <1>4, <1>5 DEF Action
<1>7. a.rec.next_index = -1 /\ a.rec.entry_offset = i - actions_start
  BY <1>5
<1>8. ASSUME a.ok
      PROVE  /\ i < a.next
             /\ a.next <= ActionsLimit
             /\ \/ a.rec.next_field_offset
                      \in i - actions_start + 1 .. a.next - actions_start - 1
                \/ /\ a.rec.next_field_offset = -1
                   /\ a.next = ActionsLimit
  <2>1. CASE last
    BY <2>1, <1>1, <1>2, <1>3, <1>5, <1>8
  <2>2. CASE ~last
    <3>1. type.next <= disp.next /\ disp.next <= ActionsLimit /\ type.next # ActionsLimit
      BY <2>2, <1>2, <1>3, <1>5, <1>8
    <3>2. type.next < Len(data)
      BY <3>1, <1>1, <1>2, <1>3
    <3>3. i < type.next /\ type.next < disp.next
      BY <2>2, <3>2, <1>2, <1>3, <1>5, <1>8
    <3>4. a.rec.next_field_offset = type.next - actions_start
      BY <2>2, <1>5
    <3>. QED BY <3>1, <3>3, <3>4, <1>1, <1>2, <1>3, <1>5
  <2>. QED BY <2>1, <2>2
<1>9. a.next \in i .. Len(data)
  BY <1>2, <1>3, <1>5
<1>. QED BY <1>6, <1>7, <1>8, <1>9 DEF a

\* Looking an offset up yields an action recorded there, or -1 if none is.
LEMMA ActionIndexType ==
  ASSUME actions \in Seq(Action), NEW offset \in Int
  PROVE  LET r == ActionIndexAt(offset)
         IN  /\ r \in -1 .. Len(actions) - 1
             /\ r # -1 => actions[r + 1].entry_offset = offset
             /\ r = -1 => \A k \in DOMAIN actions : actions[k].entry_offset # offset
<1> DEFINE here == {k \in DOMAIN actions : actions[k].entry_offset = offset}
<1>1. here \in SUBSET Nat /\ here \subseteq 1 .. Len(actions)
  OBVIOUS
<1>2. CASE here = {}
  BY <1>2 DEF ActionIndexAt
<1>3. CASE here # {}
  <2>1. Min(here) \in here
    <3> HIDE DEF here
    <3>. QED BY <1>1, <1>3, MinOfNaturals
  <2>2. ActionIndexAt(offset) = Min(here) - 1
    BY <1>3 DEF ActionIndexAt
  <2>3. Min(here) \in 1 .. Len(actions) /\ actions[Min(here)].entry_offset = offset
    BY <2>1
  <2> HIDE DEF here
  <2>. QED BY <2>2, <2>3
<1>. QED BY <1>2, <1>3
\* The second pass changes no action but in its next_index, which it sets to
\* the index of an action or to -1.
LEMMA ResolveType ==
  ASSUME actions \in Seq(Action), EndActions, pc' # "threw"
  PROVE  /\ actions' \in Seq(Action)
         /\ DOMAIN actions' = DOMAIN actions /\ Len(actions') = Len(actions)
         /\ \A k \in DOMAIN actions :
              /\ actions'[k] = [actions[k] EXCEPT !.next_index = NextIndex(actions[k])]
              /\ NextIndex(actions[k]) \in -1 .. Len(actions) - 1
<1> DEFINE new == [k \in DOMAIN actions |->
                    [actions[k] EXCEPT !.next_index = NextIndex(actions[k])]]
<1>1. actions' = new
  BY DEF EndActions, Throw
<1>2. ASSUME NEW k \in DOMAIN actions
      PROVE  NextIndex(actions[k]) \in -1 .. Len(actions) - 1
  <2>1. actions[k] \in Action
    BY <1>2
  <2>2. actions[k].entry_offset + actions[k].next_offset \in Int
    BY <2>1 DEF Action
  <2>3. -1 \in -1 .. Len(actions) - 1
    OBVIOUS
  <2>4. ActionIndexAt(actions[k].entry_offset + actions[k].next_offset)
          \in -1 .. Len(actions) - 1
    BY <2>2, ActionIndexType
  <2>. QED BY <2>3, <2>4 DEF NextIndex
<1>3. \A k \in DOMAIN actions : new[k] \in Action
  <2> SUFFICES ASSUME NEW k \in DOMAIN actions PROVE new[k] \in Action
    OBVIOUS
  <2>1. actions[k] \in Action /\ NextIndex(actions[k]) \in Int
    BY <1>2
  <2>2. new[k] = [actions[k] EXCEPT !.next_index = NextIndex(actions[k])]
    OBVIOUS
  <2> HIDE DEF new
  <2>. QED BY <2>1, <2>2 DEF Action
<1>4. new \in Seq(Action) /\ DOMAIN new = DOMAIN actions /\ Len(new) = Len(actions)
  <2>1. DOMAIN actions = 1 .. Len(actions) /\ Len(actions) \in Nat
    OBVIOUS
  <2>2. new = [k \in 1 .. Len(actions) |-> new[k]]
    BY <2>1
  <2> HIDE DEF new
  <2>3. [k \in 1 .. Len(actions) |-> new[k]] \in Seq(Action)
    BY <1>3, <2>1
  <2>4. DOMAIN new = 1 .. Len(actions)
    BY <2>2
  <2>. QED BY <2>1, <2>2, <2>3, <2>4, LenProperties
<1>. QED BY <1>1, <1>2, <1>4
-----------------------------------------------------------------------------
(* Type correctness.                                                       *)

\* A handler made for a call site's landing pad, and a scope made of handlers.
LEMMA HandlerType ==
  ASSUME NEW type \in Int, NEW cs \in CallSite
  PROVE  Handler(type, cs) \in HandlerRecord
BY DEF Handler, HandlerRecord, Kind, CallSite

LEMMA ScopeType ==
  ASSUME NEW cs \in CallSite, NEW hs \in Seq(HandlerRecord)
  PROVE  ScopeOf(cs, hs) \in Scope
<1>1. cs.start \in Word /\ cs.start + cs.length \in Int
  BY DEF CallSite, Word
<1>2. (cs.start + cs.length) % WordSize \in Word
  BY <1>1, ModWord
<1>. QED BY <1>1, <1>2 DEF ScopeOf, Scope

LEMMA InitType == Init => TypeOK
<1> SUFFICES ASSUME Init PROVE TypeOK
  OBVIOUS
<1>1. data \in Seq(Byte) /\ Len(data) \in Nat
  BY InputsAssumption DEF Init
<1>2. Omit \in Byte /\ 0 \in 0 .. Len(data)
  BY <1>1 DEF Omit, Byte
<1>3. tt \in [enc : Byte, start : Nat] /\ call \in [enc : Byte, end : 0 .. Len(data)]
  BY <1>2 DEF Init
<1>. QED BY <1>1, <1>2, <1>3 DEF Init, TypeOK

\* Every step keeps the variables in their types, from the sizes of the
\* records it reads (HeaderType, CallSiteType, ActionType, EncodedType); an
\* entry offset is not negative because the action table is read forwards.
LEMMA NextType == TypeOK /\ TablesInOrder /\ [Next]_vars => TypeOK'
<1> SUFFICES ASSUME TypeOK, TablesInOrder, [Next]_vars PROVE TypeOK'
  OBVIOUS
<1> USE DEF cursor, tables, walk
<1>0. /\ data \in Seq(Byte) /\ Len(data) \in Nat
      /\ call.enc \in Byte /\ tt.enc \in Byte /\ tt.enc \in Int /\ tt.start \in Nat
  BY ByteType DEF TypeOK
<1>1. CASE pc' = "threw" /\ Throw
  BY <1>1 DEF TypeOK, Throw
<1>2. CASE ParseHeader /\ ~Throw
  <2>1. /\ index' = Header.next
        /\ tt' = [enc   |-> Header.enc,
                  start |-> IF Header.enc = Omit
                            THEN Len(data)
                            ELSE (Header.next + Header.off) % WordSize]
        /\ pc' = "call_len"
        /\ UNCHANGED <<data, call, actions_start, tables, walk>>
    BY <1>2 DEF ParseHeader
  <2>2. /\ Header.enc \in Byte /\ Header.off \in Word
        /\ Header.next \in 0 .. Len(data)
    BY <1>0, HeaderType
  <2>3. (Header.next + Header.off) % WordSize \in Nat
    <3>1. Header.next + Header.off \in Int
      BY <2>2 DEF Word
    <3>2. (Header.next + Header.off) % WordSize \in Word
      BY <3>1, ModWord
    <3>. QED BY <3>2 DEF Word
  <2>4. tt' \in [enc : Byte, start : Nat]
    BY <2>1, <2>2, <2>3, <1>0
  <2>. QED BY <2>1, <2>2, <2>4 DEF TypeOK
<1>3. CASE ParseCallSiteDescriptor /\ ~Throw
  <2> DEFINE enc == read8(data, index)
             len == read_uleb128(data, enc.next)
             end == (len.next + len.val) % WordSize
  <2>1. /\ end <= Len(data)
        /\ index' = len.next
        /\ call' = [enc |-> enc.val, end |-> end]
        /\ pc' = "call_site"
        /\ UNCHANGED <<data, tt, actions_start, tables, walk>>
    BY <1>3 DEF ParseCallSiteDescriptor
  <2>2. enc.val \in Byte /\ enc.next \in 0 .. Len(data)
    <3>1. index \in 0 .. Len(data)
      BY DEF TypeOK
    <3>2. IsReading(enc, data, index) /\ enc.val \in Byte
      BY <1>0, <3>1, Read8Type
    <3> HIDE DEF enc
    <3>. QED BY <3>1, <3>2 DEF IsReading
  <2>3. len.next \in 0 .. Len(data) /\ len.val \in Word
    <3> HIDE DEF enc
    <3>1. IsReading(len, data, enc.next)
      BY <1>0, <2>2, Uleb128Type
    <3> HIDE DEF len
    <3>. QED BY <2>2, <3>1 DEF IsReading, Reading
  <2>4. end \in Word
    <3> HIDE DEF len
    <3>1. len.next + len.val \in Int
      BY <2>3 DEF Word
    <3>. QED BY <3>1, ModWord
  <2> HIDE DEF enc, len, end
  <2>5. call' \in [enc : Byte, end : 0 .. Len(data)]
    BY <2>1, <2>2, <2>4, <1>0 DEF Word
  <2>. QED BY <2>1, <2>3, <2>5 DEF TypeOK
<1>4. CASE ParseCallSite /\ ~Throw
  <2> DEFINE cs == CallSiteAt(index)
  <2>1. /\ index' = cs.next
        /\ call_sites' = Append(call_sites, cs.rec)
        /\ UNCHANGED <<data, pc, tt, call, actions_start,
                       actions, type_table, scopes, walk>>
    BY <1>4 DEF ParseCallSite
  <2>2. cs.rec \in CallSite /\ cs.next \in 0 .. Len(data)
    <3>1. index \in 0 .. Len(data)
      BY DEF TypeOK
    <3>2. cs.rec \in CallSite /\ cs.next \in index .. Len(data)
      BY <1>0, <3>1, CallSiteType
    <3> HIDE DEF cs
    <3>. QED BY <3>1, <3>2
  <2> HIDE DEF cs
  <2>3. call_sites' \in Seq(CallSite) /\ Len(call_sites') = Len(call_sites) + 1
    BY <2>1, <2>2 DEF TypeOK
  <2>. QED BY <2>1, <2>2, <2>3 DEF TypeOK
<1>5. CASE EndCallSites /\ ~Throw
  BY <1>5 DEF EndCallSites, TypeOK
<1>6. CASE ParseAction /\ ~Throw
  <2> DEFINE a == ActionAt(index)
  <2>1. /\ index' = a.next
        /\ actions' = Append(actions, a.rec)
        /\ UNCHANGED <<data, pc, tt, call, actions_start,
                       call_sites, type_table, scopes, walk>>
    BY <1>6 DEF ParseAction
  <2>2. a.rec \in Action /\ a.rec.next_index = -1 /\ a.next \in 0 .. Len(data)
    <3>1. index \in 0 .. Len(data) /\ actions_start \in Nat
      BY DEF TypeOK
    <3>2. actions_start <= index /\ index < ActionsLimit
      BY <1>6 DEF ParseAction, TablesInOrder
    <3>3. /\ a.rec \in Action /\ a.rec.next_index = -1
          /\ a.next \in index .. Len(data)
      BY <1>0, <3>1, <3>2, ActionType
    <3> HIDE DEF a
    <3>. QED BY <3>1, <3>3
  <2> HIDE DEF a
  <2>3. /\ actions' \in Seq(Action) /\ Len(actions') = Len(actions) + 1
        /\ Len(actions) \in Nat
        /\ \A k \in DOMAIN actions' :
             actions'[k] = IF k \in DOMAIN actions THEN actions[k] ELSE a.rec
    <3>1. actions \in Seq(Action)
      BY DEF TypeOK
    <3>. QED BY <2>1, <2>2, <3>1, AppendProperties
  <2>4. \A k \in DOMAIN actions' : actions'[k].next_index \in -1 .. Len(actions') - 1
    <3> SUFFICES ASSUME NEW k \in DOMAIN actions'
                 PROVE  actions'[k].next_index \in -1 .. Len(actions)
      BY <2>3
    <3>1. \A n \in DOMAIN actions : actions[n].next_index \in -1 .. Len(actions) - 1
      BY DEF TypeOK
    <3>2. CASE k \in DOMAIN actions
      BY <2>3, <3>1, <3>2
    <3>3. CASE k \notin DOMAIN actions
      BY <2>2, <2>3, <3>3
    <3>. QED BY <3>2, <3>3
  <2>5. action_index \in -1 .. Len(actions') - 1
    BY <2>3 DEF TypeOK
  <2> HIDE DEF cursor, tables
  <2>. QED BY <2>1, <2>2, <2>3, <2>4, <2>5 DEF TypeOK, walk
<1>7. CASE EndActions /\ ~Throw
  <2>1. /\ tt.enc = Omit \/ tt.start <= Len(data)
        /\ pc' \in {"scope", "type"}
        /\ index' = IF tt.enc = Omit THEN index ELSE tt.start
        /\ UNCHANGED <<data, tt, call, actions_start,
                       call_sites, type_table, scopes, walk>>
    BY <1>7 DEF EndActions
  <2>2. /\ actions' \in Seq(Action)
        /\ DOMAIN actions' = DOMAIN actions /\ Len(actions') = Len(actions)
        /\ \A k \in DOMAIN actions :
             /\ actions'[k] = [actions[k] EXCEPT !.next_index = NextIndex(actions[k])]
             /\ NextIndex(actions[k]) \in -1 .. Len(actions) - 1
    <3>1. actions \in Seq(Action) /\ EndActions /\ pc' # "threw"
      BY <1>7, <2>1 DEF TypeOK
    <3>. QED BY <3>1, ResolveType
  <2>3. \A k \in DOMAIN actions' : actions'[k].next_index \in -1 .. Len(actions') - 1
    <3> SUFFICES ASSUME NEW k \in DOMAIN actions
                 PROVE  actions'[k].next_index \in -1 .. Len(actions) - 1
      BY <2>2
    <3>1. actions[k] \in Action
      BY DEF TypeOK
    <3>2. actions'[k].next_index = NextIndex(actions[k])
      BY <2>2, <3>1 DEF Action
    <3>. QED BY <2>2, <3>2
  <2>4. index' \in 0 .. Len(data)
    BY <2>1, <1>0 DEF TypeOK
  <2>. QED BY <2>1, <2>2, <2>3, <2>4 DEF TypeOK
<1>8. CASE ParseType
  <2> DEFINE type == r_encode(data, index, tt.enc, 0)
  <2>1. /\ \/ index' = type.next /\ type_table' = Append(type_table, type.val)
              /\ UNCHANGED pc
           \/ pc' = "scope" /\ UNCHANGED <<index, type_table>>
        /\ UNCHANGED <<data, tt, call, actions_start, call_sites, actions, scopes, walk>>
        /\ pc = "type"
    BY <1>8 DEF ParseType
  <2>2. type.next \in 0 .. Len(data) /\ type.val \in Word
    <3>1. index \in 0 .. Len(data) /\ 0 \in Int
      BY DEF TypeOK
    <3>2. IsReading(type, data, index)
      BY <1>0, <3>1, EncodedType
    <3> HIDE DEF type
    <3>. QED BY <3>1, <3>2 DEF IsReading, Reading
  <2> HIDE DEF type
  <2>3. type_table' \in Seq(Word) /\ index' \in 0 .. Len(data) /\ pc' \in {"type", "scope"}
    <3>1. type_table \in Seq(Word) /\ index \in 0 .. Len(data)
      BY DEF TypeOK
    <3>2. Append(type_table, type.val) \in Seq(Word)
      BY <2>2, <3>1
    <3>. QED BY <2>1, <2>2, <3>1, <3>2
  <2>4. UNCHANGED <<data, tt, call, actions_start, call_sites, actions, scopes,
                    site, action_index, handlers>>
    BY <2>1
  <2>. QED BY <2>3, <2>4 DEF TypeOK
<1>9. CASE EndTypes \/ EndScopes \/ SkipCallSite
  <2>1. CASE EndTypes \/ EndScopes
    BY <2>1 DEF EndTypes, EndScopes, TypeOK
  <2>2. CASE SkipCallSite
    BY <2>2 DEF SkipCallSite, TypeOK
  <2>. QED BY <1>9, <2>1, <2>2
<1>10. CASE CleanupScope
  <2> DEFINE cs == call_sites[site]
  <2>1. /\ scopes' = Append(scopes, ScopeOf(cs, <<Handler(0, cs)>>))
        /\ site' = site + 1 /\ site <= Len(call_sites)
        /\ UNCHANGED <<data, pc, cursor, call_sites, actions, type_table,
                       action_index, handlers>>
        /\ pc = "scope"
    BY <1>10 DEF CleanupScope
  <2>2. cs \in CallSite
    <3>1. call_sites \in Seq(CallSite) /\ site \in 1 .. Len(call_sites) + 1
      BY DEF TypeOK
    <3>2. site \in 1 .. Len(call_sites)
      BY <2>1, <3>1
    <3>. QED BY <3>1, <3>2
  <2>3. <<Handler(0, cs)>> \in Seq(HandlerRecord)
    BY <2>2, HandlerType
  <2>4. ScopeOf(cs, <<Handler(0, cs)>>) \in Scope
    BY <2>2, <2>3, ScopeType
  <2> HIDE DEF cs
  <2>5. scopes' \in Seq(Scope)
    BY <2>1, <2>4 DEF TypeOK
  <2>. QED BY <2>1, <2>5 DEF TypeOK
<1>11. CASE BeginChain
  <2> DEFINE cs == call_sites[site]
  <2>1. /\ action_index' = FirstAction(cs)
        /\ handlers' = <<>> /\ pc' = "chain" /\ site <= Len(call_sites)
        /\ UNCHANGED <<data, cursor, tables, site>>
    BY <1>11 DEF BeginChain
  <2>2. cs \in CallSite
    BY <2>1 DEF TypeOK
  <2>3. FirstAction(cs) \in -1 .. Len(actions) - 1
    <3>1. cs.action - 1 \in Int /\ actions \in Seq(Action)
      <4>1. cs.action \in Int
        BY <2>2 DEF CallSite
      <4> QED BY <4>1 DEF TypeOK
    <3>2. ActionIndexAt(cs.action - 1) \in -1 .. Len(actions) - 1
      BY <3>1, ActionIndexType
    <3>3. -1 \in -1 .. Len(actions) - 1
      BY <3>1
    <3>. QED BY <3>2, <3>3 DEF FirstAction
  <2> HIDE DEF cs
  <2>. QED BY <2>1, <2>3 DEF TypeOK
<1>12. CASE FollowChain
  <2> DEFINE a == actions[action_index + 1]
             h == Handler(a.type, call_sites[site])
  <2>1. /\ action_index >= 0 /\ pc = "chain"
        /\ handlers' = IF Len(handlers) < MaxHandlers THEN Append(handlers, h)
                                                      ELSE handlers
        /\ action_index' = a.next_index
        /\ UNCHANGED <<data, pc, cursor, tables, site>>
    BY <1>12 DEF FollowChain
  <2>2. action_index + 1 \in DOMAIN actions /\ a \in Action
    BY <2>1 DEF TypeOK
  <2>3. h \in HandlerRecord
    <3>1. a.type \in Int
      BY <2>2 DEF Action
    <3>2. call_sites[site] \in CallSite
      BY <2>1 DEF TypeOK
    <3>. QED BY <3>1, <3>2, HandlerType
  <2>4. action_index' \in -1 .. Len(actions) - 1
    BY <2>1, <2>2 DEF TypeOK
  <2> HIDE DEF h, a
  <2>5. handlers' \in Seq(HandlerRecord)
    BY <2>1, <2>3 DEF TypeOK
  <2>. QED BY <2>1, <2>4, <2>5 DEF TypeOK
<1>13. CASE EndChain
  <2> DEFINE sc == ScopeOf(call_sites[site], handlers)
  <2>1. /\ scopes' = Append(scopes, sc) /\ site' = site + 1 /\ pc' = "scope"
        /\ pc = "chain"
        /\ UNCHANGED <<data, cursor, call_sites, actions, type_table,
                       action_index, handlers>>
    BY <1>13 DEF EndChain
  <2>2. sc \in Scope
    <3>1. call_sites[site] \in CallSite /\ handlers \in Seq(HandlerRecord)
      BY <2>1 DEF TypeOK
    <3>. QED BY <3>1, ScopeType
  <2> HIDE DEF sc
  <2>3. scopes' \in Seq(Scope) /\ site' \in 1 .. Len(call_sites') + 1
    BY <2>1, <2>2 DEF TypeOK
  <2>. QED BY <2>1, <2>3 DEF TypeOK
<1>14. CASE UNCHANGED vars
  BY <1>14 DEF vars, TypeOK
<1>15. Throw => pc' = "threw"
  BY DEF Throw
<1>. QED BY <1>1, <1>2, <1>3, <1>4, <1>5, <1>6, <1>7, <1>8, <1>9, <1>10, <1>11,
            <1>12, <1>13, <1>14, <1>15 DEF Next, build_scopes
-----------------------------------------------------------------------------
(* The order of the tables.                                                *)

\* What the steps after the action table do to it: nothing.
LEMMA ScopeStepsKeepTables ==
  build_scopes \/ ParseType \/ EndTypes \/ UNCHANGED vars =>
    UNCHANGED <<data, tt, call, actions_start, actions>>
BY DEF build_scopes, SkipCallSite, CleanupScope, BeginChain, FollowChain, EndChain,
       EndScopes, ParseType, EndTypes, vars, cursor, tables, walk

\* Where they can be and where they lead.
LEMMA ScopeStepsStayResolved ==
  build_scopes \/ ParseType \/ EndTypes =>
    /\ pc \in {"type", "scope", "chain"}
    /\ pc' \in {"type", "scope", "chain", "done"}
    /\ pc' = "type" => pc = "type" /\ ParseType
    /\ ~ParseType => UNCHANGED index
BY DEF build_scopes, SkipCallSite, CleanupScope, BeginChain, FollowChain, EndChain,
       EndScopes, ParseType, EndTypes, cursor, tables, walk

\* The step that reads an action keeps within the limit.
LEMMA ParseActionType ==
  ASSUME TypeOK, TablesInOrder, ParseAction, ~Throw
  PROVE  LET a == ActionAt(index)
         IN  /\ pc = "action" /\ pc' = pc
             /\ a.rec \in Action
             /\ a.rec.next_index = -1
             /\ a.rec.entry_offset = index - actions_start
             /\ index < index' /\ index' <= ActionsLimit /\ index' \in Nat
             /\ \/ a.rec.next_field_offset
                     \in index - actions_start + 1 .. index' - actions_start - 1
                \/ a.rec.next_field_offset = -1 /\ index' = ActionsLimit
             /\ actions' = Append(actions, a.rec)
             /\ UNCHANGED <<data, tt, call, actions_start>>
<1> DEFINE a == ActionAt(index)
<1>1. /\ pc = "action" /\ pc' = pc /\ index < ActionsLimit
      /\ a.ok /\ index' = a.next /\ actions' = Append(actions, a.rec)
      /\ UNCHANGED <<data, tt, call, actions_start>>
  BY DEF ParseAction
<1>2. /\ data \in Seq(Byte) /\ tt.start \in Nat /\ actions_start \in Nat
      /\ index \in 0 .. Len(data) /\ actions_start <= index
  BY <1>1 DEF TypeOK, TablesInOrder
<1>3. /\ a.rec \in Action
      /\ a.rec.next_index = -1
      /\ a.rec.entry_offset = index - actions_start
      /\ a.next \in index .. Len(data)
      /\ a.ok => /\ index < a.next
                 /\ a.next <= ActionsLimit
                 /\ \/ a.rec.next_field_offset
                        \in index - actions_start + 1 .. a.next - actions_start - 1
                    \/ /\ a.rec.next_field_offset = -1
                       /\ a.next = ActionsLimit
  BY <1>1, <1>2, ActionType
<1>4. a.next \in Nat
  BY <1>2, <1>3
<1>. QED BY <1>1, <1>3, <1>4

LEMMA InitOrder == Init => TablesInOrder
BY DEF Init, TablesInOrder, Resolved

\* A sum that wrapped around would have to pass one of the checks behind it.
LEMMA NextOrder == TypeOK /\ TablesInOrder /\ [Next]_vars => TablesInOrder'
<1> SUFFICES ASSUME TypeOK, TablesInOrder, [Next]_vars PROVE TablesInOrder'
  OBVIOUS
<1> USE DEF cursor, tables, walk
<1>0. /\ data \in Seq(Byte) /\ Len(data) \in Nat /\ tt.start \in Nat
      /\ index \in Nat /\ actions_start \in Nat
      /\ ActionsLimit \in 0 .. Len(data)
      /\ ActionsLimit <= tt.start
      /\ tt.start <= Len(data) => ActionsLimit = tt.start
  BY LimitType DEF TypeOK
<1>1. CASE Throw
  BY <1>1 DEF Throw, TablesInOrder, Resolved
<1>2. CASE ParseHeader /\ ~Throw
  <2>1. pc' = "call_len" /\ data' = data
        /\ (tt'.enc = Omit => tt'.start = Len(data))
    BY <1>2 DEF ParseHeader
  <2>. QED BY <2>1 DEF TablesInOrder, Resolved
<1>3. CASE ParseCallSiteDescriptor /\ ~Throw
  <2>1. pc = "call_len" /\ pc' = "call_site" /\ UNCHANGED <<data, tt>>
    BY <1>3 DEF ParseCallSiteDescriptor
  <2>. QED BY <2>1 DEF TablesInOrder, Resolved
<1>4. CASE ParseCallSite /\ ~Throw
  <2>1. pc = "call_site" /\ pc' = "call_site" /\ UNCHANGED <<data, tt>>
    BY <1>4 DEF ParseCallSite
  <2>. QED BY <2>1 DEF TablesInOrder, Resolved
<1>5. CASE EndCallSites /\ ~Throw
  <2>1. /\ pc = "call_site" /\ pc' = "action" /\ UNCHANGED <<data, index, tt, call>>
        /\ index = call.end /\ index <= ActionsLimit /\ actions_start' = index
    BY <1>5 DEF EndCallSites
  <2>2. ActionsLimit' = ActionsLimit
    BY <2>1 DEF ActionsLimit
  <2>. QED BY <2>1, <2>2, <1>0 DEF TablesInOrder, Resolved
<1>6. CASE ParseAction /\ ~Throw
  <2>1. /\ pc = "action" /\ pc' = pc /\ index < index' /\ index' <= ActionsLimit
        /\ index' \in Nat
        /\ UNCHANGED <<data, tt, call, actions_start>>
    BY <1>6, ParseActionType
  <2>2. ActionsLimit' = ActionsLimit
    BY <2>1 DEF ActionsLimit
  <2>. QED BY <2>1, <2>2, <1>0 DEF TablesInOrder, Resolved
<1>7. CASE EndActions /\ ~Throw
  <2>1. /\ pc = "action"
        /\ pc' = IF tt.enc = Omit THEN "scope" ELSE "type"
        /\ index' = IF tt.enc = Omit THEN index ELSE tt.start
        /\ tt.enc = Omit \/ tt.start <= Len(data)
        /\ UNCHANGED <<data, tt, call, actions_start>>
    BY <1>7 DEF EndActions
  <2>. QED BY <2>1, <1>0 DEF TablesInOrder, Resolved
<1>8. CASE build_scopes \/ ParseType \/ EndTypes
  <2>1. /\ UNCHANGED <<data, tt, call, actions_start>>
        /\ pc \in {"type", "scope", "chain"}
        /\ pc' \in {"type", "scope", "chain", "done"}
        /\ pc' = "type" => pc = "type"
    BY <1>8, ScopeStepsKeepTables, ScopeStepsStayResolved
  <2>2. index <= index' /\ index' \in Int
    <3>1. CASE ParseType
      <4> DEFINE type == r_encode(data, index, tt.enc, 0)
      <4>1. \/ index' = type.next /\ type.next > index
            \/ UNCHANGED index
        BY <3>1 DEF ParseType
      <4>2. TypeOK'
        BY NextType
      <4>3. index' \in Int
        BY <4>2 DEF TypeOK
      <4> HIDE DEF type
      <4>. QED BY <4>1, <4>3, <1>0
    <3>2. CASE ~ParseType
      <4>1. UNCHANGED index
        BY <1>8, <3>2, ScopeStepsStayResolved
      <4>. QED BY <4>1, <1>0
    <3>. QED BY <3>1, <3>2
  <2>. QED BY <2>1, <2>2, <1>0 DEF TablesInOrder, Resolved
<1>9. CASE UNCHANGED vars
  BY <1>9 DEF vars, TablesInOrder, Resolved, ActionsLimit
<1>. QED BY <1>1, <1>2, <1>3, <1>4, <1>5, <1>6, <1>7, <1>8, <1>9 DEF Next
-----------------------------------------------------------------------------
(* The tiling of the action table.                                         *)

LEMMA InitTile == Init => ActionsTile
BY DEF Init, ActionsTile

\* One more record: it begins where the table read so far ends, so it lies
\* behind every record before it.
LEMMA ParseActionTile ==
  ASSUME TypeOK, TablesInOrder, ActionsTile, ParseAction, ~Throw
  PROVE  ActionsTile'
<1> DEFINE rec == ActionAt(index).rec
<1>1. /\ pc = "action" /\ pc' = "action"
      /\ rec \in Action /\ rec.entry_offset = index - actions_start
      /\ index < index' /\ index' <= ActionsLimit /\ index' \in Nat
      /\ \/ rec.next_field_offset
               \in index - actions_start + 1 .. index' - actions_start - 1
         \/ rec.next_field_offset = -1 /\ index' = ActionsLimit
      /\ actions' = Append(actions, rec)
      /\ UNCHANGED <<data, tt, call, actions_start>>
  BY ParseActionType
<1>2. /\ ActionsLimit' = ActionsLimit
      /\ index \in Nat /\ actions_start \in Nat /\ index < ActionsLimit
      /\ actions_start <= index
  BY <1>1 DEF ActionsLimit, ParseAction, TypeOK, TablesInOrder
<1> HIDE DEF rec
<1>3. /\ actions \in Seq(Action) /\ Len(actions) \in Nat
      /\ DOMAIN actions = 1 .. Len(actions)
      /\ \A k \in DOMAIN actions : actions[k] \in Action
  BY DEF TypeOK
<1>4. /\ actions' \in Seq(Action) /\ Len(actions') = Len(actions) + 1
      /\ DOMAIN actions' = 1 .. Len(actions) + 1
      /\ \A k \in DOMAIN actions : actions'[k] = actions[k]
      /\ actions'[Len(actions) + 1] = rec
  BY <1>1, <1>3, AppendProperties
<1>5. /\ ActionsEnd = index /\ ActionsEnd' = index'
      /\ \A k \in DOMAIN actions : EndOf(k) = actions'[k + 1].entry_offset
  <2>1. ActionsEnd = index /\ ActionsEnd' = index'
    BY <1>1 DEF ActionsEnd
  <2>2. ASSUME NEW k \in DOMAIN actions
        PROVE  EndOf(k) = actions'[k + 1].entry_offset
    <3>1. CASE k < Len(actions)
      <4>1. k + 1 \in DOMAIN actions
        BY <3>1, <1>3
      <4>. QED BY <3>1, <4>1, <1>4 DEF EndOf
    <3>2. CASE ~(k < Len(actions))
      <4>1. k = Len(actions)
        BY <3>2, <1>3
      <4>. QED BY <3>2, <4>1, <2>1, <1>1, <1>4 DEF EndOf
    <3>. QED BY <3>1, <3>2
  <2>. QED BY <2>1, <2>2
<1>6. ASSUME NEW k \in DOMAIN actions
      PROVE  EndOf(k)' = EndOf(k)
  <2>1. k < Len(actions')
    BY <1>3, <1>4
  <2>. QED BY <2>1, <1>5 DEF EndOf
<1>7. /\ IF actions = <<>> THEN actions_start = index ELSE actions[1].entry_offset = 0
      /\ \A k, n \in DOMAIN actions :
           k < n => actions[k].entry_offset < actions[n].entry_offset
      /\ \A k \in DOMAIN actions :
           /\ actions[k].entry_offset < EndOf(k)
           /\ \/ actions[k].next_field_offset
                    \in actions[k].entry_offset + 1 .. EndOf(k) - 1
              \/ /\ actions[k].next_field_offset = -1
                 /\ k = Len(actions)
                 /\ index = ActionsLimit
  BY <1>1, <1>5 DEF ActionsTile
<1>8. \A k \in DOMAIN actions : actions[k].entry_offset < index - actions_start
  <2> SUFFICES ASSUME NEW k \in DOMAIN actions
               PROVE  actions[k].entry_offset < index - actions_start
    OBVIOUS
  <2>1. Len(actions) \in DOMAIN actions
    BY <1>3
  <2>2. actions[Len(actions)].entry_offset < index - actions_start
    BY <2>1, <1>5, <1>7 DEF EndOf
  <2>3. /\ actions[k].entry_offset \in Nat
        /\ actions[Len(actions)].entry_offset \in Nat
    BY <2>1, <1>3 DEF Action
  <2>4. actions[k].entry_offset <= actions[Len(actions)].entry_offset
    <3>1. CASE k = Len(actions)
      BY <3>1, <2>3
    <3>2. CASE k < Len(actions)
      <4>1. actions[k].entry_offset < actions[Len(actions)].entry_offset
        BY <3>2, <2>1, <1>7
      <4>. QED BY <4>1, <2>3
    <3>. QED BY <3>1, <3>2, <1>3
  <2>. QED BY <2>2, <2>3, <2>4, <1>2
<1>9. actions' # <<>> /\ actions'[1].entry_offset = 0
  <2>1. CASE actions = <<>>
    <3>1. Len(actions) = 0
      BY <2>1
    <3>. QED BY <2>1, <3>1, <1>1, <1>2, <1>4, <1>7
  <2>2. CASE actions # <<>>
    <3>1. 1 \in DOMAIN actions
      BY <2>2, <1>3
    <3>. QED BY <2>2, <3>1, <1>4, <1>7
  <2>. QED BY <2>1, <2>2
<1>10. ASSUME NEW k \in DOMAIN actions', NEW n \in DOMAIN actions', k < n
       PROVE  actions'[k].entry_offset < actions'[n].entry_offset
  <2>1. k \in DOMAIN actions
    BY <1>3, <1>4, <1>10
  <2>2. CASE n \in DOMAIN actions
    BY <2>1, <2>2, <1>4, <1>7, <1>10
  <2>3. CASE n = Len(actions) + 1
    BY <2>1, <2>3, <1>1, <1>4, <1>8
  <2>. QED BY <2>2, <2>3, <1>3, <1>4
<1>11. ASSUME NEW k \in DOMAIN actions'
       PROVE  /\ actions'[k].entry_offset < EndOf(k)'
              /\ \/ actions'[k].next_field_offset
                       \in actions'[k].entry_offset + 1 .. EndOf(k)' - 1
                 \/ /\ actions'[k].next_field_offset = -1
                    /\ k = Len(actions')
                    /\ index' = ActionsLimit
  <2>1. CASE k \in DOMAIN actions
    <3>1. actions'[k] = actions[k] /\ EndOf(k)' = EndOf(k)
      BY <2>1, <1>4, <1>6
    <3>2. index # ActionsLimit
      BY <1>1, <1>2
    <3>. QED BY <2>1, <3>1, <3>2, <1>7
  <2>2. CASE k = Len(actions) + 1
    <3>1. actions'[k] = rec
      BY <2>2, <1>4
    <3>2. EndOf(k)' = index' - actions_start
      <4>1. ~(k < Len(actions'))
        BY <2>2, <1>3, <1>4
      <4>. QED BY <4>1, <1>1, <1>5 DEF EndOf
    <3>3. index - actions_start < index' - actions_start
      <4>1. \A a, b, c \in Int : a < b => a - c < b - c
        OBVIOUS
      <4>2. index \in Int /\ index' \in Int /\ actions_start \in Int /\ index < index'
        BY <1>1, <1>2
      <4>. QED BY <4>1, <4>2
    <3>. QED BY <2>2, <3>1, <3>2, <3>3, <1>1, <1>4
  <2>. QED BY <2>1, <2>2, <1>3, <1>4
<1>. QED BY <1>1, <1>2, <1>5, <1>9, <1>10, <1>11 DEF ActionsTile
\* The second pass leaves entry offsets and next fields alone.
LEMMA ResolveKeepsOffsets ==
  ASSUME TypeOK, EndActions, pc' # "threw"
  PROVE  /\ DOMAIN actions' = DOMAIN actions /\ Len(actions') = Len(actions)
         /\ DOMAIN actions = 1 .. Len(actions) /\ Len(actions) \in Nat
         /\ \A k \in DOMAIN actions :
              /\ actions'[k].entry_offset = actions[k].entry_offset
              /\ actions'[k].next_offset = actions[k].next_offset
              /\ actions'[k].next_field_offset = actions[k].next_field_offset
              /\ actions'[k].next_index = NextIndex(actions[k])
<1>1. actions \in Seq(Action)
  BY DEF TypeOK
<1>2. /\ DOMAIN actions' = DOMAIN actions /\ Len(actions') = Len(actions)
      /\ \A k \in DOMAIN actions :
           actions'[k] = [actions[k] EXCEPT !.next_index = NextIndex(actions[k])]
  BY <1>1, ResolveType
<1>3. ASSUME NEW k \in DOMAIN actions
      PROVE  /\ actions'[k].entry_offset = actions[k].entry_offset
             /\ actions'[k].next_offset = actions[k].next_offset
             /\ actions'[k].next_field_offset = actions[k].next_field_offset
             /\ actions'[k].next_index = NextIndex(actions[k])
  <2>1. PICK r \in Action : r = actions[k]
    BY <1>1
  <2>2. actions'[k] = [r EXCEPT !.next_index = NextIndex(r)]
    BY <1>2, <2>1
  <2>. QED BY <2>1, <2>2 DEF Action
<1>4. DOMAIN actions = 1 .. Len(actions) /\ Len(actions) \in Nat
  BY <1>1
<1>. QED BY <1>2, <1>3, <1>4

LEMMA NextTile == TypeOK /\ TablesInOrder /\ ActionsTile /\ [Next]_vars => ActionsTile'
<1> SUFFICES ASSUME TypeOK, TablesInOrder, ActionsTile, [Next]_vars PROVE ActionsTile'
  OBVIOUS
<1> USE DEF cursor, tables, walk
<1>1. CASE Throw
  BY <1>1 DEF Throw, ActionsTile
<1>2. CASE (ParseHeader \/ ParseCallSiteDescriptor \/ ParseCallSite) /\ ~Throw
  <2>1. /\ pc \in {"header", "call_len", "call_site"}
        /\ pc' \in {"header", "call_len", "call_site"}
        /\ actions' = actions
    BY <1>2 DEF ParseHeader, ParseCallSiteDescriptor, ParseCallSite
  <2>. QED BY <2>1 DEF ActionsTile
<1>3. CASE EndCallSites /\ ~Throw
  <2>1. /\ pc = "call_site" /\ pc' = "action" /\ actions' = actions
        /\ actions_start' = index /\ index' = index
    BY <1>3 DEF EndCallSites
  <2>2. actions' = <<>>
    BY <2>1 DEF ActionsTile
  <2>. QED BY <2>1, <2>2 DEF ActionsTile, ActionsEnd
<1>4. CASE ParseAction /\ ~Throw
  BY <1>4, ParseActionTile
<1>5. CASE EndActions /\ ~Throw
  <2>1. /\ pc = "action" /\ pc' \in {"scope", "type"} /\ index >= ActionsLimit
        /\ UNCHANGED <<data, tt, actions_start>>
    BY <1>5 DEF EndActions
  <2>2. /\ index = ActionsLimit /\ ActionsLimit' = ActionsLimit
        /\ ActionsEnd = ActionsLimit /\ ActionsEnd' = ActionsLimit
    <3>1. ActionsLimit \in Nat /\ index \in Nat
      BY LimitType DEF TypeOK
    <3>. QED BY <2>1, <3>1 DEF TablesInOrder, ActionsLimit, ActionsEnd
  <2>3. /\ DOMAIN actions' = DOMAIN actions /\ Len(actions') = Len(actions)
        /\ DOMAIN actions = 1 .. Len(actions) /\ Len(actions) \in Nat
        /\ \A k \in DOMAIN actions :
             /\ actions'[k].entry_offset = actions[k].entry_offset
             /\ actions'[k].next_field_offset = actions[k].next_field_offset
    BY <1>5, <2>1, ResolveKeepsOffsets
  <2>4. (actions' = <<>>) <=> (actions = <<>>)
    <3>1. actions \in Seq(Action)
      BY DEF TypeOK
    <3>2. actions' \in Seq(Action)
      BY NextType DEF TypeOK
    <3>. QED BY <2>3, <3>1, <3>2
  <2>5. \A k \in DOMAIN actions : EndOf(k)' = EndOf(k)
    <3> SUFFICES ASSUME NEW k \in DOMAIN actions PROVE EndOf(k)' = EndOf(k)
      OBVIOUS
    <3>1. k < Len(actions) => k + 1 \in DOMAIN actions
      BY <2>3
    <3>. QED BY <2>1, <2>2, <2>3, <3>1 DEF EndOf
  <2>6. actions # <<>> => 1 \in DOMAIN actions
    BY <2>3 DEF TypeOK
  <2>. QED BY <2>1, <2>2, <2>3, <2>4, <2>5, <2>6 DEF ActionsTile
<1>6. CASE build_scopes \/ ParseType \/ EndTypes
  <2>1. /\ UNCHANGED <<data, tt, actions_start, actions>>
        /\ pc \in {"type", "scope", "chain"}
        /\ pc' \in {"type", "scope", "chain", "done"}
    BY <1>6, ScopeStepsKeepTables, ScopeStepsStayResolved
  <2>2. ActionsEnd' = ActionsEnd /\ ActionsLimit' = ActionsLimit
    BY <2>1 DEF ActionsEnd, ActionsLimit
  <2>3. \A k : EndOf(k)' = EndOf(k)
    BY <2>1, <2>2 DEF EndOf
  <2>. QED BY <2>1, <2>2, <2>3 DEF ActionsTile
<1>7. CASE UNCHANGED vars
  <2>1. UNCHANGED <<data, tt, actions_start, actions, pc, index>>
    BY <1>7 DEF vars
  <2>2. ActionsEnd' = ActionsEnd /\ ActionsLimit' = ActionsLimit
    BY <2>1 DEF ActionsEnd, ActionsLimit
  <2>3. \A k : EndOf(k)' = EndOf(k)
    BY <2>1, <2>2 DEF EndOf
  <2>. QED BY <2>1, <2>2, <2>3 DEF ActionsTile
<1>. QED BY <1>1, <1>2, <1>3, <1>4, <1>5, <1>6, <1>7 DEF Next

-----------------------------------------------------------------------------
(* The links.                                                              *)

LEMMA InitLinks == Init => LinksAreExact
BY DEF Init, LinksAreExact, Resolved

LEMMA ActionFields ==
  ASSUME TypeOK
  PROVE  \A k \in DOMAIN actions :
           /\ actions[k] \in Action
           /\ actions[k].entry_offset \in Int
           /\ actions[k].next_offset \in Int
<1>1. actions \in Seq(Action)
  BY DEF TypeOK
<1>2. \A k \in DOMAIN actions : actions[k] \in Action
  BY <1>1
<1>. QED BY <1>2 DEF Action

\* Offsets grow along the table, so the first action at an offset is the only
\* one there, and the second pass cannot pick another.
LEMMA ResolveIsExact ==
  ASSUME TypeOK, ActionsTile, EndActions, pc' # "threw"
  PROVE  LinksAreExact'
<1>1. /\ DOMAIN actions' = DOMAIN actions
      /\ DOMAIN actions = 1 .. Len(actions) /\ Len(actions) \in Nat
      /\ \A k \in DOMAIN actions :
           /\ actions'[k].entry_offset = actions[k].entry_offset
           /\ actions'[k].next_offset = actions[k].next_offset
           /\ actions'[k].next_index = NextIndex(actions[k])
  BY ResolveKeepsOffsets
<1>2. \A k, n \in DOMAIN actions :
        actions[k].entry_offset = actions[n].entry_offset => k = n
  <2>1. \A k, n \in DOMAIN actions :
          k < n => actions[k].entry_offset < actions[n].entry_offset
    BY DEF ActionsTile, EndActions
  <2>2. \A k \in DOMAIN actions : actions[k].entry_offset \in Int
    BY ActionFields
  <2>. QED BY <1>1, <2>1, <2>2
<1>3. SUFFICES ASSUME NEW k \in DOMAIN actions, NEW n \in DOMAIN actions
               PROVE  (NextIndex(actions[k]) = n - 1) <=>
                        /\ actions[k].next_offset # 0
                        /\ actions[n].entry_offset
                             = actions[k].entry_offset + actions[k].next_offset
  BY <1>1 DEF LinksAreExact
<1> DEFINE target == actions[k].entry_offset + actions[k].next_offset
           r      == ActionIndexAt(target)
<1>4. target \in Int /\ actions \in Seq(Action)
  <2>1. actions[k].entry_offset \in Int /\ actions[k].next_offset \in Int
    BY ActionFields
  <2>2. target \in Int
    BY <2>1
  <2>. QED BY <2>2 DEF TypeOK
<1>5. /\ r \in -1 .. Len(actions) - 1
      /\ r # -1 => actions[r + 1].entry_offset = target
      /\ r = -1 => \A m \in DOMAIN actions : actions[m].entry_offset # target
  BY <1>4, ActionIndexType
<1>6. n - 1 # -1 /\ n \in Int
  BY <1>1
<1>7. CASE actions[k].next_offset = 0
  BY <1>6, <1>7 DEF NextIndex
<1>8. CASE actions[k].next_offset # 0
  <2>1. NextIndex(actions[k]) = r
    BY <1>8 DEF NextIndex
  <2> HIDE DEF target, r
  <2>2. r = n - 1 => actions[n].entry_offset = target
    BY <1>5, <1>6
  <2>3. actions[n].entry_offset = target => r = n - 1
    <3>1. SUFFICES ASSUME actions[n].entry_offset = target PROVE r = n - 1
      OBVIOUS
    <3>2. r # -1
      BY <1>5, <3>1
    <3>3. r + 1 \in DOMAIN actions /\ actions[r + 1].entry_offset = target
      BY <1>1, <1>5, <3>2
    <3>4. r + 1 = n
      BY <1>2, <3>1, <3>3
    <3>. QED BY <3>4, <1>5, <1>6
  <2>. QED BY <1>8, <2>1, <2>2, <2>3 DEF target
<1>. QED BY <1>7, <1>8

LEMMA NextLinks ==
  TypeOK /\ ActionsTile /\ LinksAreExact /\ [Next]_vars => LinksAreExact'
<1> SUFFICES ASSUME TypeOK, ActionsTile, LinksAreExact, [Next]_vars
             PROVE  LinksAreExact'
  OBVIOUS
<1> USE DEF cursor, tables, walk
<1>1. CASE Throw
  BY <1>1 DEF Throw, LinksAreExact, Resolved
<1>2. CASE (ParseHeader \/ ParseCallSiteDescriptor \/ ParseCallSite
             \/ EndCallSites \/ ParseAction) /\ ~Throw
  <2>1. pc' \in {"call_len", "call_site", "action"}
    BY <1>2 DEF ParseHeader, ParseCallSiteDescriptor, ParseCallSite, EndCallSites,
                ParseAction
  <2>. QED BY <2>1 DEF LinksAreExact, Resolved
<1>3. CASE EndActions /\ ~Throw
  <2>1. pc' # "threw"
    BY <1>3 DEF EndActions
  <2>. QED BY <1>3, <2>1, ResolveIsExact
<1>4. CASE build_scopes \/ ParseType \/ EndTypes
  <2>1. UNCHANGED actions /\ Resolved
    BY <1>4, ScopeStepsKeepTables, ScopeStepsStayResolved DEF Resolved
  <2>. QED BY <2>1 DEF LinksAreExact
<1>5. CASE UNCHANGED vars
  BY <1>5 DEF vars, LinksAreExact, Resolved
<1>. QED BY <1>1, <1>2, <1>3, <1>4, <1>5 DEF Next

\* A link backwards goes to a smaller offset, and offsets grow with the index.
LEMMA ExactLinksDescend ==
  TypeOK /\ ActionsTile /\ LinksAreExact => BackwardLinksDescend
<1> SUFFICES ASSUME TypeOK, ActionsTile, LinksAreExact, Resolved,
                    NEW k \in DOMAIN actions, actions[k].next_offset <= 0
             PROVE  actions[k].next_index < k - 1
  BY DEF BackwardLinksDescend
<1>1. /\ actions[k] \in Action /\ actions[k].next_index \in -1 .. Len(actions) - 1
      /\ DOMAIN actions = 1 .. Len(actions) /\ Len(actions) \in Nat
      /\ \A m \in DOMAIN actions : actions[m].entry_offset \in Int
  <2>1. actions \in Seq(Action) /\ actions[k].next_index \in -1 .. Len(actions) - 1
    BY DEF TypeOK
  <2>. QED BY <2>1, ActionFields
<1>2. CASE actions[k].next_index = -1
  BY <1>1, <1>2
<1>3. CASE actions[k].next_index # -1
  <2> DEFINE n == actions[k].next_index + 1
  <2>1. n \in DOMAIN actions /\ actions[k].next_index = n - 1
    BY <1>1, <1>3
  <2>2. /\ actions[k].next_offset # 0
        /\ actions[n].entry_offset = actions[k].entry_offset + actions[k].next_offset
    BY <2>1 DEF LinksAreExact
  <2>3. actions[n].entry_offset < actions[k].entry_offset
    BY <1>1, <2>1, <2>2 DEF Action
  <2>4. k < n => actions[k].entry_offset < actions[n].entry_offset
    BY <2>1 DEF ActionsTile, Resolved
  <2>5. k # n /\ ~(k < n)
    BY <1>1, <2>1, <2>3, <2>4
  <2>. QED BY <1>1, <2>1, <2>5
<1>. QED BY <1>2, <1>3

-----------------------------------------------------------------------------
(* The theorems.                                                           *)

\* The inductive invariant: the types need the order of the tables (an entry
\* offset is a difference of cursors), the tiling needs both, the links need
\* the tiling.
IInv == TypeOK /\ TablesInOrder /\ ActionsTile /\ LinksAreExact

LEMMA Inductive == Spec => []IInv
<1>1. Init => IInv
  BY InitType, InitOrder, InitTile, InitLinks DEF IInv
<1>2. IInv /\ [Next]_vars => IInv'
  BY NextType, NextOrder, NextTile, NextLinks DEF IInv
<1>. QED BY <1>1, <1>2, PTL DEF Spec

\* parse() never has its cursor outside the vector it was given, nor an index
\* of its tables outside the table, whatever the bytes are.
THEOREM TypeCorrect == Spec => []TypeOK
<1>1. IInv => TypeOK
  BY DEF IInv
<1>. QED BY <1>1, Inductive, PTL

\* No wrapped size_t sum survives the checks: the tables lie in the vector one
\* after the other (abi_parse.cpp:263-289, 358-369).
THEOREM TablesAreInOrder == Spec => []TablesInOrder
<1>1. IInv => TablesInOrder
  BY DEF IInv
<1>. QED BY <1>1, Inductive, PTL

\* The recorded actions tile the action table (abi_parse.cpp:375-403).
THEOREM ActionsTileTheTable == Spec => []ActionsTile
<1>1. IInv => ActionsTile
  BY DEF IInv
<1>. QED BY <1>1, Inductive, PTL

\* A link is there exactly when its target is, and names it
\* (abi_parse.cpp:406-438).
THEOREM LinksNameTheirTargets == Spec => []LinksAreExact
<1>1. IInv => LinksAreExact
  BY DEF IInv
<1>. QED BY <1>1, Inductive, PTL

\* Chains of backward links cannot come back on themselves
\* (abi_parse.cpp:113-131).
THEOREM BackwardLinksAreWellFounded == Spec => []BackwardLinksDescend
<1>1. IInv => BackwardLinksDescend
  BY ExactLinksDescend DEF IInv
<1>. QED BY <1>1, Inductive, PTL

\* Every iteration of the three reading loops consumes a byte, so parse()
\* reaches build_scopes or throws (abi_parse.cpp:292-302, 359-366, 375-403).
THEOREM ReadingLoopsAdvance == Spec => LoopsAdvance
<1>1. IInv /\ [Next]_vars
        => [pc' = pc /\ pc \in {"call_site", "action", "type"} => index' > index]_vars
  <2> SUFFICES ASSUME IInv, Next, pc' = pc, pc \in {"call_site", "action", "type"}
               PROVE  index' > index
    OBVIOUS
  <2> USE DEF cursor, tables, walk
  <2>1. /\ data \in Seq(Byte) /\ call.enc \in Byte /\ Len(data) \in Nat
        /\ index \in 0 .. Len(data) /\ call.end \in 0 .. Len(data)
    BY DEF IInv, TypeOK
  <2>2. ~Throw
    BY DEF Throw
  <2>3. CASE ParseCallSite
    <3> DEFINE cs == CallSiteAt(index)
    <3>1. cs.ok /\ index' = cs.next /\ index < Len(data)
      BY <2>1, <2>2, <2>3 DEF ParseCallSite
    <3>2. cs.ok /\ index < Len(data) => index < cs.next
      BY <2>1, CallSiteType
    <3>3. cs.next \in index .. Len(data)
      BY <2>1, CallSiteType
    <3> HIDE DEF cs
    <3>. QED BY <3>1, <3>2, <3>3, <2>1
  <2>4. CASE ParseAction
    <3>1. index < index' /\ index' \in Nat
      BY <2>2, <2>4, ParseActionType DEF IInv
    <3>. QED BY <3>1, <2>1
  <2>5. CASE ParseType
    BY <2>5 DEF ParseType
  <2>6. CASE ParseHeader \/ ParseCallSiteDescriptor \/ EndCallSites \/ EndActions
             \/ EndTypes
    BY <2>2, <2>6 DEF ParseHeader, ParseCallSiteDescriptor, EndCallSites, EndActions,
                      EndTypes
  <2>7. CASE build_scopes
    BY <2>7 DEF build_scopes, SkipCallSite, CleanupScope, BeginChain, FollowChain,
                EndChain, EndScopes
  <2>. QED BY <2>3, <2>4, <2>5, <2>6, <2>7 DEF Next
<1>. QED BY <1>1, Inductive, PTL DEF Spec, LoopsAdvance
=============================================================================
