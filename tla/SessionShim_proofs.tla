------------------------- MODULE SessionShim_proofs -------------------------
(***************************************************************************)
(* For any number of sessions, any buffers and any number of calls: the       *)
(* statistics of every session add up, and the fast path never follows a      *)
(* pointer into an earlier buffer.                                          *)
(***************************************************************************)
EXTENDS SessionShim, FixFrame_proofs

Label == Attempting \cup {"idle", "flag", "stock"}

Counter == {"preparse_attempted", "preparse_succeeded", "fallback_used", "parse_failed"}

(* StatsAddUp of one session, which is at p with statistics st after c calls. *)
Balanced(p, st, c) ==
    /\ st["preparse_attempted"] = st["preparse_succeeded"] + st["fallback_used"]
                                    + (IF p \in Attempting THEN 1 ELSE 0)
    /\ st["preparse_succeeded"] + st["parse_failed"] + (IF p = "idle" THEN 0 ELSE 1) <= c

(* The statistics are natural numbers, a copy for every session.             *)
Counters ==
    /\ pc \in [Sessions -> Label]
    /\ stats \in [Sessions -> [Counter -> Nat]]
    /\ calls \in [Sessions -> Nat]

StatsInv ==
    /\ Counters
    /\ \A s \in Sessions : Balanced(pc[s], stats[s], calls[s])

LEMMA FreshStats == NoStats \in [Counter -> Nat] /\ Balanced("idle", NoStats, 0)
BY DEF NoStats, Counter, Balanced, Attempting

LEMMA InitStats == Init => StatsInv
BY FreshStats DEF Init, StatsInv, Counters, Label

(* A session goes from p to q without touching a counter.                    *)
LEMMA Moves ==
    ASSUME StatsInv, NEW s \in Sessions, NEW q \in Label,
           pc' = [pc EXCEPT ![s] = q], stats' = stats, calls' = calls,
           Balanced(pc[s], stats[s], calls[s]) => Balanced(q, stats[s], calls[s])
    PROVE  StatsInv'
BY DEF StatsInv, Counters

(* A session goes from p to q and counts.                                    *)
LEMMA MovesAndCounts ==
    ASSUME StatsInv, NEW s \in Sessions, NEW q \in Label, NEW counter \in Counter,
           pc' = [pc EXCEPT ![s] = q], Count(s, counter), calls' = calls,
           Balanced(q, Incremented(stats[s], counter), calls[s])
    PROVE  StatsInv'
<1>1. Incremented(stats[s], counter) \in [Counter -> Nat]
      BY DEF StatsInv, Counters, Incremented
<1>2. QED
      BY <1>1 DEF StatsInv, Counters, Count

(* What counting changes in a session that was balanced.                      *)
LEMMA Counting ==
    ASSUME NEW st \in [Counter -> Nat], NEW c \in Nat, NEW p \in Label, Balanced(p, st, c)
    PROVE  /\ p = "flag" => Balanced("scan", Incremented(st, "preparse_attempted"), c)
           /\ p = "build" => Balanced("idle", Incremented(st, "preparse_succeeded"), c)
           /\ p = "fallback" => Balanced("stock", Incremented(st, "fallback_used"), c)
           /\ p = "stock" => Balanced("idle", Incremented(st, "parse_failed"), c)
<1> USE DEF Counter, Balanced, Attempting, Incremented
<1>1. CASE p = "flag"
      BY <1>1
<1>2. CASE p = "build"
      BY <1>2
<1>3. CASE p = "fallback"
      BY <1>3
<1>4. CASE p = "stock"
      BY <1>4
<1>5. QED
      BY <1>1, <1>2, <1>3, <1>4

LEMMA StepStats == StatsInv /\ [Next]_vars => StatsInv'
<1> SUFFICES ASSUME StatsInv, [Next]_vars PROVE StatsInv'
    OBVIOUS
<1> USE DEF Label, Attempting, Counter
<1>0. ASSUME NEW s \in Sessions
      PROVE  /\ pc[s] \in Label /\ stats[s] \in [Counter -> Nat] /\ calls[s] \in Nat
             /\ Balanced(pc[s], stats[s], calls[s])
      BY DEF StatsInv, Counters
<1>1. ASSUME \/ \E on \in BOOLEAN : set_preparse_enabled(on)
             \/ HeapChanges
      PROVE  StatsInv'
      BY <1>1 DEF set_preparse_enabled, HeapChanges, sessionVars, StatsInv, Counters
<1>2. ASSUME NEW s \in Sessions, reset_stats(s) PROVE StatsInv'
      BY <1>2, FreshStats DEF reset_stats, StatsInv, Counters
<1>3. ASSUME NEW s \in Sessions, NEW b \in Buffers, parse_into(s, b) PROVE StatsInv'
  <2>1. Balanced("flag", stats[s], calls[s] + 1)
        BY <1>0, <1>3 DEF parse_into, Balanced
  <2>2. QED
        BY <1>3, <2>1 DEF parse_into, Goto, StatsInv, Counters
<1>4. ASSUME NEW s \in Sessions, ReadFlag(s) PROVE StatsInv'
  <2>1. CASE enabled
        BY <1>0, <1>4, <2>1, Counting, MovesAndCounts DEF ReadFlag, Goto
  <2>2. CASE ~ enabled
        BY <1>0, <1>4, <2>2, Moves DEF ReadFlag, Goto, Balanced
  <2>3. QED
        BY <2>1, <2>2
<1>5. ASSUME NEW s \in Sessions, Scan(s) PROVE StatsInv'
      BY <1>0, <1>5, Moves DEF Scan, Goto, Balanced
<1>6. ASSUME NEW s \in Sessions, Route(s) PROVE StatsInv'
      BY <1>0, <1>6, Moves DEF Route, Goto, Balanced
<1>7. ASSUME NEW s \in Sessions, Translate(s) PROVE StatsInv'
      BY <1>0, <1>7, Moves DEF Translate, Goto, Balanced
<1>8. ASSUME NEW s \in Sessions, Build(s) PROVE StatsInv'
      BY <1>8 DEF Build, StatsInv, Counters
<1>9. ASSUME NEW s \in Sessions, BuildThrows(s) PROVE StatsInv'
      BY <1>0, <1>9, Moves DEF BuildThrows, Goto, Balanced
<1>10. ASSUME NEW s \in Sessions, FastPathSucceeds(s) PROVE StatsInv'
       BY <1>0, <1>10, Counting, MovesAndCounts DEF FastPathSucceeds, Goto, Answer
<1>11. ASSUME NEW s \in Sessions, FallBack(s) PROVE StatsInv'
       BY <1>0, <1>11, Counting, MovesAndCounts DEF FallBack, Goto
<1>12. ASSUME NEW s \in Sessions, StockParses(s) PROVE StatsInv'
  <2>1. pc[s] = "stock" /\ pc' = [pc EXCEPT ![s] = "idle"] /\ UNCHANGED <<stats, calls>>
        BY <1>12 DEF StockParses, Goto, Answer
  <2>2. Balanced("idle", stats[s], calls[s])
        BY <1>0, <2>1 DEF Balanced
  <2>3. QED
        BY <2>1, <2>2, Moves
<1>13. ASSUME NEW s \in Sessions, StockThrows(s) PROVE StatsInv'
       BY <1>0, <1>13, Counting, MovesAndCounts DEF StockThrows, Goto, Answer
<1>14. CASE UNCHANGED vars
       BY <1>14 DEF vars, sessionVars, StatsInv, Counters
<1>15. QED
       BY <1>1, <1>2, <1>3, <1>4, <1>5, <1>6, <1>7, <1>8, <1>9, <1>10, <1>11, <1>12,
          <1>13, <1>14 DEF Next, Step

(* quickfix_shim.hpp: the statistics of a session can be trusted at every     *)
(* moment, however often the flag is switched while its calls run.           *)
THEOREM StatisticsAddUp == Spec => []StatsAddUp
<1>1. StatsInv => StatsAddUp
      BY DEF StatsInv, StatsAddUp, Balanced, Running, Unanswered
<1>2. QED
      BY <1>1, InitStats, StepStats, PTL DEF Spec

-----------------------------------------------------------------------------
(* Pointers.  An index that a scanner delivered fits the scratch array, and   *)
(* the live part of that array is what the last translation made of it.      *)

Scanned(s) == pc[s] \in {"route", "translate", "build"}

Live(s) == 0 .. (idx[s].field_count - 1)

PointersInv ==
    /\ DOMAIN pc = Sessions /\ DOMAIN buffer = Sessions
    /\ DOMAIN idx = Sessions /\ DOMAIN scratch = Sessions
    /\ \A s \in Sessions :
          /\ pc[s] # "idle" => buffer[s] \in Buffers
          /\ Scanned(s) => idx[s].field_count \in 0 .. kMaxFields
          /\ pc[s] = "build" => \A k \in Live(s) : scratch[s][k].mem = buffer[s]

LEMMA FrameFits ==
    ASSUME NEW b \in Buffers, NEW o \in Frames[b]
    PROVE  o.field_count \in 0 .. kMaxFields
<1>1. o \in FrameIndices(b)
      BY DEF Frames
<1>2. DelimitsFrame(b, o)
      BY <1>1 DEF FrameIndices, ExactIndex
<1>3. QED
      BY <1>2, CapacityAssumption DEF DelimitsFrame

LEMMA TranslationPoints ==
    ASSUME NEW s \in Sessions, idx[s].field_count \in 0 .. kMaxFields, NEW k \in Live(s)
    PROVE  Translated(s)[k].mem = buffer[s]
BY CapacityAssumption DEF Translated, PreScanField, Live

LEMMA InitPointers == Init => PointersInv
BY DEF Init, PointersInv, Scanned

LEMMA StepPointers == PointersInv /\ [Next]_vars => PointersInv'
<1> SUFFICES ASSUME PointersInv, [Next]_vars PROVE PointersInv'
    OBVIOUS
<1> USE DEF PointersInv, Scanned, Live
<1>1. ASSUME \/ \E on \in BOOLEAN : set_preparse_enabled(on)
             \/ HeapChanges
      PROVE  PointersInv'
      BY <1>1 DEF set_preparse_enabled, HeapChanges, sessionVars
<1>2. ASSUME NEW s \in Sessions, reset_stats(s) PROVE PointersInv'
      BY <1>2 DEF reset_stats
<1>3. ASSUME NEW s \in Sessions, NEW b \in Buffers, parse_into(s, b) PROVE PointersInv'
      BY <1>3 DEF parse_into, Goto
<1>4. ASSUME NEW s \in Sessions, ReadFlag(s) PROVE PointersInv'
      BY <1>4 DEF ReadFlag, Goto
<1>5. ASSUME NEW s \in Sessions, Scan(s) PROVE PointersInv'
      BY <1>5, FrameFits DEF Scan, Goto
<1>6. ASSUME NEW s \in Sessions, Route(s) PROVE PointersInv'
      BY <1>6 DEF Route, Goto
<1>7. ASSUME NEW s \in Sessions, Translate(s) PROVE PointersInv'
      BY <1>7, TranslationPoints DEF Translate, Goto
<1>8. ASSUME NEW s \in Sessions, Build(s) PROVE PointersInv'
      BY <1>8 DEF Build
<1>9. ASSUME NEW s \in Sessions, BuildThrows(s) PROVE PointersInv'
      BY <1>9 DEF BuildThrows, Goto
<1>10. ASSUME NEW s \in Sessions, FastPathSucceeds(s) PROVE PointersInv'
       BY <1>10 DEF FastPathSucceeds, Goto, Answer
<1>11. ASSUME NEW s \in Sessions, FallBack(s) PROVE PointersInv'
       BY <1>11 DEF FallBack, Goto
<1>12. ASSUME NEW s \in Sessions, StockParses(s) PROVE PointersInv'
       BY <1>12 DEF StockParses, Goto, Answer
<1>13. ASSUME NEW s \in Sessions, StockThrows(s) PROVE PointersInv'
       BY <1>13 DEF StockThrows, Goto, Answer
<1>14. CASE UNCHANGED vars
       BY <1>14 DEF vars, sessionVars
<1>15. QED
       BY <1>1, <1>2, <1>3, <1>4, <1>5, <1>6, <1>7, <1>8, <1>9, <1>10, <1>11, <1>12,
          <1>13, <1>14 DEF Next, Step

(* patch 0001: whatever frames a session parsed before, setFromPreScan is     *)
(* given no pointer into any buffer but the present one.                     *)
THEOREM NoStalePointer == Spec => []ReadsThisBufferOnly
<1>1. PointersInv => ReadsThisBufferOnly
      BY DEF PointersInv, ReadsThisBufferOnly, Live
<1>2. QED
      BY <1>1, InitPointers, StepPointers, PTL DEF Spec

-----------------------------------------------------------------------------
(* The message.                                                             *)

(* The fields t are the fields s and one more.                               *)
OneMore(s, t) ==
    /\ Len(s) \in Nat /\ Len(t) = Len(s) + 1
    /\ \A k \in 1 .. Len(s) : t[k] = s[k]

LEMMA ReachedBefore ==
    ASSUME NEW s, NEW t, OneMore(s, t), NEW n \in 1 .. (Len(s) + 1)
    PROVE  Reached(t, n) = Reached(s, n)
<1>1. OutsideHeader(t, n) = OutsideHeader(s, n)
  BY DEF OneMore, OutsideHeader
<1>2. CASE OutsideHeader(s, n) = {}
  BY <1>1, <1>2 DEF Reached
<1>3. CASE OutsideHeader(s, n) # {}
  <2>1. OutsideHeader(s, n) \in SUBSET (1 .. Len(s))
    BY DEF OneMore, OutsideHeader
  <2>2. Max(OutsideHeader(s, n)) \in 1 .. Len(s)
    BY <1>3, <2>1, MaxOfInterval DEF OneMore
  <2>3. t[Max(OutsideHeader(s, n))] = s[Max(OutsideHeader(s, n))]
    BY <2>2 DEF OneMore
  <2> QED BY <1>1, <2>3 DEF Reached
<1> QED BY <1>2, <1>3

LEMMA ReachedAfter ==
    ASSUME NEW s, NEW t, OneMore(s, t)
    PROVE  Reached(t, Len(t) + 1)
             = IF Section(t[Len(t)].tag) = "header" THEN Reached(s, Len(s) + 1)
               ELSE Section(t[Len(t)].tag)
<1> DEFINE n == Len(t)
<1>1. n \in Nat /\ n = Len(s) + 1 /\ Len(s) \in Nat
  BY DEF OneMore
<1>2. CASE Section(t[n].tag) = "header"
  <2>1. OutsideHeader(t, n + 1) = OutsideHeader(t, n)
    <3> HIDE DEF n
    <3> QED BY <1>1, <1>2 DEF OutsideHeader
  <2>2. Reached(t, n + 1) = Reached(t, n)
    BY <2>1 DEF Reached
  <2>3. Reached(t, n) = Reached(s, n)
    BY <1>1, ReachedBefore
  <2> QED BY <1>1, <1>2, <2>2, <2>3
<1>3. CASE Section(t[n].tag) # "header"
  <2>1. /\ n \in OutsideHeader(t, n + 1)
        /\ OutsideHeader(t, n + 1) \in SUBSET (1 .. n)
    <3> HIDE DEF n
    <3> QED BY <1>1, <1>3 DEF OutsideHeader
  <2>2. Max(OutsideHeader(t, n + 1)) = n
    <3> HIDE DEF n
    <3>1. \A y \in OutsideHeader(t, n + 1) : y <= n
      BY <1>1, <2>1
    <3> QED BY <1>1, <2>1, <3>1, MaxIs
  <2> QED BY <1>3, <2>1, <2>2 DEF Reached
<1> QED BY <1>2, <1>3

LEMMA OutOfPlaceExtends ==
    ASSUME NEW s, NEW t, OneMore(s, t)
    PROVE  OutOfPlace(t)
             = OutOfPlace(s) \cup (IF Misplaced(Gathered(s), t[Len(t)]) THEN {Len(t)} ELSE {})
<1> DEFINE n == Len(t)
           Bad(r, k) == \/ Section(r[k].tag) = "header" /\ Reached(r, k) # "header"
                        \/ Section(r[k].tag) = "body" /\ Reached(r, k) = "trailer"
<1>1. n \in Nat /\ n = Len(s) + 1 /\ Len(s) \in Nat
  BY DEF OneMore
<1>2. \A k \in 1 .. Len(s) : Bad(t, k) <=> Bad(s, k)
  <2>1. \A k \in 1 .. Len(s) : t[k] = s[k] /\ Reached(t, k) = Reached(s, k)
    BY <1>1, ReachedBefore DEF OneMore
  <2> QED BY <2>1
<1>3. Bad(t, n) <=> Misplaced(Gathered(s), t[n])
  <2>1. Reached(t, n) = Reached(s, n)
    BY <1>1, ReachedBefore
  <2>2. Gathered(s).type = Reached(s, n)
    BY <1>1 DEF Gathered
  <2> QED BY <2>1, <2>2 DEF Misplaced
<1>4. OutOfPlace(t) = {k \in 1 .. n : Bad(t, k)} /\ OutOfPlace(s) = {k \in 1 .. Len(s) : Bad(s, k)}
  BY DEF OutOfPlace
<1>5. \A k : k \in 1 .. n <=> k \in 1 .. Len(s) \/ k = n
  BY <1>1
<1> HIDE DEF Bad, n
<1> QED BY <1>2, <1>3, <1>4, <1>5 DEF n

(* patch 0001, setFromPreScan: a round of the loop takes the message of some   *)
(* fields to the message of these and one more.                              *)
LEMMA AppendGathers ==
    ASSUME NEW s, NEW t, OneMore(s, t)
    PROVE  Gathered(t) = AppendField(Gathered(s), t[Len(t)])
<1> DEFINE n == Len(t)
           f == t[n]
           m == Gathered(s)
           At(r, section) == ElementsAt(r, {k \in 1 .. Len(r) : Section(r[k].tag) = section})
           Marked(r) == {k \in OutOfPlace(r) : r[k].tag # 0}
           bad == Misplaced(m, f)
<1>1. n \in Nat /\ n = Len(s) + 1 /\ Len(s) \in Nat
  BY DEF OneMore
<1>2. ASSUME NEW section
      PROVE  At(t, section) = IF Section(f.tag) = section THEN Append(At(s, section), f)
                              ELSE At(s, section)
  <2> DEFINE K == {k \in 1 .. Len(s) : Section(s[k].tag) = section}
             J == {k \in 1 .. n : Section(t[k].tag) = section}
  <2>1. ChooseAlike(s, K, t, J, Len(s))
    BY <1>1 DEF ChooseAlike, OneMore
  <2>2. n \in J <=> Section(f.tag) = section
    BY <1>1
  <2>3. ElementsAt(t, J) = IF n \in J THEN Append(ElementsAt(s, K), t[n])
                           ELSE ElementsAt(s, K)
    <3> HIDE DEF K, J
    <3> QED BY <1>1, <2>1, ElementsAtAppend
  <2> QED BY <2>2, <2>3
<1>3. m = [header |-> At(s, "header"), body |-> At(s, "body"), trailer |-> At(s, "trailer"),
           type |-> Reached(s, Len(s) + 1),
           m_tag |-> IF Marked(s) = {} THEN 0 ELSE s[Min(Marked(s))].tag,
           m_validStructure |-> OutOfPlace(s) = {}, sorted |-> FALSE]
  BY DEF Gathered
<1>4. Gathered(t)
        = [header |-> At(t, "header"), body |-> At(t, "body"), trailer |-> At(t, "trailer"),
           type |-> Reached(t, n + 1),
           m_tag |-> IF Marked(t) = {} THEN 0 ELSE t[Min(Marked(t))].tag,
           m_validStructure |-> OutOfPlace(t) = {}, sorted |-> FALSE]
  BY DEF Gathered
<1>5. Reached(t, n + 1) = IF Section(f.tag) = "header" THEN m.type ELSE Section(f.tag)
  BY <1>3, ReachedAfter
<1>6. OutOfPlace(t) = OutOfPlace(s) \cup (IF bad THEN {n} ELSE {})
  BY OutOfPlaceExtends
<1>7. OutOfPlace(s) \in SUBSET (1 .. Len(s))
  BY DEF OutOfPlace
<1>8. (OutOfPlace(t) = {}) = (m.m_validStructure /\ ~bad)
  <2>1. m.m_validStructure = (OutOfPlace(s) = {})
    BY <1>3
  <2> HIDE DEF m, bad, n
  <2>2. CASE bad
    <3>1. OutOfPlace(t) # {}
      BY <1>6, <2>2
    <3> QED BY <2>2, <3>1
  <2>3. CASE ~bad
    <3>1. OutOfPlace(t) = OutOfPlace(s)
      BY <1>6, <2>3
    <3> QED BY <2>1, <2>3, <3>1
  <2> QED BY <2>2, <2>3
<1>9. (IF Marked(t) = {} THEN 0 ELSE t[Min(Marked(t))].tag)
        = IF bad /\ m.m_tag = 0 THEN f.tag ELSE m.m_tag
  <2>1. Marked(t) = Marked(s) \cup (IF bad /\ f.tag # 0 THEN {n} ELSE {})
    <3>1. \A k \in OutOfPlace(s) : t[k] = s[k] /\ k # n
      BY <1>1, <1>7 DEF OneMore
    <3> HIDE DEF n, bad, m
    <3> QED BY <1>6, <3>1
  <2>2. Marked(s) \in SUBSET (1 .. Len(s))
    BY <1>7
  <2>3. CASE Marked(s) # {}
    <3>1. Min(Marked(s)) \in Marked(s) /\ \A y \in Marked(s) : Min(Marked(s)) <= y
      <4>1. Marked(s) \in SUBSET Nat
        BY <2>2
      <4> HIDE DEF Marked
      <4> QED BY <2>3, <4>1, MinOfNaturals
    <3>2. Min(Marked(t)) = Min(Marked(s))
      <4>1. Marked(t) \in SUBSET Nat /\ Min(Marked(s)) \in Marked(t)
        <5> HIDE DEF Marked, n, bad
        <5> QED BY <1>1, <2>1, <2>2, <3>1
      <4>2. \A y \in Marked(t) : Min(Marked(s)) <= y
        <5>1. Min(Marked(s)) \in 1 .. Len(s)
          BY <2>2, <3>1
        <5> HIDE DEF Marked, bad
        <5> QED BY <1>1, <2>1, <3>1, <5>1
      <4> HIDE DEF Marked
      <4> QED BY <4>1, <4>2, MinIs
    <3>3. t[Min(Marked(s))] = s[Min(Marked(s))] /\ s[Min(Marked(s))].tag # 0
      BY <2>2, <3>1 DEF OneMore
    <3>4. m.m_tag = s[Min(Marked(s))].tag
      BY <1>3, <2>3
    <3>5. Marked(t) # {}
      <4> HIDE DEF Marked
      <4> QED BY <2>1, <2>3
    <3> HIDE DEF Marked, m, bad
    <3> QED BY <3>2, <3>3, <3>4, <3>5
  <2>4. CASE Marked(s) = {}
    <3>1. m.m_tag = 0
      BY <1>3, <2>4
    <3>2. CASE bad /\ f.tag # 0
      <4>1. Marked(t) = {n}
        <5> HIDE DEF Marked, bad
        <5> QED BY <2>1, <2>4, <3>2
      <4>2. Min({n}) = n
        <5>1. {n} \in SUBSET Nat /\ n \in {n} /\ \A y \in {n} : n <= y
          BY <1>1
        <5> HIDE DEF n
        <5> QED BY <5>1, MinIs
      <4> HIDE DEF Marked, bad, m
      <4> QED BY <3>1, <3>2, <4>1, <4>2
    <3>3. CASE ~(bad /\ f.tag # 0)
      <4>1. Marked(t) = {}
        <5> HIDE DEF Marked, bad
        <5> QED BY <2>1, <2>4, <3>3
      <4> HIDE DEF Marked, bad, m
      <4> QED BY <3>1, <3>3, <4>1
    <3> QED BY <3>2, <3>3
  <2> QED BY <2>3, <2>4
<1>10. Section(f.tag) \in {"header", "body", "trailer"}
  BY DEF Section
<1>11. AppendField(m, f)
        = [header |-> IF Section(f.tag) = "header" THEN Append(m.header, f) ELSE m.header,
           body |-> IF Section(f.tag) = "body" THEN Append(m.body, f) ELSE m.body,
           trailer |-> IF Section(f.tag) = "trailer" THEN Append(m.trailer, f) ELSE m.trailer,
           type |-> IF Section(f.tag) = "header" THEN m.type ELSE Section(f.tag),
           m_tag |-> IF bad /\ m.m_tag = 0 THEN f.tag ELSE m.m_tag,
           m_validStructure |-> m.m_validStructure /\ ~bad, sorted |-> m.sorted]
  <2>2. m = [header |-> m.header, body |-> m.body, trailer |-> m.trailer, type |-> m.type,
             m_tag |-> m.m_tag, m_validStructure |-> m.m_validStructure, sorted |-> m.sorted]
    BY <1>3
  <2>3. AppendField(m, f)
          = [m EXCEPT ![Section(f.tag)] = Append(@, f),
                      !.type = IF Section(f.tag) = "header" THEN @ ELSE Section(f.tag),
                      !.m_tag = IF bad /\ @ = 0 THEN f.tag ELSE @,
                      !.m_validStructure = @ /\ ~bad]
    BY DEF AppendField
  <2> HIDE DEF bad, f, m
  <2>4. CASE Section(f.tag) = "header"
    BY <2>2, <2>3, <2>4
  <2>5. CASE Section(f.tag) = "body"
    BY <2>2, <2>3, <2>5
  <2>6. CASE Section(f.tag) = "trailer"
    BY <2>2, <2>3, <2>6
  <2> QED BY <1>10, <2>4, <2>5, <2>6
<1>12. /\ m.header = At(s, "header") /\ m.body = At(s, "body") /\ m.trailer = At(s, "trailer")
       /\ m.sorted = FALSE
  BY <1>3
<1>13. /\ At(t, "header") = IF Section(f.tag) = "header" THEN Append(m.header, f) ELSE m.header
       /\ At(t, "body") = IF Section(f.tag) = "body" THEN Append(m.body, f) ELSE m.body
       /\ At(t, "trailer") = IF Section(f.tag) = "trailer" THEN Append(m.trailer, f)
                             ELSE m.trailer
  <2> HIDE DEF At, m, f
  <2> QED BY <1>2, <1>12
<1> DEFINE g == Gathered(t)
           a == AppendField(m, f)
           Rebuilt(r) == [header |-> r.header, body |-> r.body, trailer |-> r.trailer,
                          type |-> r.type, m_tag |-> r.m_tag,
                          m_validStructure |-> r.m_validStructure, sorted |-> r.sorted]
<1>14. g = Rebuilt(g) /\ a = Rebuilt(a)
  <2> HIDE DEF At, m, bad, Marked, f, n
  <2> QED BY <1>4, <1>11
<1>15. g.header = a.header /\ g.body = a.body /\ g.trailer = a.trailer
  <2> HIDE DEF At, m, bad, Marked, f, n
  <2> QED BY <1>4, <1>11, <1>13
<1>16. g.type = a.type /\ g.m_tag = a.m_tag
  <2> HIDE DEF At, m, bad, Marked, f, n
  <2> QED BY <1>4, <1>5, <1>9, <1>11
<1>17. g.m_validStructure = a.m_validStructure
  <2>1. g.m_validStructure = (OutOfPlace(t) = {})
    BY <1>4
  <2>2. a.m_validStructure = (m.m_validStructure /\ ~bad)
    <3> HIDE DEF At, m, bad, Marked, f, n
    <3> QED BY <1>11
  <2> HIDE DEF g, a, bad, m
  <2> QED BY <1>8, <2>1, <2>2
<1>18. g.sorted = a.sorted
  <2>1. g.sorted = FALSE /\ m.sorted = FALSE
    BY <1>4, <1>12
  <2>2. a.sorted = m.sorted
    <3> HIDE DEF At, m, bad, Marked, f, n
    <3> QED BY <1>11
  <2> HIDE DEF g, a, m
  <2> QED BY <2>1, <2>2
<1> HIDE DEF g, a
<1> QED BY <1>14, <1>15, <1>16, <1>17, <1>18 DEF g, a

LEMMA NothingGathered == Gathered(<< >>) = Cleared
<1>1. Len(<< >>) = 0
  OBVIOUS
<1>2. OutOfPlace(<< >>) = {}
  BY <1>1 DEF OutOfPlace
<1>3. Reached(<< >>, 1) = "header"
  BY DEF Reached, OutsideHeader
<1>4. {n \in OutOfPlace(<< >>) : << >>[n].tag # 0} = {}
  BY <1>2
<1>5. \A K : ElementsAt(<< >>, K) = << >>
  BY ElementsAtEmpty
<1>6. (OutOfPlace(<< >>) = {}) = TRUE
  BY <1>2
<1>7. Reached(<< >>, Len(<< >>) + 1) = "header"
  BY <1>1, <1>3
<1> QED BY <1>4, <1>5, <1>6, <1>7 DEF Gathered, Cleared

(* What the fast path hands over for a field.                                *)
Handed(b, e) == FieldBase(PreScanField(b, ToInt(e.tag_number), e.tag_start,
                                       e.value_start, e.value_end))

(* quickfix_shim.cpp, apply_field_index: the fields of an exact index are the  *)
(* fields that QuickFIX alone extracts from the bytes of the frame.           *)
LEMMA FrameExtracts ==
    ASSUME NEW b \in Seq(Byte), NEW o \in FrameIndices(b)
    PROVE  /\ CanExtract(Frame(b, o))
           /\ Extracted(Frame(b, o)) = [k \in 1 .. o.field_count |-> Handed(b, o.fields[k - 1])]
<1> DEFINE f == Frame(b, o)
           n == o.field_count
           ends == Ends(o)
           E(k) == o.fields[k - 1]
<1>1. /\ Piecewise(b, o)
      /\ \A k \in 0 .. (n - 1) : TagRead(b, o.fields[k])
  BY FramePieces
<1>2. /\ f \in Seq(Byte) /\ Len(f) = o.frame_length /\ o.frame_length \in Nat
      /\ 1 <= o.frame_length /\ o.frame_length <= Len(b)
      /\ \A x \in 0 .. (o.frame_length - 1) : ByteAt(f, x) = ByteAt(b, x)
      /\ \A k \in 0 .. (n - 1) : o.fields[k].value_end < o.frame_length
  BY <1>1, FrameBytes
<1>3. SohOffsets(f) = ends
  BY <1>1, FrameSohs
<1>4. n \in Nat /\ n >= 4 /\ Len(ends) = n /\ \A k \in 1 .. n : ends[k] = E(k).value_end
  BY <1>1 DEF Piecewise, Ends
<1>5. ASSUME NEW k \in 1 .. n
      PROVE  /\ E(k).tag_start \in Nat /\ E(k).value_start \in Nat /\ E(k).value_end \in Nat
             /\ WellFormedField(b, E(k)) /\ TagRead(b, E(k))
             /\ E(k).value_end < o.frame_length
             /\ PieceStart(ends, k) = E(k).tag_start
  <2>1. k - 1 \in 0 .. (n - 1)
    BY <1>4
  <2>2. PieceStart(ends, k) = E(k).tag_start
    <3>1. CASE k = 1
      BY <1>1, <3>1 DEF Piecewise, PieceStart
    <3>2. CASE k # 1
      <4>1. k - 1 \in 1 .. n /\ k - 1 \in 1 .. (n - 1)
        BY <1>4, <3>2
      <4> QED BY <1>1, <1>4, <3>2, <4>1 DEF Piecewise, PieceStart
    <3> QED BY <3>1, <3>2
  <2> QED BY <1>1, <1>2, <2>1, <2>2 DEF Piecewise
<1> HIDE DEF ends, f, E
<1>6. ASSUME NEW k \in 1 .. n
      PROVE  /\ EqualsIn(f, ends, k) # {}
             /\ Min(EqualsIn(f, ends, k)) = E(k).value_start - 1
  <2> DEFINE e == E(k)
  <2>1. /\ e.tag_start \in Nat /\ e.value_start \in Nat /\ e.value_end \in Nat
        /\ e.tag_start < e.value_start - 1 /\ e.value_start <= e.value_end
        /\ e.value_end < o.frame_length
        /\ ByteAt(b, e.value_start - 1) = Equals
        /\ \A x \in e.tag_start .. (e.value_start - 2) : ByteAt(b, x) # Equals
    BY <1>5 DEF WellFormedField, IsDigit, Digit, Equals
  <2>2. EqualsIn(f, ends, k) = {x \in e.tag_start .. e.value_end : ByteAt(b, x) = Equals}
    <3>1. EqualsIn(f, ends, k) = {x \in e.tag_start .. e.value_end : ByteAt(f, x) = Equals}
      BY <1>4, <1>5 DEF EqualsIn
    <3>2. \A x \in e.tag_start .. e.value_end : ByteAt(f, x) = ByteAt(b, x)
      BY <1>2, <2>1
    <3> QED BY <3>1, <3>2
  <2> HIDE DEF e
  <2>3. e.value_start - 1 \in EqualsIn(f, ends, k)
    BY <2>1, <2>2
  <2>4. EqualsIn(f, ends, k) \in SUBSET Nat
    BY <2>1, <2>2
  <2>5. \A y \in EqualsIn(f, ends, k) : e.value_start - 1 <= y
    BY <2>1, <2>2
  <2>6. Min(EqualsIn(f, ends, k)) = e.value_start - 1
    BY <2>3, <2>4, <2>5, MinIs
  <2> QED BY <2>3, <2>6 DEF e
<1>7. CanExtract(f)
  <2>1. f[Len(f)] = Soh
    <3>1. ByteAt(f, o.frame_length - 1) = ByteAt(b, o.frame_length - 1)
      BY <1>2
    <3>2. ByteAt(b, o.frame_length - 1) = Soh
      BY <1>1 DEF Piecewise, WellFormedField
    <3> QED BY <1>2, <3>1, <3>2 DEF ByteAt
  <2>2. ASSUME NEW k \in 1 .. n
        PROVE  /\ PieceStart(ends, k) < Min(EqualsIn(f, ends, k))
               /\ \A j \in PieceStart(ends, k) .. (Min(EqualsIn(f, ends, k)) - 1) :
                     IsDigit(ByteAt(f, j))
    <3>1. \A j \in E(k).tag_start .. (E(k).value_start - 2) :
             IsDigit(ByteAt(b, j)) /\ ByteAt(f, j) = ByteAt(b, j)
      BY <1>2, <1>5 DEF WellFormedField
    <3>2. E(k).tag_start < E(k).value_start - 1 /\ E(k).value_start \in Nat
      BY <1>5 DEF WellFormedField
    <3> QED BY <1>5, <1>6, <3>1, <3>2
  <2> QED BY <1>3, <1>4, <1>6, <2>1, <2>2 DEF CanExtract
<1> DEFINE F == [k \in 1 .. n |->
                   FieldBase(PreScanField(f, ToInt(U32(Decimal(f, PieceStart(ends, k),
                                                       Min(EqualsIn(f, ends, k))))),
                                          PieceStart(ends, k),
                                          Min(EqualsIn(f, ends, k)) + 1, ends[k]))]
           H == [k \in 1 .. n |-> Handed(b, E(k))]
<1>8. Extracted(f) = SubSeq(F, 1, n)
  BY <1>3, <1>4 DEF Extracted
<1>9. ASSUME NEW k \in 1 .. n PROVE F[k] = H[k]
  <2> DEFINE e == E(k)
  <2>1. /\ e.tag_start \in Nat /\ e.value_start \in Nat /\ e.value_end \in Nat
        /\ e.tag_start < e.value_start - 1 /\ e.value_start <= e.value_end
        /\ e.value_end < o.frame_length
        /\ \A x \in e.tag_start .. (e.value_start - 2) :
              ByteAt(b, x) \in Digit /\ ByteAt(f, x) = ByteAt(b, x)
    BY <1>2, <1>5 DEF WellFormedField, IsDigit
  <2>2. e.tag_number = Decimal(b, e.tag_start, e.value_start - 1) /\ Representable(e.tag_number)
    BY <1>5 DEF TagRead, NumberRead
  <2> HIDE DEF e
  <2>3. /\ e.value_start - 1 \in Nat /\ e.tag_start <= e.value_start - 1
        /\ (e.value_start - 1) - 1 = e.value_start - 2
    BY <2>1
  <2>4. Decimal(b, e.tag_start, e.value_start - 1) \in Nat
    BY <2>1, <2>3, DecimalNat
  <2>5. Decimal(f, e.tag_start, e.value_start - 1) = Decimal(b, e.tag_start, e.value_start - 1)
    <3>1. \A x \in e.tag_start .. ((e.value_start - 1) - 1) : ByteAt(f, x) = ByteAt(b, x)
      BY <2>1, <2>3
    <3> QED BY SMTT(30), <2>1, <2>3, <3>1, DecimalSame
  <2>6. e.tag_number \in Nat /\ e.tag_number <= UINT32_MAX
    BY <2>2, <2>4, WidthAssumption DEF Representable, Saturated
  <2>7. U32(Decimal(f, e.tag_start, e.value_start - 1)) = e.tag_number
    BY <2>2, <2>5, <2>6, U32Fits
  <2>8. F[k] = FieldBase(PreScanField(f, ToInt(e.tag_number), e.tag_start, e.value_start,
                                      e.value_end))
    <3>1. (e.value_start - 1) + 1 = e.value_start
      BY <2>1
    <3> QED BY <1>4, <1>5, <1>6, <2>7, <3>1 DEF e
  <2>9. /\ SubSeq(f, e.value_start + 1, e.value_end) = SubSeq(b, e.value_start + 1, e.value_end)
        /\ SubSeq(f, e.tag_start + 1, e.value_end + 1) = SubSeq(b, e.tag_start + 1, e.value_end + 1)
    <3>1. o.frame_length \in 0 .. Len(b)
      BY <1>2
    <3>2. f = SubSeq(b, 1, o.frame_length)
      BY DEF f, Frame
    <3>3. /\ e.value_start + 1 \in Nat /\ 1 <= e.value_start + 1
          /\ e.tag_start + 1 \in Nat /\ 1 <= e.tag_start + 1
          /\ e.value_end \in Nat /\ e.value_end <= o.frame_length
          /\ e.value_end + 1 \in Nat /\ e.value_end + 1 <= o.frame_length
      BY SMTT(30), <1>2, <2>1
    <3> QED BY <3>1, <3>2, <3>3, SpanOfPrefix, Zenon
  <2> HIDE DEF F
  <2> QED BY <2>8, <2>9 DEF Handed, FieldBase, PreScanField, e
<1>10. F = H
  <2>1. \A k \in 1 .. n : F[k] = H[k]
    BY <1>9
  <2> HIDE DEF Handed
  <2> QED BY <2>1
<1>11. SubSeq(H, 1, n) = H
  <2> DEFINE T == {Handed(b, E(k)) : k \in 1 .. n}
  <2>1. H \in Seq(T) /\ Len(H) = n
    <3> HIDE DEF Handed
    <3> QED BY <1>4
  <2> HIDE DEF H, T
  <2> QED BY <2>1, SubSeqFull
<1> HIDE DEF F
<1> QED BY <1>7, <1>8, <1>10, <1>11 DEF f, E

-----------------------------------------------------------------------------
(* What the loop of setFromPreScan is given, and has made of it so far.       *)
HandedOver(b, o, n) == [k \in 1 .. n |-> Handed(b, o.fields[k - 1])]

Building(s) ==
    LET b == buffer[s]
        o == idx[s]
    IN  /\ built[s] \in 0 .. o.field_count
        /\ \A k \in Live(s) : FieldBase(scratch[s][k]) = Handed(b, o.fields[k])
        /\ message[s] = Gathered(HandedOver(b, o, built[s]))

Answered(s) ==
    IF path[s] = "stock"
    THEN CanExtract(buffer[s]) /\ message[s] = Parsed(buffer[s])
    ELSE /\ idx[s] \in FrameIndices(buffer[s])
         /\ message[s] = Parsed(Frame(buffer[s], idx[s]))

AnswerInv ==
    /\ DOMAIN pc = Sessions /\ DOMAIN buffer = Sessions /\ DOMAIN idx = Sessions
    /\ DOMAIN scratch = Sessions /\ DOMAIN built = Sessions /\ DOMAIN message = Sessions
    /\ DOMAIN result = Sessions /\ DOMAIN path = Sessions
    /\ \A s \in Sessions :
          /\ pc[s] # "idle" => buffer[s] \in Buffers
          /\ Scanned(s) => idx[s] \in FrameIndices(buffer[s])
          /\ pc[s] \in {"translate", "build"} => ~RequiresDictionaryParse(idx[s])
          /\ pc[s] = "build" => Building(s)
          /\ pc[s] = "idle" /\ result[s] => Answered(s)

LEMMA InitAnswer == Init => AnswerInv
BY DEF Init, AnswerInv, Scanned

LEMMA ScanDelivers ==
    ASSUME NEW b \in Buffers, NEW o \in Frames[b]
    PROVE  o \in FrameIndices(b)
BY DEF Frames

LEMMA StockDelivers ==
    ASSUME NEW b \in Buffers, NEW m \in Messages[b]
    PROVE  CanExtract(b) /\ m = Parsed(b)
BY DEF Messages

(* Translating hands over every field of the index, and clears the message.   *)
LEMMA TranslationHandsOver ==
    ASSUME NEW s \in Sessions, idx[s].field_count \in 0 .. kMaxFields, NEW k \in Live(s)
    PROVE  FieldBase(Translated(s)[k]) = Handed(buffer[s], idx[s].fields[k])
<1>1. k \in 0 .. (kMaxFields - 1) /\ k < idx[s].field_count
  BY CapacityAssumption DEF Live
<1>2. Translated(s)[k] = PreScanField(buffer[s], ToInt(idx[s].fields[k].tag_number),
                                      idx[s].fields[k].tag_start,
                                      idx[s].fields[k].value_start,
                                      idx[s].fields[k].value_end)
  BY <1>1 DEF Translated
<1> QED BY <1>2 DEF Handed

LEMMA OneMoreHanded ==
    ASSUME NEW b, NEW o, NEW n \in Nat
    PROVE  Gathered(HandedOver(b, o, n + 1))
             = AppendField(Gathered(HandedOver(b, o, n)), Handed(b, o.fields[n]))
<1> DEFINE s == HandedOver(b, o, n)
           t == HandedOver(b, o, n + 1)
<1>1. /\ Len(s) = n /\ Len(t) = n + 1
      /\ \A k \in 1 .. n : t[k] = s[k]
      /\ t[n + 1] = Handed(b, o.fields[n])
  <2>1. Len(s) = n /\ Len(t) = n + 1
    BY DEF HandedOver
  <2>2. \A k \in 1 .. n : t[k] = s[k]
    BY DEF HandedOver
  <2>3. n + 1 \in 1 .. (n + 1) /\ (n + 1) - 1 = n
    OBVIOUS
  <2>4. t[n + 1] = Handed(b, o.fields[n])
    BY <2>3 DEF HandedOver
  <2> QED BY <2>1, <2>2, <2>4
<1>2. OneMore(s, t)
  BY <1>1 DEF OneMore
<1> HIDE DEF s, t
<1>3. Gathered(t) = AppendField(Gathered(s), t[Len(t)])
  BY <1>2, AppendGathers
<1> QED BY <1>1, <1>3 DEF s, t

(* The last round done, the message is that of the frame.                     *)
LEMMA AllHandedOver ==
    ASSUME NEW b \in Seq(Byte), NEW o \in FrameIndices(b)
    PROVE  SortFields(Gathered(HandedOver(b, o, o.field_count))) = Parsed(Frame(b, o))
BY FrameExtracts DEF HandedOver, Parsed

LEMMA FieldCountType ==
    ASSUME NEW b, NEW o \in FrameIndices(b)
    PROVE  o.field_count \in 0 .. kMaxFields /\ o.field_count \in Nat
<1>1. DelimitsFrame(b, o)
  BY DEF FrameIndices, ExactIndex
<1> QED BY <1>1, CapacityAssumption DEF DelimitsFrame

LEMMA StepAnswer == AnswerInv /\ [Next]_vars => AnswerInv'
<1> SUFFICES ASSUME AnswerInv, [Next]_vars PROVE AnswerInv'
    OBVIOUS
<1>1. ASSUME \/ \E on \in BOOLEAN : set_preparse_enabled(on)
             \/ HeapChanges
      PROVE  AnswerInv'
      BY <1>1 DEF set_preparse_enabled, HeapChanges, sessionVars, AnswerInv, Scanned, Building,
                  Answered, Live
<1>2. ASSUME NEW s \in Sessions, reset_stats(s) PROVE AnswerInv'
      BY <1>2 DEF reset_stats, AnswerInv, Scanned, Building, Answered, Live
<1>3. ASSUME NEW s \in Sessions, NEW b \in Buffers, parse_into(s, b) PROVE AnswerInv'
      BY <1>3 DEF parse_into, Goto, AnswerInv, Scanned, Building, Answered, Live
<1>4. ASSUME NEW s \in Sessions, ReadFlag(s) PROVE AnswerInv'
      BY <1>4 DEF ReadFlag, Goto, AnswerInv, Scanned, Building, Answered, Live
<1>5. ASSUME NEW s \in Sessions, Scan(s) PROVE AnswerInv'
  <2>1. pc[s] = "scan" /\ buffer[s] \in Buffers
    BY <1>5 DEF Scan, AnswerInv
  <2>2. CASE (\E o \in Frames[buffer[s]] : idx' = [idx EXCEPT ![s] = o]) /\ Goto(s, "route")
    <3>1. PICK o \in Frames[buffer[s]] : idx' = [idx EXCEPT ![s] = o]
      BY <2>2
    <3>2. o \in FrameIndices(buffer[s])
      BY <2>1, <3>1, ScanDelivers
    <3> QED BY <1>5, <2>1, <2>2, <3>1, <3>2
            DEF Scan, Goto, AnswerInv, Scanned, Building, Answered, Live
  <2>3. CASE idx' = [idx EXCEPT ![s] = Reset(@)] /\ Goto(s, "fallback")
    BY <1>5, <2>1, <2>3 DEF Scan, Goto, AnswerInv, Scanned, Building, Answered, Live
  <2> QED BY <1>5, <2>2, <2>3 DEF Scan
<1>6. ASSUME NEW s \in Sessions, Route(s) PROVE AnswerInv'
      BY <1>6 DEF Route, Goto, AnswerInv, Scanned, Building, Answered, Live
<1>7. ASSUME NEW s \in Sessions, Translate(s) PROVE AnswerInv'
  <2>1. idx[s] \in FrameIndices(buffer[s])
    BY <1>7 DEF Translate, AnswerInv, Scanned
  <2>2. idx[s].field_count \in 0 .. kMaxFields /\ idx[s].field_count \in Nat
    BY <2>1, FieldCountType
  <2>3. \A k \in Live(s) : FieldBase(Translated(s)[k]) = Handed(buffer[s], idx[s].fields[k])
    BY <2>2, TranslationHandsOver
  <2>4. Cleared = Gathered(HandedOver(buffer[s], idx[s], 0))
    <3>1. HandedOver(buffer[s], idx[s], 0) = << >>
      BY DEF HandedOver
    <3> QED BY <3>1, NothingGathered
  <2>5. Building(s)'
    BY <1>7, <2>2, <2>3, <2>4 DEF Translate, AnswerInv, Building, Live
  <2>6. ASSUME NEW r \in Sessions, r # s, Building(r) PROVE Building(r)'
    BY <1>7, <2>6 DEF Translate, AnswerInv, Building, Live
  <2>7. ASSUME NEW r \in Sessions, r # s, Answered(r) PROVE Answered(r)'
    BY <1>7, <2>7 DEF Translate, AnswerInv, Answered
  <2> QED BY <1>7, <2>5, <2>6, <2>7 DEF Translate, Goto, AnswerInv, Scanned
<1>8. ASSUME NEW s \in Sessions, Build(s) PROVE AnswerInv'
  <2>1. idx[s] \in FrameIndices(buffer[s]) /\ Building(s)
    BY <1>8 DEF Build, AnswerInv, Scanned
  <2>2. /\ idx[s].field_count \in Nat /\ built[s] \in Nat /\ built[s] < idx[s].field_count
        /\ built[s] \in Live(s)
    BY <1>8, <2>1, FieldCountType DEF Build, Building, Live
  <2>3. FieldBase(scratch[s][built[s]]) = Handed(buffer[s], idx[s].fields[built[s]])
    BY <2>1, <2>2 DEF Building
  <2>4. AppendField(message[s], FieldBase(scratch[s][built[s]]))
          = Gathered(HandedOver(buffer[s], idx[s], built[s] + 1))
    BY <2>1, <2>2, <2>3, OneMoreHanded DEF Building
  <2>5. Building(s)'
    BY <1>8, <2>1, <2>2, <2>4 DEF Build, AnswerInv, Building, Live
  <2>6. ASSUME NEW r \in Sessions, r # s, Building(r) PROVE Building(r)'
    BY <1>8, <2>6 DEF Build, AnswerInv, Building, Live
  <2>7. ASSUME NEW r \in Sessions, r # s, Answered(r) PROVE Answered(r)'
    BY <1>8, <2>7 DEF Build, AnswerInv, Answered
  <2> QED BY <1>8, <2>5, <2>6, <2>7 DEF Build, AnswerInv, Scanned
<1>9. ASSUME NEW s \in Sessions, BuildThrows(s) PROVE AnswerInv'
      BY <1>9 DEF BuildThrows, Goto, AnswerInv, Scanned, Building, Answered, Live
<1>10. ASSUME NEW s \in Sessions, FastPathSucceeds(s) PROVE AnswerInv'
  <2>1. /\ buffer[s] \in Buffers /\ idx[s] \in FrameIndices(buffer[s]) /\ Building(s)
        /\ built[s] = idx[s].field_count
    BY <1>10 DEF FastPathSucceeds, AnswerInv, Scanned
  <2>2. SortFields(message[s]) = Parsed(Frame(buffer[s], idx[s]))
    BY <2>1, AllHandedOver, ShimAssumption DEF Building
  <2>3. Answered(s)'
    BY <1>10, <2>1, <2>2 DEF FastPathSucceeds, Answer, AnswerInv, Answered
  <2>4. ASSUME NEW r \in Sessions, r # s, Building(r) PROVE Building(r)'
    BY <1>10, <2>4 DEF FastPathSucceeds, AnswerInv, Building, Live
  <2>5. ASSUME NEW r \in Sessions, r # s, Answered(r) PROVE Answered(r)'
    BY <1>10, <2>5 DEF FastPathSucceeds, Answer, AnswerInv, Answered
  <2> QED BY <1>10, <2>3, <2>4, <2>5 DEF FastPathSucceeds, Answer, Goto, AnswerInv, Scanned
<1>11. ASSUME NEW s \in Sessions, FallBack(s) PROVE AnswerInv'
       BY <1>11 DEF FallBack, Goto, AnswerInv, Scanned, Building, Answered, Live
<1>12. ASSUME NEW s \in Sessions, StockParses(s) PROVE AnswerInv'
  <2>1. buffer[s] \in Buffers
    BY <1>12 DEF StockParses, AnswerInv
  <2>2. PICK m \in Messages[buffer[s]] : message' = [message EXCEPT ![s] = m]
    BY <1>12 DEF StockParses
  <2>3. CanExtract(buffer[s]) /\ m = Parsed(buffer[s])
    BY <2>1, <2>2, StockDelivers
  <2>4. Answered(s)'
    BY <1>12, <2>2, <2>3 DEF StockParses, Answer, AnswerInv, Answered
  <2>5. ASSUME NEW r \in Sessions, r # s, Building(r) PROVE Building(r)'
    BY <1>12, <2>2, <2>5 DEF StockParses, AnswerInv, Building, Live
  <2>6. ASSUME NEW r \in Sessions, r # s, Answered(r) PROVE Answered(r)'
    BY <1>12, <2>2, <2>6 DEF StockParses, Answer, AnswerInv, Answered
  <2> QED BY <1>12, <2>2, <2>4, <2>5, <2>6 DEF StockParses, Answer, Goto, AnswerInv, Scanned
<1>13. ASSUME NEW s \in Sessions, StockThrows(s) PROVE AnswerInv'
  <2>1. /\ DOMAIN message' = Sessions
        /\ \A r \in Sessions : r # s => message'[r] = message[r]
    BY <1>13 DEF StockThrows, AnswerInv
  <2>2. ASSUME NEW r \in Sessions, r # s, Building(r) PROVE Building(r)'
    BY <1>13, <2>1, <2>2 DEF StockThrows, AnswerInv, Building, Live
  <2>3. ASSUME NEW r \in Sessions, r # s, Answered(r) PROVE Answered(r)'
    BY <1>13, <2>1, <2>3 DEF StockThrows, Answer, AnswerInv, Answered
  <2> QED BY <1>13, <2>1, <2>2, <2>3 DEF StockThrows, Answer, Goto, AnswerInv, Scanned
<1>14. CASE UNCHANGED vars
       BY <1>14 DEF vars, sessionVars, AnswerInv, Scanned, Building, Answered, Live
<1>15. QED
       BY <1>1, <1>2, <1>3, <1>4, <1>5, <1>6, <1>7, <1>8, <1>9, <1>10, <1>11, <1>12,
          <1>13, <1>14 DEF Next, Step

(* quickfix_shim.hpp: whichever parser answered, TRUE means that the message   *)
(* is the one QuickFIX alone makes of the same bytes.                        *)
THEOREM FastPathParsesAsQuickFix == Spec => []TrueMeansParsed
<1>1. AnswerInv => TrueMeansParsed
      BY DEF AnswerInv, Answered, Frame, TrueMeansParsed
<1>2. QED
      BY <1>1, InitAnswer, StepAnswer, PTL DEF Spec

-----------------------------------------------------------------------------
LEMMA ServiceSection == ASSUME NEW t PROVE Service!Section(t) = Section(t)
BY DEF Section, Service!Section

LEMMA ServiceFrames ==
    ASSUME NEW b
    PROVE  Service!FrameIndices(b) = FrameIndices(b)
BY DEF FrameIndices, Service!FrameIndices, SohOffsets, Service!SohOffsets,
       ElementsAt, Service!ElementsAt, EqualsIn, Service!EqualsIn,
       PieceStart, Service!PieceStart, CutIndex, Service!CutIndex,
       Representable, Service!Representable, Saturated, Service!Saturated,
       ExactIndex, Service!ExactIndex, DelimitsFrame, Service!DelimitsFrame,
       Tiles, Service!Tiles, WellFormedField, Service!WellFormedField,
       CanonicalOrder, Service!CanonicalOrder, LengthAgrees, Service!LengthAgrees,
       ThreeDigitChecksum, Service!ThreeDigitChecksum, NumbersMatch, Service!NumbersMatch,
       Numeral, Service!Numeral,
       Decimal, Service!Decimal, HasLiteral, Service!HasLiteral, Entry, Service!Entry,
       U32, Service!U32, ByteAt, Service!ByteAt, IsDigit, Service!IsDigit,
       Digit, Service!Digit, Equals, Service!Equals, Soh, Service!Soh, Min, Service!Min

LEMMA ServiceExtract ==
    ASSUME NEW b
    PROVE  Service!CanExtract(b) = CanExtract(b) /\ Service!Extracted(b) = Extracted(b)
BY DEF CanExtract, Service!CanExtract, Extracted, Service!Extracted,
       SohOffsets, Service!SohOffsets,
       ElementsAt, Service!ElementsAt, EqualsIn, Service!EqualsIn,
       PieceStart, Service!PieceStart, FieldBase, Service!FieldBase, PreScanField,
       Service!PreScanField, ToInt, Service!ToInt, INT_MAX, Service!INT_MAX,
       Decimal, Service!Decimal,
       U32, Service!U32, ByteAt, Service!ByteAt, IsDigit, Service!IsDigit,
       Digit, Service!Digit, Equals, Service!Equals, Soh, Service!Soh, Min, Service!Min

LEMMA ServiceGathered ==
    ASSUME NEW fields
    PROVE  Service!SortFields(Service!Gathered(fields)) = SortFields(Gathered(fields))
BY DEF SortFields, Service!SortFields, Gathered, Service!Gathered, Reached, Service!Reached,
       OutsideHeader, Service!OutsideHeader, OutOfPlace, Service!OutOfPlace, Section, 
       Service!Section, ElementsAt, Service!ElementsAt, Min, Service!Min, Max, Service!Max

LEMMA ServiceParsed ==
    ASSUME NEW b
    PROVE  Service!Parsed(b) = Parsed(b)
BY ServiceExtract, ServiceGathered DEF Parsed, Service!Parsed

LEMMA ServiceFast ==
    ASSUME NEW b, NEW o \in FrameIndices(b)
    PROVE  o \in Service!Fast(b) <=> ~RequiresDictionaryParse(o)
BY ServiceFrames DEF Service!Fast, RequiresDictionaryParse

(* A buffer that some scanner refuses, or whose frame has groups, has no frame  *)
(* that the fast path must take: no buffer begins with two frames.             *)
LEMMA ServiceFastForAll ==
    ASSUME NEW b \in Buffers,
           \/ \A o \in FrameIndices(b) : ~AcceptedByAll(b, o)
           \/ \E o \in FrameIndices(b) : RequiresDictionaryParse(o)
    PROVE  Service!FastForAll(b) = {}
<1>1. SUFFICES ASSUME NEW r \in Service!FastForAll(b) PROVE FALSE
  OBVIOUS
<1>2. r \in Service!Fast(b)
  BY DEF Service!FastForAll
<1>3. r \in FrameIndices(b)
  BY <1>2, ServiceFrames DEF Service!Fast
<1>4. AcceptedByAll(b, r)
  <2>1. Service!Equals = Equals
    BY DEF Equals, Service!Equals
  <2>2. \A i, lit : Service!HasLiteral(b, i, lit) = HasLiteral(b, i, lit)
    BY DEF HasLiteral, Service!HasLiteral
  <2> QED BY <2>1, <2>2 DEF Service!FastForAll, AcceptedByAll
<1>5. PICK o \in FrameIndices(b) : RequiresDictionaryParse(o)
  BY <1>3, <1>4
<1>6. o = r
  <2>1. b \in Seq(Byte)
    BY ShimAssumption
  <2>2. Whole(b, o) /\ Whole(b, r) /\ FrameShape(o) /\ FrameShape(r)
    BY <1>3, <2>1, FrameIsWhole, FrameHasShape
  <2> QED BY <2>1, <2>2, FrameIsUnique
<1> QED BY <1>2, <1>3, <1>5, <1>6, ServiceFast

Phases == [s \in Sessions |-> Phase(s)]

Reply(s) == IF pc[s] = "idle" /\ result[s] THEN message[s] ELSE [none |-> TRUE]

Replies == [s \in Sessions |-> Reply(s)]

LEMMA InitIsServiceInit == Init => Service!Init
<1> SUFFICES ASSUME Init PROVE Service!Init
  OBVIOUS
<1>1. Phases = [s \in Sessions |-> "idle"]
  BY DEF Init, Phases, Phase
<1>2. Replies = [s \in Sessions |-> [none |-> TRUE]]
  BY DEF Init, Replies, Reply
<1> QED BY <1>1, <1>2 DEF Init, Phases, Replies, Reply, Service!Init, Service!NoMessage

(* A statement of the session s: the others see nothing of it.                 *)
OthersRest(s) ==
    /\ \A r \in Sessions \ {s} :
          /\ pc'[r] = pc[r] /\ idx'[r] = idx[r]
          /\ result'[r] = result[r] /\ message'[r] = message[r]
    /\ UNCHANGED <<enabled, exhausted>>

LEMMA OthersKeepPhase ==
    ASSUME NEW s \in Sessions, OthersRest(s), NEW r \in Sessions \ {s}
    PROVE  Phase(r)' = Phase(r)
BY DEF OthersRest, Phase

(* The call goes on in another phase, or in the same.                         *)
LEMMA GoesOn ==
    ASSUME NEW s \in Sessions, NEW from, NEW to, OthersRest(s), buffer' = buffer,
           pc[s] # "idle", pc'[s] # "idle", Phase(s) = from, Phase(s)' = to
    PROVE  /\ Service!Enter(s, from, to)
           /\ from = to => UNCHANGED Service!vars
<1>1. Phases' = [Phases EXCEPT ![s] = to]
  BY OthersKeepPhase DEF Phases
<1>2. Replies' = Replies
  BY DEF OthersRest, Replies, Reply
<1>3. Phases[s] = from /\ (from = to => Phases' = Phases)
  BY <1>1 DEF Phases
<1>4. enabled' = enabled /\ exhausted' = exhausted
  BY DEF OthersRest
<1> QED BY <1>1, <1>2, <1>3, <1>4 DEF Phases, Replies, Reply, Service!Enter, Service!vars

(* The call comes back, with a message or without.                            *)
LEMMA ComesBack ==
    ASSUME NEW s \in Sessions, NEW from, NEW m, OthersRest(s), buffer' = buffer,
           pc[s] # "idle", pc'[s] = "idle", Phase(s) = from, Reply(s)' = m
    PROVE  Service!Answer(s, from, m)
<1>1. Phases' = [Phases EXCEPT ![s] = "idle"]
  <2>1. Phase(s)' = "idle"
    BY DEF Phase
  <2> QED BY <2>1, OthersKeepPhase DEF Phases
<1>2. Replies' = [Replies EXCEPT ![s] = m]
  BY DEF OthersRest, Replies, Reply
<1>3. Phases[s] = from
  BY DEF Phases
<1>4. enabled' = enabled /\ exhausted' = exhausted
  BY DEF OthersRest
<1> QED BY <1>1, <1>2, <1>3, <1>4 DEF Phases, Replies, Reply, Service!Answer

LEMMA ParseIntoIsBegin ==
    ASSUME AnswerInv, NEW s \in Sessions, NEW b \in Buffers, parse_into(s, b)
    PROVE  Service!Begin(s)
<1>1. /\ pc[s] = "idle" /\ pc' = [pc EXCEPT ![s] = "flag"] /\ idx' = idx
      /\ buffer' = [buffer EXCEPT ![s] = b] /\ result' = result /\ message' = message
      /\ UNCHANGED <<enabled, exhausted>>
  BY DEF parse_into, Goto
<1>2. Phases[s] = "idle" /\ Phases' = [Phases EXCEPT ![s] = "called"]
  <2>1. Phase(s) = "idle" /\ Phase(s)' = "called"
    BY <1>1 DEF Phase, AnswerInv
  <2>2. \A r \in Sessions \ {s} : Phase(r)' = Phase(r)
    BY <1>1 DEF Phase, AnswerInv
  <2> QED BY <2>1, <2>2 DEF Phases
<1>3. buffer'[s] = b /\ b \in Seq(Byte) /\ buffer' = [buffer EXCEPT ![s] = buffer'[s]]
  BY <1>1, ShimAssumption DEF AnswerInv
<1>4. Replies' = [Replies EXCEPT ![s] = [none |-> TRUE]]
  BY <1>1 DEF Replies, Reply, AnswerInv
<1>5. Service!Byte = Byte
  BY DEF Byte, Service!Byte
<1> QED BY <1>1, <1>2, <1>3, <1>4, <1>5
        DEF Phases, Replies, Reply, Service!Begin, Service!NoMessage

LEMMA ReadFlagIsConsult ==
    ASSUME AnswerInv, NEW s \in Sessions, ReadFlag(s)
    PROVE  Service!Consult(s)
<1>1. /\ pc[s] = "flag" /\ OthersRest(s) /\ buffer' = buffer
      /\ pc'[s] = IF enabled THEN "scan" ELSE "stock"
  BY DEF ReadFlag, Goto, OthersRest, AnswerInv
<1>2. Phase(s) = "called" /\ Phase(s)' = IF enabled THEN "attempting" ELSE "whole"
  BY <1>1 DEF Phase
<1>3. pc[s] # "idle" /\ pc'[s] # "idle"
  BY <1>1
<1> QED BY <1>1, <1>2, <1>3, GoesOn DEF Service!Consult

(* What the scanner says of the buffer is what the service finds.              *)
LEMMA ScanIsFind ==
    ASSUME AnswerInv, NEW s \in Sessions, Scan(s)
    PROVE  Service!Find(s)
<1> DEFINE b == buffer[s]
<1>1. /\ pc[s] = "scan" /\ OthersRest(s) /\ buffer' = buffer /\ b \in Buffers
  BY DEF Scan, Goto, OthersRest, AnswerInv
<1>2. Phase(s) = "attempting"
  BY <1>1 DEF Phase
<1>3. CASE (\E o \in Frames[b] : idx' = [idx EXCEPT ![s] = o]) /\ Goto(s, "route")
  <2>1. PICK o \in Frames[b] : idx' = [idx EXCEPT ![s] = o]
    BY <1>3
  <2>2. o \in FrameIndices(b) /\ idx'[s] = o /\ pc'[s] = "route"
    BY <1>1, <1>3, <2>1, ScanDelivers DEF Goto, AnswerInv
  <2>3. CASE RequiresDictionaryParse(o)
    <3>1. Phase(s)' = "whole"
      BY <2>2, <2>3 DEF Phase
    <3>2. Service!FastForAll(b) = {}
      BY <1>1, <2>2, <2>3, ServiceFastForAll
    <3> QED BY <1>1, <1>2, <2>2, <3>1, <3>2, GoesOn DEF Service!Find
  <2>4. CASE ~RequiresDictionaryParse(o)
    <3>1. Phase(s)' = "frame"
      BY <2>2, <2>4 DEF Phase
    <3>2. Service!Fast(b) # {}
      BY <2>2, <2>4, ServiceFast
    <3> QED BY <1>1, <1>2, <2>2, <3>1, <3>2, GoesOn DEF Service!Find
  <2> QED BY <2>3, <2>4
<1>4. CASE (\A o \in Frames[b] : ~AcceptedByAll(b, o)) /\ Goto(s, "fallback")
  <2>1. pc'[s] = "fallback"
    BY <1>4 DEF Goto, AnswerInv
  <2>2. Phase(s)' = "whole"
    BY <2>1 DEF Phase
  <2>3. \A o \in FrameIndices(b) : ~AcceptedByAll(b, o)
    BY <1>1, <1>4 DEF Frames
  <2>4. Service!FastForAll(b) = {}
    BY <1>1, <2>3, ServiceFastForAll
  <2> QED BY <1>1, <1>2, <2>1, <2>2, <2>4, GoesOn DEF Service!Find
<1> QED BY <1>3, <1>4 DEF Scan

LEMMA BuildThrowsIsForgo ==
    ASSUME AnswerInv, NEW s \in Sessions, BuildThrows(s)
    PROVE  Service!Forgo(s)
<1>1. /\ pc[s] = "build" /\ pc'[s] = "fallback" /\ exhausted
      /\ OthersRest(s) /\ buffer' = buffer
  BY DEF BuildThrows, Goto, OthersRest, AnswerInv
<1>2. Phase(s) = "frame" /\ Phase(s)' = "whole"
  BY <1>1 DEF Phase
<1> QED BY <1>1, <1>2, GoesOn DEF Service!Forgo

LEMMA SucceedsIsAnswerFrame ==
    ASSUME AnswerInv, NEW s \in Sessions, FastPathSucceeds(s)
    PROVE  Service!AnswerFrame(s)
<1>1. /\ pc[s] = "build" /\ buffer[s] \in Buffers /\ idx[s] \in FrameIndices(buffer[s])
      /\ ~RequiresDictionaryParse(idx[s])
      /\ Building(s) /\ built[s] = idx[s].field_count
  BY DEF FastPathSucceeds, AnswerInv, Scanned
<1>2. SortFields(message[s]) = Parsed(Frame(buffer[s], idx[s]))
  BY <1>1, AllHandedOver, ShimAssumption DEF Building
<1>3. PICK m : m = Parsed(Frame(buffer[s], idx[s]))
  OBVIOUS
<1>4. /\ pc'[s] = "idle" /\ OthersRest(s) /\ buffer' = buffer /\ Reply(s)' = m
  BY <1>1, <1>2, <1>3 DEF FastPathSucceeds, Answer, Goto, OthersRest, Reply, AnswerInv
<1>5. Phase(s) = "frame"
  BY <1>1 DEF Phase
<1>6. Service!Answer(s, "frame", m)
  BY <1>1, <1>4, <1>5, ComesBack
<1>7. PICK o : o = idx[s]
  OBVIOUS
<1>8. o \in Service!Fast(buffer[s]) /\ Service!Parsed(SubSeq(buffer[s], 1, o.frame_length)) = m
  BY <1>1, <1>3, <1>7, ServiceFast, ServiceParsed DEF Frame
<1> QED BY <1>6, <1>8 DEF Service!AnswerFrame, Service!Answer

LEMMA ParsesIsAnswerWhole ==
    ASSUME AnswerInv, NEW s \in Sessions, StockParses(s)
    PROVE  Service!AnswerWhole(s)
<1>1. pc[s] = "stock" /\ buffer[s] \in Buffers
  BY DEF StockParses, AnswerInv
<1>2. PICK m \in Messages[buffer[s]] : message' = [message EXCEPT ![s] = m]
  BY DEF StockParses
<1>3. CanExtract(buffer[s]) /\ m = Parsed(buffer[s])
  BY <1>1, <1>2, StockDelivers
<1>4. pc'[s] = "idle" /\ OthersRest(s) /\ buffer' = buffer /\ Reply(s)' = m
  BY <1>2 DEF StockParses, Answer, Goto, OthersRest, Reply, AnswerInv
<1>5. Phase(s) = "whole"
  BY <1>1 DEF Phase
<1>6. Service!Answer(s, "whole", m)
  BY <1>1, <1>4, <1>5, ComesBack
<1>7. Service!CanExtract(buffer[s]) /\ Service!Parsed(buffer[s]) = m
  BY <1>3, ServiceExtract, ServiceParsed
<1> QED BY <1>6, <1>7 DEF Service!AnswerWhole, Service!Answer

LEMMA ThrowIsFail ==
    ASSUME AnswerInv, NEW s \in Sessions, StockThrows(s)
    PROVE  Service!Fail(s)
<1>1. /\ pc[s] = "stock" /\ buffer[s] \in Buffers /\ pc'[s] = "idle"
      /\ Messages[buffer[s]] = {} \/ exhausted
      /\ OthersRest(s) /\ buffer' = buffer /\ Reply(s)' = [none |-> TRUE]
  BY DEF StockThrows, Answer, Goto, OthersRest, Reply, AnswerInv
<1>2. Phase(s) = "whole"
  BY <1>1 DEF Phase
<1>3. Service!Answer(s, "whole", [none |-> TRUE])
  BY <1>1, <1>2, ComesBack
<1>4. ~CanExtract(buffer[s]) \/ exhausted
  BY <1>1 DEF Messages
<1> QED BY <1>3, <1>4, ServiceExtract DEF Service!Fail, Service!NoMessage

(* What a parser does inside, the caller does not see.                         *)
LEMMA InsideIsHidden ==
    ASSUME AnswerInv, NEW s \in Sessions,
           Route(s) \/ Translate(s) \/ Build(s) \/ FallBack(s)
    PROVE  UNCHANGED Service!vars
<1>1. OthersRest(s) /\ buffer' = buffer /\ idx' = idx
  BY DEF Route, Translate, Build, FallBack, Goto, OthersRest, AnswerInv
<1>2. /\ pc[s] # "idle" /\ pc'[s] # "idle"
      /\ Phase(s)' = Phase(s)
  <2>1. CASE Route(s)
    <3>1. /\ pc[s] = "route"
          /\ pc'[s] = IF RequiresDictionaryParse(idx[s]) THEN "fallback" ELSE "translate"
      BY <2>1 DEF Route, Goto, AnswerInv
    <3> QED BY <3>1 DEF Phase
  <2>2. CASE Translate(s)
    <3>1. pc[s] = "translate" /\ pc'[s] = "build"
      BY <2>2 DEF Translate, Goto, AnswerInv
    <3> QED BY <3>1 DEF Phase
  <2>3. CASE Build(s)
    <3>1. pc[s] = "build" /\ pc'[s] = "build"
      BY <2>3 DEF Build
    <3> QED BY <3>1 DEF Phase
  <2>4. CASE FallBack(s)
    <3>1. pc[s] = "fallback" /\ pc'[s] = "stock"
      BY <2>4 DEF FallBack, Goto, AnswerInv
    <3> QED BY <3>1 DEF Phase
  <2> QED BY <2>1, <2>2, <2>3, <2>4
<1> QED BY <1>1, <1>2, GoesOn

LEMMA NothingIsHidden ==
    ASSUME UNCHANGED <<enabled, exhausted, pc, buffer, idx, message, result>>
    PROVE  UNCHANGED Service!vars
BY DEF Phase, Service!vars

LEMMA EnvironmentIsEnvironment ==
    ASSUME \/ \E on \in BOOLEAN : set_preparse_enabled(on)
           \/ HeapChanges
    PROVE  Service!Environment
<1>1. /\ \/ enabled' \in BOOLEAN /\ exhausted' = exhausted
         \/ exhausted' \in BOOLEAN /\ enabled' = enabled
      /\ UNCHANGED <<pc, buffer, idx, message, result>>
  BY DEF set_preparse_enabled, HeapChanges, sessionVars
<1> QED BY <1>1 DEF Phase, Service!Environment

LEMMA StepIsServiceStep == AnswerInv /\ [Next]_vars => [Service!Next]_Service!vars
<1> SUFFICES ASSUME AnswerInv, [Next]_vars PROVE [Service!Next]_Service!vars
  OBVIOUS
<1>1. ASSUME \/ \E on \in BOOLEAN : set_preparse_enabled(on)
             \/ HeapChanges
      PROVE  Service!Next
  BY <1>1, EnvironmentIsEnvironment DEF Service!Next
<1>2. ASSUME NEW s \in Sessions, NEW b \in Buffers, parse_into(s, b) PROVE Service!Next
  BY <1>2, ParseIntoIsBegin DEF Service!Next
<1>3. ASSUME NEW s \in Sessions,
             \/ ReadFlag(s) \/ Scan(s) \/ BuildThrows(s)
             \/ FastPathSucceeds(s) \/ StockParses(s) \/ StockThrows(s)
      PROVE  Service!Next
  BY <1>3, ReadFlagIsConsult, ScanIsFind, BuildThrowsIsForgo, SucceedsIsAnswerFrame,
     ParsesIsAnswerWhole, ThrowIsFail DEF Service!Next
<1>4. ASSUME NEW s \in Sessions, Route(s) \/ Translate(s) \/ Build(s) \/ FallBack(s)
      PROVE  UNCHANGED Service!vars
  BY <1>4, InsideIsHidden
<1>5. ASSUME NEW s \in Sessions, reset_stats(s) PROVE UNCHANGED Service!vars
  BY <1>5, NothingIsHidden DEF reset_stats
<1>6. CASE UNCHANGED vars
  BY <1>6, NothingIsHidden DEF vars, sessionVars
<1>7. QED
  BY <1>1, <1>2, <1>3, <1>4, <1>5, <1>6 DEF Next, Step

(* quickfix_shim.hpp, parse_into: seen by its callers each of any number of    *)
(* sessions is the service that ParseService describes: the flag as it was     *)
(* read, the buffer and the heap decide which parser answers and with what.    *)
THEOREM ShimImplementsService == Spec => ImplementsService
<1>1. Init /\ [][Next]_vars => []AnswerInv
  BY InitAnswer, StepAnswer, PTL
<1> QED
  BY <1>1, InitIsServiceInit, StepIsServiceStep, PTL DEF Spec, ImplementsService, Service!Spec
=============================================================================
