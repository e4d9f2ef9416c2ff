------------------------ MODULE MonitorManagerProofs ------------------------
(***************************************************************************)
(* Safety of MonitorManager for every set of panels and handles, every     *)
(* layout of the desktop and every failure of its calls.  The steps are    *)
(* stated as lemmas about the actions, so that AdjustmentCoordinatorProofs *)
(* can cite them for the composition.                                      *)
(***************************************************************************)
EXTENDS MonitorManager, FiniteSetTheorems, FunctionTheorems,
        SequenceTheorems, WellFoundedInduction, NaturalsInduction,
        TLAPS

ManagerInv == ManagerTypeOK /\ HandlesOwnedOnce

-----------------------------------------------------------------------------
(* Types.                                                                  *)

LEMMA TupleIsSeq ==
    ASSUME NEW S, NEW n \in Nat, NEW f \in [1 .. n -> S] PROVE f \in Seq(S)
OBVIOUS

LEMMA ManagerFrame ==
    ASSUME ManagerTypeOK, UNCHANGED <<managerVars, routes, panelValue>>
    PROVE  ManagerTypeOK'
BY DEF ManagerTypeOK, managerVars

\* The choices a successful Refresh makes.
LEMMA RebuildChoices ==
    ASSUME Rebuild
    PROVE  \E listed \in SUBSET DOMAIN desktop :
             \E acquired \in SUBSET listed, order \in Ascending(listed) :
               \E opened \in [Wanted(acquired) -> FreeHandles] :
                 /\ \A a, b \in Wanted(acquired) :
                      opened[a] = opened[b] => a = b
                 /\ m_monitors' = EntriesFor(order, acquired, opened)
                 /\ routes' = RoutesAfter(opened)
<1>1. PICK informed \in Answered(DOMAIN desktop) :
        \E acquired \in Answered({i \in informed : ~InternalGate(i)}),
           order \in Ascending({i \in informed : ~InternalGate(i)}) :
          \E opened \in [Wanted(acquired) -> FreeHandles] :
            /\ \A a, b \in Wanted(acquired) : opened[a] = opened[b] => a = b
            /\ m_monitors' = EntriesFor(order, acquired, opened)
            /\ routes' = RoutesAfter(opened)
  BY Zenon DEF Rebuild
<1> DEFINE listed == {i \in informed : ~InternalGate(i)}
<1>2. \A S, T : S \in Answered(T) => S \subseteq T
  BY DEF Answered
<1>3. listed \in SUBSET DOMAIN desktop BY <1>2
<1>4. \A S \in Answered(listed) : S \in SUBSET listed BY <1>2
<1>5. QED
  <2> HIDE DEF listed
  <2> QED BY <1>1, <1>3, <1>4, Zenon DEF listed

LEMMA WantedType ==
    ASSUME ManagerTypeOK, NEW acquired \in SUBSET DOMAIN desktop,
           NEW w \in Wanted(acquired)
    PROVE  desktop[w[1]][w[2]] \in Panels
<1>1. desktop \in Seq(Seq(Panels)) BY LayoutAssumption DEF ManagerTypeOK
<1>2. PICK i \in acquired : w \in {i} \X DOMAIN desktop[i] BY DEF Wanted
<1>3. w[1] = i /\ w[2] \in DOMAIN desktop[i] BY <1>2
<1>4. desktop[i] \in Seq(Panels) BY <1>1, <1>2
<1>5. QED BY <1>3, <1>4

LEMMA EnumerateType ==
    ASSUME ManagerTypeOK, Enumerate PROVE ManagerTypeOK'
<1>1. CASE Rebuild
  <2>1a. PICK listed \in SUBSET DOMAIN desktop :
            \E acquired \in SUBSET listed, order \in Ascending(listed) :
              \E opened \in [Wanted(acquired) -> FreeHandles] :
                /\ m_monitors' = EntriesFor(order, acquired, opened)
                /\ routes' = RoutesAfter(opened)
    BY <1>1, RebuildChoices, Zenon
  <2>1b. PICK acquired \in SUBSET listed, order \in Ascending(listed) :
            \E opened \in [Wanted(acquired) -> FreeHandles] :
              /\ m_monitors' = EntriesFor(order, acquired, opened)
              /\ routes' = RoutesAfter(opened)
    BY <2>1a, Zenon
  <2>1. PICK opened \in [Wanted(acquired) -> FreeHandles] :
              /\ m_monitors' = EntriesFor(order, acquired, opened)
              /\ routes' = RoutesAfter(opened)
    BY <2>1b, Zenon
  <2>2. /\ desktop \in Seq(Seq(Panels))
        /\ DOMAIN desktop = 1 .. Len(desktop) /\ Len(desktop) \in Nat
    BY LayoutAssumption DEF ManagerTypeOK
  <2>3. \A i \in DOMAIN desktop :
          /\ desktop[i] \in Seq(Panels)
          /\ DOMAIN desktop[i] = 1 .. Len(desktop[i])
          /\ Len(desktop[i]) \in Nat
    BY <2>2
  <2>4. IsFiniteSet(listed) /\ Cardinality(listed) \in Nat
    <3>1. IsFiniteSet(DOMAIN desktop) BY <2>2, FS_Interval
    <3>2. QED BY <3>1, FS_Subset, FS_CardinalityType
  <2>5. order \in [1 .. Cardinality(listed) -> listed] BY DEF Ascending
  <2>6. \A i \in acquired : \A k \in DOMAIN desktop[i] :
           opened[<<i, k>>] \in Handles
    <3> TAKE i \in acquired
    <3> TAKE k \in DOMAIN desktop[i]
    <3>1. <<i, k>> \in Wanted(acquired) BY DEF Wanted
    <3>2. QED BY <3>1 DEF FreeHandles
  <2>7. ASSUME NEW n \in 1 .. Cardinality(listed)
        PROVE  m_monitors'[n] \in Seq(Handles)
    <3>1. order[n] \in DOMAIN desktop BY <2>5
    <3>2. m_monitors'[n] =
            IF order[n] \in acquired
            THEN [k \in 1 .. Len(desktop[order[n]]) |->
                    opened[<<order[n], k>>]]
            ELSE <<>>
      BY <2>1, <2>5 DEF EntriesFor
    <3>3. CASE order[n] \in acquired
      <4>1. m_monitors'[n] \in [1 .. Len(desktop[order[n]]) -> Handles]
        BY <2>3, <2>6, <3>1, <3>2, <3>3
      <4>2. Len(desktop[order[n]]) \in Nat BY <2>3, <3>1
      <4>3. QED BY <4>1, <4>2, TupleIsSeq
    <3>4. CASE order[n] \notin acquired BY <3>2, <3>4, EmptySeq
    <3>5. QED BY <3>3, <3>4
  <2>8. m_monitors' \in Seq(Seq(Handles))
    <3>1. m_monitors' \in [1 .. Cardinality(listed) -> Seq(Handles)]
      BY <2>1, <2>5, <2>7 DEF EntriesFor
    <3>2. QED BY <2>4, <3>1
  <2>9. \A a \in DOMAIN opened : desktop[a[1]][a[2]] \in Panels BY WantedType
  <2>10. routes' \in [Handles -> Panels \cup {"free", "gone"}]
    <3>1. \A h \in Handles : routes'[h] \in Panels \cup {"free", "gone"}
      BY <2>1, <2>9 DEF RoutesAfter, ManagerTypeOK
    <3>2. QED BY <2>1, <3>1 DEF RoutesAfter
  <2>11. NoTargets.layout = <<>> /\ NoTargets.resolved = {} BY DEF NoTargets
  <2>12. QED BY <2>8, <2>10, <2>11 DEF Enumerate, ManagerTypeOK
<1>2. CASE UNCHANGED <<m_monitors, routes>>
  <2>1. NoTargets.layout = <<>> /\ NoTargets.resolved = {} BY DEF NoTargets
  <2>2. QED BY <1>2, <2>1 DEF Enumerate, ManagerTypeOK
<1>3. QED BY <1>1, <1>2 DEF Enumerate

LEMMA AttachedType ==
    ASSUME NEW layout \in Layouts PROVE Attached(layout) \subseteq Panels
<1>1. layout \in Seq(Seq(Panels)) BY LayoutAssumption
<1>2. SUFFICES ASSUME NEW k \in UNION { {i} \X DOMAIN layout[i] :
                                         i \in DOMAIN layout }
               PROVE  layout[k[1]][k[2]] \in Panels
  BY DEF Attached
<1>3. PICK i \in DOMAIN layout : k \in {i} \X DOMAIN layout[i] BY <1>2
<1>4. k[1] = i /\ k[2] \in DOMAIN layout[i] BY <1>3
<1>5. layout[i] \in Seq(Panels) BY <1>1, <1>3
<1>6. QED BY <1>4, <1>5

LEMMA QueryType ==
    ASSUME ManagerTypeOK, QueryActiveTargets PROVE ManagerTypeOK'
<1>1. PICK resolved \in Answered(Attached(desktop)) :
         targets' = [layout |-> desktop, resolved |-> resolved]
  BY DEF QueryActiveTargets
<1>2. resolved \subseteq Panels
  BY <1>1, AttachedType DEF Answered, ManagerTypeOK
<1>3. targets'.layout = desktop /\ targets'.resolved = resolved BY <1>1
<1>4. QED BY <1>2, <1>3 DEF QueryActiveTargets, ManagerTypeOK

LEMMA PowerOnType ==
    ASSUME NEW p \in Panels PROVE PowerOn(p) \subseteq [Answers[p] -> Registers]
<1>1. {[holds |-> r, replies |-> r] : r \in PowerOnRaw} \subseteq Registers
  BY BusAssumption DEF Registers
<1>2. QED BY <1>1 DEF PowerOn

LEMMA TopologyType ==
    ASSUME ManagerTypeOK, TopologyChange PROVE ManagerTypeOK'
<1>1. routes' \in [Handles -> Panels \cup {"free", "gone"}]
  BY Zenon DEF TopologyChange, ManagerTypeOK
<1> DEFINE returning == Attached(desktop') \ Attached(desktop)
<1>2. PICK up \in [returning -> UNION {PowerOn(p) : p \in returning}] :
        /\ \A p \in returning : up[p] \in PowerOn(p)
        /\ panelValue' = [p \in Panels |-> IF p \in returning THEN up[p]
                                           ELSE panelValue[p]]
  BY DEF TopologyChange
<1>3. ASSUME NEW p \in Panels
      PROVE  panelValue'[p] \in [Answers[p] -> Registers]
  <2>1. CASE p \in returning
    <3>1. panelValue'[p] \in PowerOn(p) BY <1>2, <2>1
    <3>2. QED BY <3>1, PowerOnType
  <2>2. CASE p \notin returning
    BY <1>2, <2>2 DEF ManagerTypeOK
  <2>3. QED BY <2>1, <2>2
<1>4. panelValue' = [p \in Panels |-> panelValue'[p]] BY <1>2
<1>5. QED BY <1>1, <1>3, <1>4 DEF TopologyChange, ManagerTypeOK

LEMMA ManagerInitInv == ManagerInit => ManagerInv
<1> SUFFICES ASSUME ManagerInit PROVE ManagerInv OBVIOUS
<1>1. NoTargets.layout = <<>> /\ NoTargets.resolved = {} BY DEF NoTargets
<1>2. \A p \in Panels : panelValue[p] \in [Answers[p] -> Registers]
  BY PowerOnType DEF ManagerInit
<1>3. panelValue = [p \in Panels |-> panelValue[p]] BY DEF ManagerInit
<1>4. m_monitors \in Seq(Seq(Handles)) BY EmptySeq DEF ManagerInit
<1>5. routes \in [Handles -> Panels \cup {"free", "gone"}] BY DEF ManagerInit
<1>6. ManagerTypeOK
  BY <1>1, <1>2, <1>3, <1>4, <1>5 DEF ManagerInit, ManagerTypeOK
<1>7. Entries(m_monitors) = {} BY DEF Entries, ManagerInit
<1>8. HandlesOwnedOnce BY <1>7 DEF HandlesOwnedOnce, Owned, ManagerInit
<1>9. QED BY <1>6, <1>8 DEF ManagerInv

-----------------------------------------------------------------------------
(* Ownership.                                                              *)

\* What EntriesFor lists is what opened maps the wanted monitors to, each at
\* one place.
LEMMA EntriesOpened ==
    ASSUME ManagerTypeOK, NEW listed \in SUBSET DOMAIN desktop,
           NEW acquired \in SUBSET listed, NEW order \in Ascending(listed),
           NEW opened \in [Wanted(acquired) -> FreeHandles],
           \A a, b \in Wanted(acquired) : opened[a] = opened[b] => a = b,
           NEW new, new = EntriesFor(order, acquired, opened)
    PROVE  /\ \A a \in Entries(new) :
                /\ <<order[a[1]], a[2]>> \in Wanted(acquired)
                /\ new[a[1]][a[2]] = opened[<<order[a[1]], a[2]>>]
           /\ \A a, b \in Entries(new) :
                new[a[1]][a[2]] = new[b[1]][b[2]] => a = b
           /\ \A w \in Wanted(acquired) :
                \E a \in Entries(new) : new[a[1]][a[2]] = opened[w]
<1> DEFINE n == Cardinality(listed)
<1>1. /\ desktop \in Seq(Seq(Panels))
      /\ DOMAIN desktop = 1 .. Len(desktop) /\ Len(desktop) \in Nat
  BY LayoutAssumption DEF ManagerTypeOK
<1>2. \A i \in DOMAIN desktop :
        /\ DOMAIN desktop[i] = 1 .. Len(desktop[i])
        /\ Len(desktop[i]) \in Nat
  BY <1>1
<1>3. IsFiniteSet(listed) /\ n \in Nat
  <2>1. IsFiniteSet(DOMAIN desktop) BY <1>1, FS_Interval
  <2>2. QED BY <2>1, FS_Subset, FS_CardinalityType
<1>4. /\ order \in [1 .. n -> listed]
      /\ \A a, b \in 1 .. n : a < b => order[a] < order[b]
  BY DEF Ascending
<1>5. \A a, b \in 1 .. n : order[a] = order[b] => a = b
  <2> SUFFICES ASSUME NEW a \in 1 .. n, NEW b \in 1 .. n,
                      order[a] = order[b], a # b
               PROVE  FALSE
    OBVIOUS
  <2>1. order[a] \in Int /\ order[b] \in Int BY <1>1, <1>4
  <2>2. a < b \/ b < a BY <1>3
  <2>3. QED BY <1>4, <2>1, <2>2
<1>6. \A a \in Entries(new) :
        /\ a \in (1 .. n) \X Nat /\ a = <<a[1], a[2]>>
        /\ <<order[a[1]], a[2]>> \in Wanted(acquired)
        /\ new[a[1]][a[2]] = opened[<<order[a[1]], a[2]>>]
  <2> TAKE a \in Entries(new)
  <2>1. PICK i \in DOMAIN new : a \in {i} \X DOMAIN new[i] BY DEF Entries
  <2>2. i \in 1 .. n /\ a[1] = i /\ a = <<a[1], a[2]>>
          /\ a[2] \in DOMAIN new[i]
    BY <1>4, <2>1 DEF EntriesFor
  <2>3. new[i] = IF order[i] \in acquired
                 THEN [k \in 1 .. Len(desktop[order[i]]) |->
                         opened[<<order[i], k>>]]
                 ELSE <<>>
    BY <1>4, <2>2 DEF EntriesFor
  <2>4. order[i] \in acquired BY <2>2, <2>3
  <2>5. order[i] \in DOMAIN desktop BY <1>4, <2>2
  <2>6. a[2] \in DOMAIN desktop[order[i]] /\ a[2] \in Nat
    BY <1>2, <2>2, <2>3, <2>4, <2>5
  <2>7. new[i][a[2]] = opened[<<order[i], a[2]>>] BY <2>2, <2>3, <2>4
  <2>8. <<order[i], a[2]>> \in Wanted(acquired)
    BY <2>4, <2>6 DEF Wanted
  <2>9. QED BY <2>2, <2>6, <2>7, <2>8
<1>7. ASSUME NEW a \in Entries(new), NEW b \in Entries(new),
             new[a[1]][a[2]] = new[b[1]][b[2]]
      PROVE  a = b
  <2> DEFINE wa == <<order[a[1]], a[2]>>
             wb == <<order[b[1]], b[2]>>
  <2>1. wa \in Wanted(acquired) /\ wb \in Wanted(acquired)
          /\ opened[wa] = opened[wb]
    BY <1>6, <1>7, Zenon
  <2>2. wa = wb BY <2>1, Zenon
  <2>3. order[a[1]] = order[b[1]] /\ a[2] = b[2] BY <2>2
  <2>4. a[1] \in 1 .. n /\ b[1] \in 1 .. n BY <1>6
  <2>5. a[1] = b[1] BY <1>5, <2>3, <2>4
  <2>6. a = <<a[1], a[2]>> /\ b = <<b[1], b[2]>> BY <1>6, Zenon
  <2>7. QED BY <2>3, <2>5, <2>6, Zenon
<1>8. ASSUME NEW w \in Wanted(acquired)
      PROVE  \E a \in Entries(new) : new[a[1]][a[2]] = opened[w]
  <2>1. PICK i \in acquired : w \in {i} \X DOMAIN desktop[i] BY DEF Wanted
  <2>2. w = <<i, w[2]>> /\ w[2] \in DOMAIN desktop[i] BY <2>1
  <2>3. PICK m \in 1 .. n : order[m] = i
    <3>1. order \in Injection(1 .. n, listed) BY <1>4, <1>5, Fun_IsInj
    <3>2. Cardinality(1 .. n) = n BY <1>3, FS_Interval
    <3> HIDE DEF n
    <3>3. order \in Surjection(1 .. n, listed)
      BY <1>3, <3>1, <3>2, FS_Injection DEF n
    <3>4. \A t \in listed : \E m \in 1 .. n : order[m] = t
      BY <3>3 DEF Surjection
    <3>5. QED BY <2>1, <3>4, Zenon
  <2>4. new[m] = [k \in 1 .. Len(desktop[i]) |-> opened[<<i, k>>]]
    BY <1>4, <2>1, <2>3 DEF EntriesFor
  <2>5. w[2] \in 1 .. Len(desktop[i]) BY <1>2, <2>1, <2>2
  <2>6. <<m, w[2]>> \in Entries(new)
    <3>1. m \in DOMAIN new BY <1>4 DEF EntriesFor
    <3>2. w[2] \in DOMAIN new[m] BY <2>4, <2>5
    <3>3. QED BY <3>1, <3>2 DEF Entries
  <2>7. new[m][w[2]] = opened[w] BY <2>2, <2>4, <2>5
  <2> WITNESS <<m, w[2]>> \in Entries(new)
  <2>8. QED BY <2>7
<1>9. QED BY <1>6, <1>7, <1>8

LEMMA EnumerateOwned ==
    ASSUME ManagerTypeOK, HandlesOwnedOnce, Enumerate PROVE HandlesOwnedOnce'
<1>1. CASE UNCHANGED <<m_monitors, routes>>
  BY <1>1 DEF HandlesOwnedOnce, Owned, Entries
<1>2. CASE Rebuild
  <2>1. PICK listed \in SUBSET DOMAIN desktop :
          \E acquired \in SUBSET listed, order \in Ascending(listed) :
            \E opened \in [Wanted(acquired) -> FreeHandles] :
              /\ \A a, b \in Wanted(acquired) : opened[a] = opened[b] => a = b
              /\ m_monitors' = EntriesFor(order, acquired, opened)
              /\ routes' = RoutesAfter(opened)
    BY <1>2, RebuildChoices, Zenon
  <2>2. PICK acquired \in SUBSET listed, order \in Ascending(listed) :
          \E opened \in [Wanted(acquired) -> FreeHandles] :
            /\ \A a, b \in Wanted(acquired) : opened[a] = opened[b] => a = b
            /\ m_monitors' = EntriesFor(order, acquired, opened)
            /\ routes' = RoutesAfter(opened)
    BY <2>1, Zenon
  <2>3. PICK opened \in [Wanted(acquired) -> FreeHandles] :
          /\ \A a, b \in Wanted(acquired) : opened[a] = opened[b] => a = b
          /\ m_monitors' = EntriesFor(order, acquired, opened)
          /\ routes' = RoutesAfter(opened)
    BY <2>2, Zenon
  <2> DEFINE new == EntriesFor(order, acquired, opened)
  <2>4a. m_monitors' = new BY <2>3
  <2>4b. new = EntriesFor(order, acquired, opened) OBVIOUS
  <2> HIDE DEF new
  <2>4. /\ \A a \in Entries(new) :
             /\ <<order[a[1]], a[2]>> \in Wanted(acquired)
             /\ new[a[1]][a[2]] = opened[<<order[a[1]], a[2]>>]
        /\ \A a, b \in Entries(new) :
             new[a[1]][a[2]] = new[b[1]][b[2]] => a = b
        /\ \A w \in Wanted(acquired) :
             \E a \in Entries(new) : new[a[1]][a[2]] = opened[w]
    BY <2>3, <2>4b, EntriesOpened
  <2>5. \A h : h \in Owned(new) <=> \E w \in Wanted(acquired) : opened[w] = h
    <3> TAKE h
    <3>1. h \in Owned(new) <=> \E a \in Entries(new) : h = new[a[1]][a[2]]
      BY DEF Owned
    <3>2. ASSUME NEW a \in Entries(new), h = new[a[1]][a[2]]
          PROVE  \E w \in Wanted(acquired) : opened[w] = h
      <4>1. <<order[a[1]], a[2]>> \in Wanted(acquired) BY <2>4
      <4>2. opened[<<order[a[1]], a[2]>>] = h BY <2>4, <3>2
      <4>3. QED BY <4>1, <4>2
    <3>3. ASSUME NEW w \in Wanted(acquired), opened[w] = h
          PROVE  \E a \in Entries(new) : h = new[a[1]][a[2]]
      <4>1. PICK a \in Entries(new) : new[a[1]][a[2]] = opened[w] BY <2>4
      <4>2. QED BY <3>3, <4>1
    <3>4. QED BY <3>1, <3>2, <3>3
  <2>6. \A h \in Handles :
          routes'[h] # "free" <=> \E w \in Wanted(acquired) : opened[w] = h
    <3> TAKE h \in Handles
    <3>1. CASE \E w \in Wanted(acquired) : opened[w] = h
      <4> DEFINE a == CHOOSE w \in Wanted(acquired) : opened[w] = h
      <4>1. a \in Wanted(acquired) BY <3>1
      <4>2. routes'[h] = desktop[a[1]][a[2]]
        BY <2>3, <3>1 DEF RoutesAfter
      <4>3. desktop[a[1]][a[2]] \in Panels BY <4>1, WantedType
      <4>4. QED BY <3>1, <4>2, <4>3, BusAssumption
    <3>2. CASE ~ \E w \in Wanted(acquired) : opened[w] = h
      <4>1. routes'[h] = IF h \in Owned(m_monitors) THEN "free" ELSE routes[h]
        BY <2>3, <3>2 DEF RoutesAfter
      <4>2. QED BY <3>2, <4>1 DEF HandlesOwnedOnce
    <3>3. QED BY <3>1, <3>2
  <2>7. \A w \in Wanted(acquired) : opened[w] \in Handles
    BY <2>3 DEF FreeHandles
  <2>8. Owned(m_monitors') = {h \in Handles : routes'[h] # "free"}
    BY <2>4a, <2>5, <2>6, <2>7
  <2>9. QED BY <2>4, <2>4a, <2>8 DEF HandlesOwnedOnce
<1>3. QED BY <1>1, <1>2 DEF Enumerate

LEMMA TopologyOwned ==
    ASSUME ManagerTypeOK, HandlesOwnedOnce, TopologyChange
    PROVE  HandlesOwnedOnce'
<1>1. PICK kept : routes' = [h \in Handles |->
                     IF routes[h] \in Attached(desktop) \ kept THEN "gone"
                     ELSE routes[h]]
  BY Zenon DEF TopologyChange
<1>2. "free" \notin Attached(desktop) \ kept
  BY AttachedType, BusAssumption DEF ManagerTypeOK
<1>3. \A h \in Handles : routes'[h] # "free" <=> routes[h] # "free"
  BY <1>1, <1>2
<1>4. m_monitors' = m_monitors BY DEF TopologyChange
<1>5. QED BY <1>3, <1>4 DEF HandlesOwnedOnce, Owned, Entries

LEMMA OwnedFrame ==
    ASSUME HandlesOwnedOnce, UNCHANGED <<m_monitors, routes>>
    PROVE  HandlesOwnedOnce'
BY DEF HandlesOwnedOnce, Owned, Entries

(* MonitorManager.cpp, PhysicalMonitorHandle.cpp: whatever Windows does    *)
(* and whichever calls fail, the entries own exactly the open handles,     *)
(* each one once.                                                          *)
THEOREM HandlesAlwaysOwnedOnce ==
    ManagerSpec => [](ManagerTypeOK /\ HandlesOwnedOnce)
<1>1. ManagerInit => ManagerInv BY ManagerInitInv
<1>2. ManagerInv /\ [ManagerNext]_<<managerVars, routes, panelValue>>
        => ManagerInv'
  <2> SUFFICES ASSUME ManagerInv,
                      [ManagerNext]_<<managerVars, routes, panelValue>>
               PROVE  ManagerInv'
    OBVIOUS
  <2>1. CASE QueryActiveTargets
    BY <2>1, QueryType, OwnedFrame DEF ManagerInv, QueryActiveTargets
  <2>2. CASE Enumerate
    BY <2>2, EnumerateType, EnumerateOwned DEF ManagerInv
  <2>3. CASE TopologyChange
    BY <2>3, TopologyType, TopologyOwned DEF ManagerInv
  <2>4. CASE UNCHANGED <<managerVars, routes, panelValue>>
    BY <2>4, ManagerFrame, OwnedFrame DEF ManagerInv, managerVars
  <2>5. QED BY <2>1, <2>2, <2>3, <2>4 DEF ManagerNext
<1>3. ManagerInv <=> ManagerTypeOK /\ HandlesOwnedOnce BY DEF ManagerInv
<1>4. QED BY <1>1, <1>2, <1>3, PTL DEF ManagerSpec

-----------------------------------------------------------------------------
(* The internal-panel gate.                                                *)

(* MonitorManager.cpp:128-161: on any desktop and whichever device queries *)
(* fail, the gate leaves out only logical monitors that an embedded panel  *)
(* shows, and an external panel of theirs only if the query missed it or   *)
(* an embedded one with an EDID name came first.                           *)
THEOREM GateIsSound == ManagerSpec => []HiddenOnlyIfEmbedded
<1>1. ManagerTypeOK => HiddenOnlyIfEmbedded
  <2> SUFFICES ASSUME ManagerTypeOK, NEW i \in DOMAIN targets.layout,
                      InternalGate(i)
               PROVE  /\ \E k \in DOMAIN targets.layout[i] :
                           targets.layout[i][k] \in Internal
                      /\ \A k \in DOMAIN targets.layout[i] :
                           \/ targets.layout[i][k] \in Internal
                           \/ targets.layout[i][k] \notin targets.resolved
                           \/ \E j \in Candidates(i) :
                                /\ j < k
                                /\ targets.layout[i][j] \in Internal \cap Named
    BY DEF HiddenOnlyIfEmbedded
  <2>1. Candidates(i) \subseteq Nat
    <3>1. targets.layout \in Seq(Seq(Panels))
      BY LayoutAssumption, EmptySeq DEF ManagerTypeOK
    <3>2. targets.layout[i] \in Seq(Panels) BY <3>1
    <3>3. DOMAIN targets.layout[i] = 1 .. Len(targets.layout[i])
            /\ Len(targets.layout[i]) \in Nat
      BY <3>2
    <3>4. QED BY <3>3 DEF Candidates
  <2>2. \E k \in DOMAIN targets.layout[i] : targets.layout[i][k] \in Internal
    <3>1. PICK k \in Examined(i) : targets.layout[i][k] \in Internal
      BY DEF InternalGate
    <3>2. k \in DOMAIN targets.layout[i] BY DEF Examined, Candidates
    <3>3. QED BY <3>1, <3>2
  <2>3. ASSUME NEW k \in DOMAIN targets.layout[i],
               targets.layout[i][k] \in targets.resolved,
               targets.layout[i][k] \notin Internal
        PROVE  \E j \in Candidates(i) :
                 /\ j < k
                 /\ targets.layout[i][j] \in Internal \cap Named
    <3>1. k \in Candidates(i) BY <2>3 DEF Candidates
    <3>2. k \notin Examined(i) BY <2>3 DEF InternalGate
    <3> DEFINE named == {j \in Candidates(i) : targets.layout[i][j] \in Named}
    <3>3. PICK j0 \in named : j0 < k BY <3>1, <3>2 DEF Examined
    <3>4. named \subseteq Nat BY <2>1
    <3>5. PICK j \in named : \A m \in named : ~ <<m, j>> \in OpToRel(<, Nat)
      BY <3>3, <3>4, NatLessThanWellFounded, WFMin, Zenon
    <3>6. \A m \in named : ~ (m < j)
      BY <3>4, <3>5, Zenon DEF OpToRel
    <3>7. j \in Examined(i) BY <3>6 DEF Examined
    <3>8. targets.layout[i][j] \in Internal \cap Named
      BY <3>7 DEF InternalGate
    <3>9. j < k
      <4>1. j \in Nat /\ j0 \in Nat /\ k \in Nat /\ ~ (j0 < j)
        BY <2>1, <3>1, <3>4, <3>6
      <4>2. QED BY <3>3, <4>1
    <3>10. QED BY <3>8, <3>9
  <2>4. QED BY <2>2, <2>3
<1>2. QED BY <1>1, HandlesAlwaysOwnedOnce, PTL
====
