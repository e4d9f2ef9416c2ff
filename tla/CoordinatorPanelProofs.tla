----------------------- MODULE CoordinatorPanelProofs -----------------------
(***************************************************************************)
(* What the dialog shows is what the panels hold: the properties of        *)
(* AdjustmentCoordinator that tie its cache to the panels' registers.      *)
(*                                                                         *)
(* A write reaches the panel of its own channel only because no two open   *)
(* handles route to one panel (RouteInv) and no two channels of a handle   *)
(* share a code (ChannelInv); the flush has done its part for a channel    *)
(* when it has for every code it is through with (Progress).               *)
(***************************************************************************)
EXTENDS AdjustmentCoordinatorProofs

-----------------------------------------------------------------------------
(* Handles and panels.                                                     *)

RoutesInjective ==
    \A g, h \in Handles : Routed(h) /\ routes[g] = routes[h] => g = h

RoutesAttached ==
    \A h \in Handles : Routed(h) => routes[h] \in Attached(desktop)

RouteInv == RoutesInjective /\ RoutesAttached

\* No handle gains a panel, and the panels still routed to hold what they held.
Undisturbed ==
    \A h \in Handles :
        Routed(h)' => /\ Routed(h) /\ routes'[h] = routes[h]
                      /\ \A c \in Answers[routes[h]] :
                           panelValue'[routes[h]][c].holds
                             = panelValue[routes[h]][c].holds

LEMMA TopologyUndisturbed ==
    ASSUME ManagerTypeOK, RoutesAttached, TopologyChange
    PROVE  Undisturbed /\ RoutesAttached'
<1>1. PICK kept \in SUBSET (Attached(desktop) \cap Attached(desktop')) :
        routes' = [h \in Handles |->
                     IF routes[h] \in Attached(desktop) \ kept THEN "gone"
                     ELSE routes[h]]
  BY DEF TopologyChange, Answered
<1>2. \A h \in Handles : Routed(h)' =>
        /\ Routed(h) /\ routes'[h] = routes[h]
        /\ routes[h] \in Attached(desktop) /\ routes[h] \in Attached(desktop')
  <2> SUFFICES ASSUME NEW h \in Handles, Routed(h)'
               PROVE  /\ Routed(h) /\ routes'[h] = routes[h]
                      /\ routes[h] \in Attached(desktop)
                      /\ routes[h] \in Attached(desktop')
    OBVIOUS
  <2>1. routes'[h] # "gone" BY BusAssumption DEF Routed
  <2>2. routes'[h] = routes[h]
          /\ routes[h] \notin Attached(desktop) \ kept
    BY <1>1, <2>1
  <2>3. Routed(h) BY <2>2 DEF Routed
  <2>4. routes[h] \in Attached(desktop) BY <2>3 DEF RoutesAttached
  <2>5. QED BY <1>1, <2>2, <2>3, <2>4
<1>3. \A p \in Panels : p \in Attached(desktop) => panelValue'[p] = panelValue[p]
  BY DEF TopologyChange
<1>4. Undisturbed BY <1>2, <1>3 DEF Undisturbed, Routed
<1>5. RoutesAttached' BY <1>2 DEF RoutesAttached
<1>6. QED BY <1>4, <1>5

\* A panel that catches up changes what it replies, and nothing it holds.
LEMMA CatchUpUndisturbed ==
    ASSUME ManagerTypeOK, PanelCatchesUp, UNCHANGED routes PROVE Undisturbed
<1>0. PICK p \in Panels : \E c \in Answers[p] :
         panelValue' = [panelValue EXCEPT
                         ![p][c].replies = panelValue[p][c].holds]
  BY DEF PanelCatchesUp
<1>1. PICK c \in Answers[p] :
         panelValue' = [panelValue EXCEPT
                         ![p][c].replies = panelValue[p][c].holds]
  BY <1>0
<1> DEFINE new == [panelValue[p][c] EXCEPT !.replies = panelValue[p][c].holds]
<1>2. panelValue' =
        [panelValue EXCEPT ![p] = [panelValue[p] EXCEPT ![c] = new]]
  BY <1>1
<1>3. panelValue = [q \in Panels |-> panelValue[q]]
        /\ \A q \in Panels : panelValue[q] \in [Answers[q] -> Registers]
  BY DEF ManagerTypeOK
<1>4. new.holds = panelValue[p][c].holds BY <1>1, <1>3 DEF Registers
<1> HIDE DEF new
<1>5. \A d \in Answers[p] :
        [panelValue[p] EXCEPT ![c] = new][d].holds = panelValue[p][d].holds
  BY <1>1, <1>3, <1>4
<1>6. \A q \in Panels :
        panelValue'[q] = IF q = p THEN [panelValue[p] EXCEPT ![c] = new]
                         ELSE panelValue[q]
  BY <1>1, <1>2, <1>3
<1>7. \A q \in Panels : \A d \in Answers[q] :
        panelValue'[q][d].holds = panelValue[q][d].holds
  BY <1>5, <1>6
<1>8. QED BY <1>7 DEF Undisturbed, Routed

LEMMA UndisturbedInjective ==
    ASSUME RoutesInjective, Undisturbed PROVE RoutesInjective'
<1> SUFFICES ASSUME NEW g \in Handles, NEW h \in Handles, Routed(h)',
                    routes'[g] = routes'[h]
             PROVE  g = h
  BY DEF RoutesInjective
<1>1. Routed(g)' BY DEF Routed
<1>2. routes'[g] = routes[g] /\ routes'[h] = routes[h] /\ Routed(h)
  BY <1>1 DEF Undisturbed
<1>3. QED BY <1>2 DEF RoutesInjective

\* After a refresh the routed handles are those it opened, one per panel.
LEMMA EnumerateRoutes ==
    ASSUME ManagerTypeOK, HandlesOwnedOnce, RouteInv, Enumerate
    PROVE  RouteInv'
<1>1. desktop' = desktop BY DEF Enumerate
<1>2. CASE UNCHANGED routes
  BY <1>1, <1>2 DEF RouteInv, RoutesInjective, RoutesAttached, Routed
<1>3. CASE Rebuild
  <2>1. PICK listed \in SUBSET DOMAIN desktop :
          \E acquired \in SUBSET listed, order \in Ascending(listed) :
            \E opened \in [Wanted(acquired) -> FreeHandles] :
              /\ \A a, b \in Wanted(acquired) : opened[a] = opened[b] => a = b
              /\ m_monitors' = EntriesFor(order, acquired, opened)
              /\ routes' = RoutesAfter(opened)
    BY <1>3, RebuildChoices, Zenon
  <2>2. PICK acquired \in SUBSET listed, order \in Ascending(listed) :
          \E opened \in [Wanted(acquired) -> FreeHandles] :
            routes' = RoutesAfter(opened)
    BY <2>1, Zenon
  <2>3. PICK opened \in [Wanted(acquired) -> FreeHandles] :
          routes' = RoutesAfter(opened)
    BY <2>2, Zenon
  <2>4. Wanted(acquired) \subseteq Entries(desktop)
    BY <2>2 DEF Wanted, Entries
  <2>5. ASSUME NEW h \in Handles, Routed(h)'
        PROVE  \E w \in Wanted(acquired) :
                  opened[w] = h /\ routes'[h] = desktop[w[1]][w[2]]
    <3>1. \E w \in Wanted(acquired) : opened[w] = h
      <4> SUFFICES ASSUME ~ \E w \in Wanted(acquired) : opened[w] = h
                   PROVE  FALSE
        OBVIOUS
      <4>1. routes'[h] = IF h \in Owned(m_monitors) THEN "free" ELSE routes[h]
        BY <2>3 DEF RoutesAfter
      <4>2. routes'[h] = "free" BY <4>1 DEF HandlesOwnedOnce
      <4>3. QED BY <2>5, <4>2, BusAssumption DEF Routed
    <3> DEFINE a == CHOOSE w \in Wanted(acquired) : opened[w] = h
    <3>2. a \in Wanted(acquired) /\ opened[a] = h BY <3>1
    <3>3. routes'[h] = desktop[a[1]][a[2]]
      BY <2>3, <3>1 DEF RoutesAfter
    <3> HIDE DEF a
    <3>4. QED BY <3>2, <3>3
  <2>6. RoutesAttached'
    <3> SUFFICES ASSUME NEW h \in Handles, Routed(h)'
                 PROVE  routes'[h] \in Attached(desktop)
      BY <1>1 DEF RoutesAttached
    <3>1. PICK w \in Wanted(acquired) : routes'[h] = desktop[w[1]][w[2]]
      BY <2>5
    <3>2. w \in Entries(desktop) BY <2>4
    <3>3. QED BY <3>1, <3>2 DEF Attached, Entries
  <2>7. RoutesInjective'
    <3> SUFFICES ASSUME NEW g \in Handles, NEW h \in Handles, Routed(h)',
                        routes'[g] = routes'[h]
                 PROVE  g = h
      BY DEF RoutesInjective
    <3>1. Routed(g)' BY DEF Routed
    <3>2. PICK v \in Wanted(acquired) :
            opened[v] = g /\ routes'[g] = desktop[v[1]][v[2]]
      BY <2>5, <3>1
    <3>3. PICK w \in Wanted(acquired) :
            opened[w] = h /\ routes'[h] = desktop[w[1]][w[2]]
      BY <2>5
    <3>4. v \in Entries(desktop) /\ w \in Entries(desktop) BY <2>4
    <3>5. desktop \in Layouts BY DEF ManagerTypeOK
    <3>6. v = w BY <3>2, <3>3, <3>4, <3>5, PanelsOnceAssumption
    <3>7. QED BY <3>2, <3>3, <3>6
  <2>8. QED BY <2>6, <2>7 DEF RouteInv
<1>4. QED BY <1>2, <1>3 DEF Enumerate

LEMMA RouteStep ==
    IInv /\ HandleInv /\ RouteInv /\ [Next]_vars => RouteInv'
<1> SUFFICES ASSUME IInv, HandleInv, RouteInv, [Next]_vars PROVE RouteInv'
  OBVIOUS
<1>1. ManagerTypeOK /\ HandlesOwnedOnce BY DEF IInv, TypeOK, HandleInv
<1>2. CASE RefreshEnumerates
  BY <1>1, <1>2, EnumerateRoutes DEF RefreshEnumerates
<1>3. CASE Desktop
  BY <1>1, <1>3, TopologyUndisturbed, UndisturbedInjective
  DEF Desktop, RouteInv
<1>4. CASE UNCHANGED <<routes, desktop>>
  BY <1>4 DEF RouteInv, RoutesInjective, RoutesAttached, Routed
<1>5. CASE Input
  <2>1. PICK target : Queue(target) BY <1>5, SelectedTargets, Zenon
  <2>2. QED BY <1>4, <2>1 DEF Queue, managerVars
<1>6. CASE ~Input /\ ~RefreshEnumerates /\ ~Desktop
  BY <1>4, <1>6
  DEF Next, Setting, SetScope, SetParamEnabled, SetScrollStep, Lifecycle,
      Start, Stop, RequestReenumerate, Caller, NotifyAll, Join, Worker,
      Waking, EnterLoop, IdleWakes, TimerExpires, QuietEnds, Enumeration,
      RefreshQueries, QueryActiveTargets, BuildPanel, Swap, OnReady, Flush,
      BeginEntry, Write, Retry, FlushDone, SpuriousWake, QuietElapses,
      PanelSettles, loopFrame, enumerateFrame, writeFrame, managerVars, vars
<1>7. QED BY <1>2, <1>3, <1>5, <1>6

LEMMA RouteInit == Init => RouteInv
<1> SUFFICES ASSUME Init PROVE RouteInv OBVIOUS
<1>1. \A h \in Handles : ~Routed(h)
  BY BusAssumption DEF Init, ManagerInit, Routed
<1>2. QED BY <1>1 DEF RouteInv, RoutesInjective, RoutesAttached

-----------------------------------------------------------------------------
(* Channels: one per handle and parameter, measured when it is built.      *)

Measured(ch) ==
    /\ ch.codes \subseteq Answers[routes[ch.monitor]]
    /\ ch.exact => ShowsFirst(ch)

\* One channel per handle and parameter, with codes of that parameter.
ChannelsApart(channels) ==
    /\ \A i, j \in DOMAIN channels :
         /\ channels[i].monitor = channels[j].monitor
         /\ channels[i].param = channels[j].param
         => i = j
    /\ \A i \in DOMAIN channels : channels[i].codes \subseteq CodesOf(channels[i].param)

\* The handles BuildFreshChannels is through with.
Passed(h) ==
    \E e \in Entries(m_monitors) :
        /\ m_monitors[e[1]][e[2]] = h
        /\ e[1] < at[1] \/ (e[1] = at[1] /\ e[2] < at[2])

FreshInv ==
    /\ worker # "build" => fresh = <<>>
    /\ ChannelsApart(fresh)
    /\ \A i \in DOMAIN fresh :
         /\ Passed(fresh[i].monitor)
         /\ Routed(fresh[i].monitor) => Measured(fresh[i])

\* The codes of a channel are codes its panel answers.
CodesAnswer ==
    worker # "build" =>
        \A i \in DOMAIN m_channels : Routed(m_channels[i].monitor) =>
            m_channels[i].codes \subseteq Answers[routes[m_channels[i].monitor]]

ChannelInv ==
    FreshInv /\ ChannelsApart(m_channels) /\ CodesAnswer /\ EnumerationHeals

\* The channels of one parameter of one physical monitor, as measured.
MeasuredAt(h, index, param) ==
    { ch \in ChannelsAt(h, index) :
        /\ Measured(ch) /\ ch.codes \subseteq CodesOf(ch.param)
        /\ ch.param = param }

LEMMA ChannelOfMeasured ==
    ASSUME ManagerTypeOK, NEW h \in Handles, NEW index \in Nat,
           NEW param \in Params, NEW replied \in ReplySets(h)
    PROVE  /\ ChannelOf(h, index, param, replied)
                \in Seq(MeasuredAt(h, index, param))
           /\ Len(ChannelOf(h, index, param, replied)) \in {0, 1}
<1> DEFINE codes == CodesOf(param) \cap replied
           reading == Reading(h, First(codes))
           max == DeviceRange(reading.maximum)
           ch == [monitor |-> h, codes |-> codes, maxValue |-> max,
                  current |-> Clamp(ToPercent(reading.current, max)),
                  param |-> param, monitorIndex |-> index,
                  exact |-> CaughtUp(h, First(codes))]
<1>1. CASE codes = {}
  <2>1. ChannelOf(h, index, param, replied) = <<>> BY <1>1 DEF ChannelOf
  <2>2. QED BY <2>1, EmptySeq
<1>2. CASE codes # {}
  <2>1. ChannelOf(h, index, param, replied) = <<ch>> BY <1>2 DEF ChannelOf
  <2>2. ch \in ChannelsAt(h, index)
    <3>1. <<ch>> \in Seq(ChannelsAt(h, index)) BY <2>1, ChannelOfType
    <3> HIDE DEF ch
    <3>2. Len(<<ch>>) = 1 /\ <<ch>>[1] = ch OBVIOUS
    <3>3. QED BY <3>1, <3>2, ElementOfSeq
  <2>3. Measured(ch)
    <3>1. ch.exact => reading.current = Register(h, First(codes)).holds
      BY DEF Reading, CaughtUp
    <3>2. /\ ch.current = Clamp(ToPercent(reading.current, max))
          /\ ch.monitor = h /\ ch.codes = codes /\ ch.maxValue = max
      OBVIOUS
    <3>3. codes \subseteq Answers[routes[h]]
      BY DEF ReplySets, Answering
    <3> HIDE DEF ch, reading, max, codes
    <3>4. QED BY <3>1, <3>2, <3>3 DEF Measured, ShowsFirst
  <2>4. ch.codes \subseteq CodesOf(ch.param) /\ ch.param = param OBVIOUS
  <2> HIDE DEF ch
  <2>5. ch \in MeasuredAt(h, index, param)
    BY <2>2, <2>3, <2>4 DEF MeasuredAt
  <2>6. QED BY <2>1, <2>5
<1>3. QED BY <1>1, <1>2

\* At most one channel for each parameter in P, and none for another.
OneEach(channels, P) ==
    /\ \A i \in DOMAIN channels : channels[i].param \in P
    /\ \A i, j \in DOMAIN channels :
         channels[i].param = channels[j].param => i = j

LEMMA OneEachConcat ==
    ASSUME NEW S, NEW s \in Seq(S), NEW t \in Seq(S), NEW P, NEW Q,
           P \cap Q = {}, OneEach(s, P), OneEach(t, Q)
    PROVE  s \o t \in Seq(S) /\ OneEach(s \o t, P \cup Q)
<1>1. /\ s \o t \in Seq(S) /\ Len(s) \in Nat /\ Len(t) \in Nat
      /\ DOMAIN (s \o t) = 1 .. Len(s) + Len(t)
      /\ DOMAIN s = 1 .. Len(s) /\ DOMAIN t = 1 .. Len(t)
      /\ \A i \in DOMAIN (s \o t) :
           \/ i \in DOMAIN s /\ (s \o t)[i] = s[i]
           \/ i - Len(s) \in DOMAIN t /\ (s \o t)[i] = t[i - Len(s)]
  OBVIOUS
<1> DEFINE st == s \o t
<1>2. \A i \in DOMAIN st : st[i].param \in P \cup Q
  BY <1>1 DEF OneEach
<1>3. ASSUME NEW i \in DOMAIN st, NEW j \in DOMAIN st,
             st[i].param = st[j].param
      PROVE  i = j
  <2>1. /\ \/ i \in DOMAIN s /\ st[i] = s[i]
           \/ i - Len(s) \in DOMAIN t /\ st[i] = t[i - Len(s)]
        /\ \/ j \in DOMAIN s /\ st[j] = s[j]
           \/ j - Len(s) \in DOMAIN t /\ st[j] = t[j - Len(s)]
        /\ i \in Int /\ j \in Int
    BY <1>1
  <2> HIDE DEF st
  <2>2. CASE i \in DOMAIN s /\ st[i] = s[i] /\ j \in DOMAIN s /\ st[j] = s[j]
    BY <1>3, <2>2 DEF OneEach
  <2>3. CASE /\ i - Len(s) \in DOMAIN t /\ st[i] = t[i - Len(s)]
             /\ j - Len(s) \in DOMAIN t /\ st[j] = t[j - Len(s)]
    <3>1. i - Len(s) = j - Len(s) BY <1>3, <2>3 DEF OneEach
    <3>2. QED BY <1>1, <2>1, <3>1
  <2>4. CASE /\ i \in DOMAIN s /\ st[i] = s[i]
             /\ j - Len(s) \in DOMAIN t /\ st[j] = t[j - Len(s)]
    BY <1>3, <2>4 DEF OneEach
  <2>5. CASE /\ i - Len(s) \in DOMAIN t /\ st[i] = t[i - Len(s)]
             /\ j \in DOMAIN s /\ st[j] = s[j]
    BY <1>3, <2>5 DEF OneEach
  <2>6. QED BY <2>1, <2>2, <2>3, <2>4, <2>5
<1>4. QED BY <1>1, <1>2, <1>3 DEF OneEach

LEMMA PanelChannelsMeasured ==
    ASSUME ManagerTypeOK, NEW h \in Handles, NEW index \in Nat,
           NEW replied \in ReplySets(h)
    PROVE  LET S == { ch \in ChannelsAt(h, index) :
                        Measured(ch) /\ ch.codes \subseteq CodesOf(ch.param) }
           IN  /\ PanelChannels(h, index, replied) \in Seq(S)
               /\ OneEach(PanelChannels(h, index, replied), Params)
<1> DEFINE Of(param) == ChannelOf(h, index, param, replied)
           S == { ch \in ChannelsAt(h, index) :
                    Measured(ch) /\ ch.codes \subseteq CodesOf(ch.param) }
<1>1. ASSUME NEW param \in Params
      PROVE  Of(param) \in Seq(S) /\ OneEach(Of(param), {param})
  <2>1. Of(param) \in Seq(MeasuredAt(h, index, param))
          /\ Len(Of(param)) \in {0, 1}
    BY ChannelOfMeasured
  <2>2. MeasuredAt(h, index, param) \subseteq S BY DEF MeasuredAt
  <2>3. \A ch \in MeasuredAt(h, index, param) : ch.param = param
    BY DEF MeasuredAt
  <2> HIDE DEF Of, S
  <2>4. \A i \in DOMAIN Of(param) :
          Of(param)[i] \in MeasuredAt(h, index, param)
    BY <2>1, ElementOfSeq
  <2>5. Len(Of(param)) \in Nat /\ DOMAIN Of(param) = 1 .. Len(Of(param))
          /\ Of(param) \in [1 .. Len(Of(param)) -> MeasuredAt(h, index, param)]
    BY <2>1
  <2>6. Of(param) \in [1 .. Len(Of(param)) -> S] BY <2>2, <2>5
  <2>7. Of(param) \in Seq(S) BY <2>5, <2>6
  <2>8. \A i, j \in DOMAIN Of(param) : i = j BY <2>1, <2>5
  <2>9. QED BY <2>3, <2>4, <2>7, <2>8 DEF OneEach
<1> HIDE DEF Of, S
<1>2. \A param \in Params : Of(param) \in Seq(S) /\ OneEach(Of(param), {param})
  BY <1>1
<1> DEFINE s2 == Of("Brightness") \o Of("Contrast")
           s3 == s2 \o Of("RedGain")
           s4 == s3 \o Of("GreenGain")
           s5 == s4 \o Of("BlueGain")
           s6 == s5 \o Of("Volume")
           s7 == s6 \o Of("Saturation")
<1>3. s2 \in Seq(S) /\ OneEach(s2, {"Brightness"} \cup {"Contrast"})
  BY <1>2, OneEachConcat DEF Params
<1> HIDE DEF s2
<1>4. s3 \in Seq(S)
        /\ OneEach(s3, {"Brightness"} \cup {"Contrast"} \cup {"RedGain"})
  BY <1>2, <1>3, OneEachConcat DEF Params
<1> HIDE DEF s3
<1>5. s4 \in Seq(S)
        /\ OneEach(s4, {"Brightness"} \cup {"Contrast"} \cup {"RedGain"}
                         \cup {"GreenGain"})
  BY <1>2, <1>4, OneEachConcat DEF Params
<1> HIDE DEF s4
<1>6. s5 \in Seq(S)
        /\ OneEach(s5, {"Brightness"} \cup {"Contrast"} \cup {"RedGain"}
                         \cup {"GreenGain"} \cup {"BlueGain"})
  BY <1>2, <1>5, OneEachConcat DEF Params
<1> HIDE DEF s5
<1>7. s6 \in Seq(S)
        /\ OneEach(s6, {"Brightness"} \cup {"Contrast"} \cup {"RedGain"}
                         \cup {"GreenGain"} \cup {"BlueGain"} \cup {"Volume"})
  BY <1>2, <1>6, OneEachConcat DEF Params
<1> HIDE DEF s6
<1>8. s7 \in Seq(S)
        /\ OneEach(s7, {"Brightness"} \cup {"Contrast"} \cup {"RedGain"}
                         \cup {"GreenGain"} \cup {"BlueGain"} \cup {"Volume"}
                         \cup {"Saturation"})
  BY <1>2, <1>7, OneEachConcat DEF Params
<1> HIDE DEF s7
<1>9. PanelChannels(h, index, replied) = s7
  BY Zenon DEF PanelChannels, s2, s3, s4, s5, s6, s7, Of
<1>10. OneEach(s7, Params) BY <1>8 DEF OneEach, Params
<1>11. QED BY <1>8, <1>9, <1>10 DEF S

\* What an input leaves alone of every channel.
LEMMA QueueKeeps ==
    ASSUME IInv, NEW target, Queue(target)
    PROVE  /\ DOMAIN m_channels' = DOMAIN m_channels
           /\ \A i \in DOMAIN m_channels :
                /\ m_channels'[i].monitor = m_channels[i].monitor
                /\ m_channels'[i].codes = m_channels[i].codes
                /\ m_channels'[i].maxValue = m_channels[i].maxValue
                /\ m_channels'[i].param = m_channels[i].param
                /\ \/ m_channels'[i] = m_channels[i]
                   \/ i \in DOMAIN m_pending'
           /\ DOMAIN m_pending \subseteq DOMAIN m_pending'
<1> DEFINE moved == {i \in DOMAIN target : target[i] # m_channels[i].current}
<1>1. m_channels' = [i \in DOMAIN m_channels |->
                       IF i \in moved
                       THEN [m_channels[i] EXCEPT !.current = target[i],
                                                  !.exact = TRUE]
                       ELSE m_channels[i]]
        /\ m_pending' = Requeued(target, moved)
  BY DEF Queue
<1>2. DOMAIN m_pending' = DOMAIN m_pending \cup moved
  BY <1>1 DEF Requeued
<1>3. ASSUME NEW i \in DOMAIN m_channels
      PROVE  /\ m_channels'[i].monitor = m_channels[i].monitor
             /\ m_channels'[i].codes = m_channels[i].codes
             /\ m_channels'[i].maxValue = m_channels[i].maxValue
             /\ m_channels'[i].param = m_channels[i].param
             /\ m_channels'[i] = m_channels[i] \/ i \in DOMAIN m_pending'
  <2>1. m_channels[i] \in ChannelType BY ElementOfSeq DEF IInv, TypeOK
  <2>2. CASE i \in moved
    <3>1. m_channels'[i] = [m_channels[i] EXCEPT !.current = target[i],
                                                 !.exact = TRUE]
      BY <1>1, <2>2
    <3>2. i \in DOMAIN m_pending' BY <1>2, <2>2
    <3>3. QED BY <2>1, <3>1, <3>2 DEF ChannelType
  <2>3. CASE i \notin moved BY <1>1, <2>3
  <2>4. QED BY <2>2, <2>3
<1>4. QED BY <1>1, <1>2, <1>3

LEMMA ChannelBuild ==
    ASSUME IInv, HandleInv, ChannelInv, BuildPanel PROVE ChannelInv'
<1> USE DEF enumerateFrame, stateVars, settingVars, flushVars, managerVars
<1>1. /\ UNCHANGED <<m_monitors, routes, panelValue, m_channels, worker>>
      /\ worker = "build"
  BY DEF BuildPanel
<1>2. at[1] \in Nat \ {0} /\ at[2] \in Nat \ {0} BY DEF IInv, TypeOK
<1>3. \A e \in Entries(m_monitors) : e[1] \in Nat /\ e[2] \in Nat
  <2> TAKE e \in Entries(m_monitors)
  <2>1. PICK i \in DOMAIN m_monitors : e \in {i} \X DOMAIN m_monitors[i]
    BY DEF Entries
  <2>2. m_monitors \in Seq(Seq(Handles)) BY DEF IInv, TypeOK, ManagerTypeOK
  <2>3. m_monitors[i] \in Seq(Handles) BY <2>1, <2>2, ElementOfSeq
  <2>4. QED BY <2>1, <2>2, <2>3
<1>4. EnumerationHeals' /\ ChannelsApart(m_channels)' /\ CodesAnswer'
  BY <1>1
  DEF ChannelInv, EnumerationHeals, ChannelsApart, CodesAnswer, ShowsFirst,
      Register
<1>5. CASE at[2] <= Len(m_monitors[at[1]])
  <2>0. PICK h : h = m_monitors[at[1]][at[2]] OBVIOUS
  <2>1. PICK replied \in ReplySets(h) :
           fresh' = fresh \o PanelChannels(h, MonitorIndex, replied)
    BY <1>5, <2>0 DEF BuildPanel
  <2>2. m_monitors \in Seq(Seq(Handles)) BY DEF IInv, TypeOK, ManagerTypeOK
  <2>3. at[1] \in 1 .. Len(m_monitors) BY <1>2 DEF BuildPanel
  <2>4. m_monitors[at[1]] \in Seq(Handles) BY <2>2, <2>3, ElementOfSeq
  <2>5. at[2] \in DOMAIN m_monitors[at[1]] BY <1>2, <1>5, <2>4
  <2>6. h \in Handles BY <2>0, <2>4, <2>5, ElementOfSeq
  <2>7. MonitorIndex \in Nat BY <1>2 DEF MonitorIndex
  <2>8. <<at[1], at[2]>> \in Entries(m_monitors)
    BY <2>2, <2>3, <2>5 DEF Entries
  <2>9. at' = <<at[1], at[2] + 1>> BY <1>5 DEF BuildPanel
  <2>10. \A g : Passed(g) => g # h /\ Passed(g)'
    <3> SUFFICES ASSUME NEW g, Passed(g) PROVE g # h /\ Passed(g)'
      OBVIOUS
    <3>1. PICK e \in Entries(m_monitors) :
            /\ m_monitors[e[1]][e[2]] = g
            /\ e[1] < at[1] \/ (e[1] = at[1] /\ e[2] < at[2])
      BY DEF Passed
    <3>2. e[1] \in Nat /\ e[2] \in Nat BY <1>3
    <3>3. g # h
      <4> SUFFICES ASSUME g = h PROVE FALSE OBVIOUS
      <4>1. e = <<at[1], at[2]>>
        BY <2>0, <2>8, <3>1 DEF HandleInv, HandlesOwnedOnce
      <4>2. e[1] = at[1] /\ e[2] = at[2] BY <4>1
      <4>3. QED BY <1>2, <3>1, <3>2, <4>2
    <3>4. e[1] < at'[1] \/ (e[1] = at'[1] /\ e[2] < at'[2])
      BY <1>2, <2>9, <3>1, <3>2
    <3>5. Entries(m_monitors)' = Entries(m_monitors) BY <1>1 DEF Entries
    <3>6. Passed(g)' BY <1>1, <3>1, <3>4, <3>5 DEF Passed
    <3>7. QED BY <3>3, <3>6
  <2>11. Passed(h)'
    <3> DEFINE e == <<at[1], at[2]>>
    <3>1. e[1] = at'[1] /\ e[2] < at'[2] BY <1>2, <2>9
    <3>2. m_monitors'[e[1]][e[2]] = h BY <1>1, <2>0
    <3>3. e \in Entries(m_monitors)' BY <1>1, <2>8 DEF Entries
    <3> HIDE DEF e
    <3>4. QED BY <3>1, <3>2, <3>3 DEF Passed
  <2> DEFINE found == PanelChannels(h, MonitorIndex, replied)
             S == { ch \in ChannelsAt(h, MonitorIndex) :
                      Measured(ch) /\ ch.codes \subseteq CodesOf(ch.param) }
  <2>12. found \in Seq(S) /\ OneEach(found, Params)
    BY <2>6, <2>7, PanelChannelsMeasured DEF IInv, TypeOK
  <2> HIDE DEF found
  <2>13. \A i \in DOMAIN found :
           /\ found[i].monitor = h /\ Measured(found[i])
           /\ found[i].codes \subseteq CodesOf(found[i].param)
    <3>1. \A ch \in S : /\ ch.monitor = h /\ Measured(ch)
                        /\ ch.codes \subseteq CodesOf(ch.param)
      BY DEF ChannelsAt
    <3> HIDE DEF S
    <3>2. QED BY <2>12, <3>1, ElementOfSeq
  <2> HIDE DEF S
  <2>14. fresh' = fresh \o found BY <2>1 DEF found
  <2>15. fresh \in Seq(ChannelType) BY DEF IInv, TypeOK
  <2>16. /\ \A i \in DOMAIN fresh' :
              \/ i \in DOMAIN fresh /\ fresh'[i] = fresh[i]
              \/ i - Len(fresh) \in DOMAIN found
                   /\ fresh'[i] = found[i - Len(fresh)]
         /\ DOMAIN fresh' \subseteq Int /\ Len(fresh) \in Int
    BY <2>12, <2>14, <2>15
  <2>17. \A i \in DOMAIN fresh' :
           /\ \A g : g = fresh'[i].monitor => Passed(g)'
           /\ Routed(fresh'[i].monitor) => Measured(fresh'[i])
           /\ fresh'[i].codes \subseteq CodesOf(fresh'[i].param)
    BY <2>10, <2>11, <2>13, <2>16
    DEF ChannelInv, FreshInv, ChannelsApart
  <2>18. ASSUME NEW i \in DOMAIN fresh', NEW j \in DOMAIN fresh',
                fresh'[i].monitor = fresh'[j].monitor,
                fresh'[i].param = fresh'[j].param
         PROVE  i = j
    <3>1. CASE i \in DOMAIN fresh /\ fresh'[i] = fresh[i]
               /\ j \in DOMAIN fresh /\ fresh'[j] = fresh[j]
      BY <2>18, <3>1 DEF ChannelInv, FreshInv, ChannelsApart
    <3>2. CASE /\ i - Len(fresh) \in DOMAIN found
               /\ fresh'[i] = found[i - Len(fresh)]
               /\ j - Len(fresh) \in DOMAIN found
               /\ fresh'[j] = found[j - Len(fresh)]
      <4>1. i - Len(fresh) = j - Len(fresh)
        BY <2>12, <2>18, <3>2 DEF OneEach
      <4>2. QED BY <2>16, <4>1
    <3>3. CASE i \in DOMAIN fresh /\ fresh'[i] = fresh[i]
               /\ j - Len(fresh) \in DOMAIN found
               /\ fresh'[j] = found[j - Len(fresh)]
      BY <2>10, <2>13, <2>18, <3>3 DEF ChannelInv, FreshInv
    <3>4. CASE j \in DOMAIN fresh /\ fresh'[j] = fresh[j]
               /\ i - Len(fresh) \in DOMAIN found
               /\ fresh'[i] = found[i - Len(fresh)]
      BY <2>10, <2>13, <2>18, <3>4 DEF ChannelInv, FreshInv
    <3>5. QED BY <2>16, <3>1, <3>2, <3>3, <3>4
  <2>19. FreshInv'
    BY <1>1, <2>17, <2>18
    DEF FreshInv, ChannelsApart, Routed, Measured, ShowsFirst, Register,
        Passed, Entries
  <2>20. QED BY <1>4, <2>19 DEF ChannelInv
<1>6. CASE ~ (at[2] <= Len(m_monitors[at[1]]))
  <2>1. at' = <<at[1] + 1, 1>> /\ fresh' = fresh BY <1>6 DEF BuildPanel
  <2>2. \A g : Passed(g) => Passed(g)'
    <3> SUFFICES ASSUME NEW g, Passed(g) PROVE Passed(g)'
      OBVIOUS
    <3>1. PICK e \in Entries(m_monitors) :
            /\ m_monitors[e[1]][e[2]] = g
            /\ e[1] < at[1] \/ (e[1] = at[1] /\ e[2] < at[2])
      BY DEF Passed
    <3>2. e[1] \in Nat BY <1>3
    <3>3. e[1] < at'[1] BY <1>2, <2>1, <3>1, <3>2
    <3>4. Entries(m_monitors)' = Entries(m_monitors) BY <1>1 DEF Entries
    <3>5. QED BY <1>1, <3>1, <3>3, <3>4 DEF Passed
  <2>3. FreshInv'
    BY <1>1, <2>1, <2>2
    DEF ChannelInv, FreshInv, ChannelsApart, Routed, Measured, ShowsFirst,
        Register
  <2>4. QED BY <1>4, <2>3 DEF ChannelInv
<1>7. QED BY <1>5, <1>6

\* What the type of a channel says of its handle and its codes.
Placed(ch) == ch.monitor \in Handles /\ First(ch.codes) \in ch.codes

\* The steps that neither build, swap nor write.
LEMMA ChannelFrame ==
    ASSUME IInv, ChannelInv, Undisturbed,
           UNCHANGED <<m_channels, fresh, at, m_monitors>>,
           worker' = "build" <=> worker = "build",
           worker' = "onReady" => worker = "onReady",
           \A i \in DOMAIN m_channels : Placed(m_channels[i]),
           \A i \in DOMAIN fresh : Placed(fresh[i])
    PROVE  ChannelInv'
<1>1. FreshInv'
  <2>1. \A i \in DOMAIN fresh : Passed(fresh[i].monitor)'
    BY DEF ChannelInv, FreshInv, Passed, Entries
  <2>2. \A i \in DOMAIN fresh : Routed(fresh[i].monitor)' => Measured(fresh[i])'
    BY DEF ChannelInv, FreshInv, Undisturbed, Measured, Placed, ShowsFirst,
           Register
  <2>3. QED BY <2>1, <2>2 DEF ChannelInv, FreshInv, ChannelsApart
<1>2. EnumerationHeals'
  BY DEF ChannelInv, EnumerationHeals, CodesAnswer, Undisturbed, Placed,
         ShowsFirst, Register
<1>3. CodesAnswer' BY DEF ChannelInv, CodesAnswer, Undisturbed, Placed
<1>4. QED BY <1>1, <1>2, <1>3 DEF ChannelInv, ChannelsApart

LEMMA ChannelsPlaced ==
    ASSUME IInv
    PROVE  /\ \A i \in DOMAIN m_channels : Placed(m_channels[i])
           /\ \A i \in DOMAIN fresh : Placed(fresh[i])
<1>1. m_channels \in Seq(ChannelType) /\ fresh \in Seq(ChannelType)
  BY DEF IInv, TypeOK
<1>2. \A ch \in ChannelType : Placed(ch) BY FirstType DEF ChannelType, Placed
<1>3. QED BY <1>1, <1>2, ElementOfSeq

\* The steps after which every panel still holds what it held.
LEMMA QuietSteps ==
    ASSUME IInv, RouteInv, [Next]_vars,
           ~RefreshEnumerates, ~Write, ~Retry
    PROVE  Undisturbed
<1>1. CASE UNCHANGED <<routes, panelValue>> BY <1>1 DEF Undisturbed, Routed
<1>2. CASE Desktop
  BY <1>2, TopologyUndisturbed DEF Desktop, RouteInv, IInv, TypeOK
<1>3. CASE Input
  <2>1. PICK target : Queue(target) BY <1>3, SelectedTargets, Zenon
  <2>2. QED BY <1>1, <2>1 DEF Queue
<1>4. CASE PanelSettles
  BY <1>4, CatchUpUndisturbed DEF PanelSettles, IInv, TypeOK
<1>5. CASE ~Input /\ ~Desktop /\ ~PanelSettles
  BY <1>1, <1>5
  DEF Next, Setting, SetScope, SetParamEnabled, SetScrollStep, Lifecycle,
      Start, Stop, RequestReenumerate, Caller, NotifyAll, Join, Worker,
      Waking, EnterLoop, IdleWakes, TimerExpires, QuietEnds, Enumeration,
      RefreshQueries, QueryActiveTargets, BuildPanel, Swap, OnReady, Flush,
      BeginEntry, FlushDone, SpuriousWake, QuietElapses,
      loopFrame, enumerateFrame, writeFrame, vars
<1>6. QED BY <1>2, <1>3, <1>4, <1>5

LEMMA ChannelStep ==
    IInv /\ HandleInv /\ RouteInv /\ ChannelInv /\ [Next]_vars => ChannelInv'
<1> SUFFICES ASSUME IInv, HandleInv, RouteInv, ChannelInv, [Next]_vars
             PROVE  ChannelInv'
  OBVIOUS
<1> USE DEF stateVars, settingVars, flushVars, managerVars
<1>1. CASE Input
  <2>1. PICK target : Queue(target) BY <1>1, SelectedTargets, Zenon
  <2>2. m_mutex = "free" BY <1>1, SelectedTargets
  <2>3. worker # "onReady" BY <2>2 DEF IInv, TypeOK
  <2>4. /\ UNCHANGED <<routes, panelValue, fresh, at, m_monitors>>
        /\ worker' = worker \/ worker' = Notified
    BY <2>1 DEF Queue
  <2>5. worker' # "onReady" /\ (worker' = "build" <=> worker = "build")
    BY <2>3, <2>4 DEF Notified
  <2>6. ChannelsApart(m_channels)'
    BY <2>1, QueueKeeps DEF ChannelInv, ChannelsApart
  <2>7. FreshInv'
    BY <2>4, <2>5
    DEF ChannelInv, FreshInv, ChannelsApart, Passed, Entries, Routed, Measured,
        ShowsFirst, Register
  <2>8. CodesAnswer'
    BY <2>1, <2>4, <2>5, QueueKeeps DEF ChannelInv, CodesAnswer, Routed
  <2>9. QED BY <2>5, <2>6, <2>7, <2>8 DEF ChannelInv, EnumerationHeals
<1>2. CASE RefreshEnumerates
  <2>1. fresh' = <<>> /\ worker' = "build" /\ m_channels' = m_channels
    BY <1>2 DEF RefreshEnumerates, enumerateFrame
  <2>2. QED
    BY <2>1
    DEF ChannelInv, FreshInv, ChannelsApart, CodesAnswer, EnumerationHeals
<1>3. CASE BuildPanel BY <1>3, ChannelBuild
<1>4. CASE Swap
  <2>1. /\ m_channels' = fresh /\ fresh' = <<>> /\ worker' = "onReady"
        /\ UNCHANGED <<routes, panelValue>>
    BY <1>4 DEF Swap
  <2>2. EnumerationHeals'
    BY <2>1
    DEF ChannelInv, FreshInv, EnumerationHeals, Routed, Measured, ShowsFirst,
        Register
  <2>3. CodesAnswer'
    BY <2>1 DEF ChannelInv, FreshInv, CodesAnswer, Routed, Measured
  <2>4. QED BY <2>1, <2>2, <2>3 DEF ChannelInv, FreshInv, ChannelsApart
<1>5. CASE Write \/ Retry
  <2>1. /\ worker \notin {"build", "onReady"}
        /\ worker' \notin {"build", "onReady"}
    BY <1>5, Zenon DEF Write, Retry, CodeDone
  <2>2. UNCHANGED <<fresh, m_channels, routes>>
    BY <1>5 DEF Write, Retry, writeFrame
  <2>3. fresh = <<>> BY <2>1 DEF ChannelInv, FreshInv
  <2>4. QED
    BY <2>1, <2>2, <2>3
    DEF ChannelInv, FreshInv, ChannelsApart, CodesAnswer, EnumerationHeals,
        Routed
<1>6. CASE /\ ~Input /\ ~RefreshEnumerates /\ ~BuildPanel /\ ~Swap
           /\ ~Write /\ ~Retry
  <2>1. Undisturbed BY <1>6, QuietSteps
  <2>2. UNCHANGED <<m_channels, fresh, at, m_monitors>>
    BY <1>6
    DEF Next, Setting, SetScope, SetParamEnabled, SetScrollStep, Lifecycle,
        Start, Stop, RequestReenumerate, Caller, NotifyAll, Join, Worker,
        Waking, EnterLoop, IdleWakes, TimerExpires, QuietEnds, Enumeration,
        RefreshQueries, QueryActiveTargets, OnReady, Flush, BeginEntry,
        FlushDone, SpuriousWake, QuietElapses, Desktop, TopologyChange,
        PanelSettles, loopFrame, enumerateFrame, writeFrame, vars
  <2>3. /\ worker' = "build" <=> worker = "build"
        /\ worker' = "onReady" => worker = "onReady"
    <3>1. CASE Start
      BY <3>1 DEF Start, CanCall, IInv, OneWorker
    <3>2. CASE Dispatch \/ IdleWait \/ LoopTop
      <4>1. worker' \in {"none", "refresh", "write", "idleWait", "quietWait"}
        BY <3>2, Zenon
        DEF Dispatch, IdleWait, LoopTop, QuietWait, ExitLoop,
            TakeReenumerate, TakeBatch
      <4>2. worker # "build"
        BY <1>6, <3>2
        DEF Next, Setting, SetScope, SetParamEnabled, SetScrollStep,
            Lifecycle, Start, Stop, RequestReenumerate, Caller, NotifyAll,
            Join, Worker, Waking, EnterLoop, IdleWakes, TimerExpires,
            QuietEnds, Enumeration, RefreshQueries, OnReady, Flush,
            BeginEntry, FlushDone, SpuriousWake, QuietElapses, Desktop,
            PanelSettles, enumerateFrame, writeFrame, vars, Dispatch, IdleWait, LoopTop,
            QuietWait, ExitLoop, TakeReenumerate, TakeBatch, Notified
      <4>3. QED BY <4>1, <4>2
    <3>3. CASE ~Start /\ ~(Dispatch \/ IdleWait \/ LoopTop)
      BY <1>6, <3>3
      DEF Next, Setting, SetScope, SetParamEnabled, SetScrollStep,
          Lifecycle, Stop, RequestReenumerate, Caller, NotifyAll, Join,
          Worker, Waking, EnterLoop, IdleWakes, TimerExpires, QuietEnds,
          Enumeration, RefreshQueries, OnReady, Flush, BeginEntry, FlushDone,
          SpuriousWake, QuietElapses, Desktop, PanelSettles, enumerateFrame,
          writeFrame, vars, Notified
    <3>4. QED BY <3>1, <3>2, <3>3
  <2>4. QED BY <2>1, <2>2, <2>3, ChannelsPlaced, ChannelFrame
<1>7. QED BY <1>1, <1>2, <1>3, <1>4, <1>5, <1>6

LEMMA ChannelInit == Init => ChannelInv
BY DEF Init, ChannelInv, FreshInv, ChannelsApart, CodesAnswer, EnumerationHeals

LEMMA ChannelSafe == Spec => [](IInv /\ HandleInv /\ RouteInv /\ ChannelInv)
<1>1. Init => RouteInv /\ ChannelInv BY RouteInit, ChannelInit
<1>2. IInv /\ HandleInv /\ RouteInv /\ ChannelInv /\ [Next]_vars
        => RouteInv' /\ ChannelInv'
  BY RouteStep, ChannelStep
<1>3. QED BY <1>1, <1>2, HandleSafe, PTL DEF Spec

(* Every enumeration ends with a cache that is what the panels hold, save  *)
(* what a panel replied before it had caught up with a write, whatever the *)
(* writes before it did and whichever panels came, went or failed          *)
(* meanwhile (AdjustmentCoordinator.cpp:340-405, 456-482, 503-504).        *)
THEOREM EnumerationAlwaysHeals == Spec => []EnumerationHeals
<1>1. ChannelInv => EnumerationHeals BY DEF ChannelInv
<1>2. QED BY <1>1, ChannelSafe, PTL

-----------------------------------------------------------------------------
(* Writes.                                                                 *)

\* What the flush has done for the channel it is at.
Progress ==
    entry # 0 =>
      /\ left \subseteq m_channels[entry].codes
      /\ \A c \in m_channels[entry].codes \ left :
           Reliable(m_channels[entry].monitor, c) =>
             panelValue[routes[m_channels[entry].monitor]][c].holds
               = ToRaw(batch[entry], m_channels[entry].maxValue)

\* A channel that nothing is queued or in flight for.
Agrees(i) == ~m_channels[i].exact \/ Shows(m_channels[i])

SettledInv == Progress /\ SettledAgreement

LEMMA CodesDisjoint ==
    ASSUME NEW p \in Params, NEW q \in Params, p # q
    PROVE  CodesOf(p) \cap CodesOf(q) = {}
BY DEF Params, CodesOf, Brightness, Contrast, RedGain, GreenGain, BlueGain,
       Volume, SaturationAxes

\* One transaction of the flush changes one register of its own channel.
LEMMA TransactionEffect ==
    ASSUME IInv, RouteInv, ChannelInv, Progress, entry # 0,
           NEW c, c = First(left), UNCHANGED writeFrame,
           \/ WriteSucceeds(m_channels[entry].monitor, c, RawTarget)
           \/ WriteFails(m_channels[entry].monitor, c, RawTarget)
    PROVE  /\ c \in left /\ left \subseteq m_channels[entry].codes
           /\ \A i \in DOMAIN m_channels \ {entry} :
                Routed(m_channels[i].monitor) =>
                  \A d \in m_channels[i].codes :
                    panelValue'[routes[m_channels[i].monitor]][d].holds
                      = panelValue[routes[m_channels[i].monitor]][d].holds
           /\ \A d \in m_channels[entry].codes \ (left \ {c}) :
                Reliable(m_channels[entry].monitor, d) =>
                  panelValue'[routes[m_channels[entry].monitor]][d].holds
                    = ToRaw(batch[entry], m_channels[entry].maxValue)
<1> DEFINE h == m_channels[entry].monitor
           q == routes[h]
           new == Stored(panelValue[q][c], RawTarget)
<1>1. entry \in DOMAIN batch /\ entry \in DOMAIN m_channels /\ left # {}
        /\ left \subseteq Codes /\ batch[entry] \in Percent
        /\ worker # "build"
  BY DEF IInv, TypeOK, TargetsNameChannels
<1>2. c \in left /\ left \subseteq m_channels[entry].codes
  BY <1>1, FirstType DEF Progress
<1>3. \A i \in DOMAIN m_channels :
        m_channels[i].monitor \in Handles /\ m_channels[i].param \in Params
  <2>1. \A ch \in ChannelType : ch.monitor \in Handles /\ ch.param \in Params
    BY DEF ChannelType
  <2>2. m_channels \in Seq(ChannelType) BY DEF IInv, TypeOK
  <2>3. QED BY <2>1, <2>2, ElementOfSeq
<1>4. RawTarget = ToRaw(batch[entry], m_channels[entry].maxValue)
  BY <1>1 DEF RawTarget, Clamp, Percent
<1>5. \/ panelValue' = panelValue
      \/ /\ Answering(h, c)
         /\ panelValue' = [panelValue EXCEPT ![q][c] = new]
  BY DEF WriteSucceeds, WriteFails, Store
<1>6. panelValue = [p \in Panels |-> panelValue[p]]
        /\ \A p \in Panels : panelValue[p] \in [Answers[p] -> Registers]
  BY DEF IInv, TypeOK, ManagerTypeOK
<1> HIDE DEF new
<1>7. \A p \in Panels : \A d \in Answers[p] :
        (p # q \/ d # c) => panelValue'[p][d] = panelValue[p][d]
  <2>1. CASE panelValue' = panelValue BY <2>1
  <2>2. CASE /\ Answering(h, c)
             /\ panelValue' = [panelValue EXCEPT ![q][c] = new]
    <3>1. q \in Panels BY <2>2 DEF Answering, Routed
    <3> HIDE DEF q
    <3>2. panelValue[q] \in [Answers[q] -> Registers] BY <1>6, <3>1
    <3>3. \A d \in Answers[q] :
            d # c => [panelValue[q] EXCEPT ![c] = new][d]
                       = panelValue[q][d]
      BY <3>2
    <3>4. panelValue' =
            [panelValue EXCEPT ![q] = [panelValue[q] EXCEPT ![c] = new]]
      BY <2>2
    <3>5. \A p \in Panels :
            panelValue'[p] = IF p = q
                             THEN [panelValue[q] EXCEPT ![c] = new]
                             ELSE panelValue[p]
      BY <1>6, <3>4
    <3>6. QED BY <3>1, <3>3, <3>5
  <2>3. QED BY <1>5, <2>1, <2>2
<1>8. Reliable(h, c) => panelValue'[q][c].holds = RawTarget
  <2> SUFFICES ASSUME Reliable(h, c) PROVE panelValue'[q][c].holds = RawTarget
    OBVIOUS
  <2>1. WriteSucceeds(h, c, RawTarget) BY DEF WriteFails
  <2>2. q \in Panels /\ c \in Answers[q]
          /\ panelValue' = [panelValue EXCEPT ![q][c] = new]
    BY <2>1 DEF WriteSucceeds, Answering, Routed, Store, new
  <2>3. new.holds = RawTarget BY DEF Stored, new
  <2> HIDE DEF q
  <2>4. panelValue'[q][c] = new BY <1>6, <2>2
  <2>5. QED BY <2>3, <2>4
<1>9. ASSUME NEW i \in DOMAIN m_channels \ {entry},
             Routed(m_channels[i].monitor), NEW d \in m_channels[i].codes
      PROVE  panelValue'[routes[m_channels[i].monitor]][d].holds
               = panelValue[routes[m_channels[i].monitor]][d].holds
  <2> DEFINE p == routes[m_channels[i].monitor]
  <2>1. p \in Panels BY <1>9 DEF Routed
  <2>2. p # q \/ d # c
    <3> SUFFICES ASSUME p = q, d = c PROVE FALSE OBVIOUS
    <3>1. m_channels[i].monitor = h
      BY <1>1, <1>3, <1>9 DEF RouteInv, RoutesInjective
    <3>2. m_channels[i].param # m_channels[entry].param
      BY <1>1, <1>9, <3>1 DEF ChannelInv, ChannelsApart
    <3>3. d \in CodesOf(m_channels[i].param)
            /\ c \in CodesOf(m_channels[entry].param)
      BY <1>1, <1>2, <1>9 DEF ChannelInv, ChannelsApart
    <3>4. QED BY <1>1, <1>3, <3>2, <3>3, CodesDisjoint
  <2>3. d \in Answers[p]
    BY <1>9, <1>1 DEF ChannelInv, CodesAnswer
  <2>4. QED BY <1>7, <2>1, <2>2, <2>3
<1>10. ASSUME NEW d \in m_channels[entry].codes \ (left \ {c}),
              Reliable(h, d)
       PROVE  panelValue'[q][d].holds
                = ToRaw(batch[entry], m_channels[entry].maxValue)
  <2>1. CASE d = c BY <1>4, <1>8, <1>10, <2>1
  <2>2. CASE d # c
    <3>1. d \in m_channels[entry].codes \ left BY <1>10, <2>2
    <3>2. panelValue[q][d].holds
            = ToRaw(batch[entry], m_channels[entry].maxValue)
      BY <1>10, <3>1 DEF Progress
    <3>3. q \in Panels /\ d \in Answers[q]
      BY <1>10 DEF Reliable, Answering, Routed
    <3>4. QED BY <1>7, <2>2, <3>2, <3>3
  <2>3. QED BY <2>1, <2>2
<1>11. QED BY <1>2, <1>9, <1>10

\* The steps that change neither a cached value nor a queue.
LEMMA SettledFrame ==
    ASSUME IInv, SettledInv, Undisturbed,
           UNCHANGED <<m_started, m_ready, m_channels, batch, entry, left>>,
           CodesAnswer, DOMAIN m_pending' = DOMAIN m_pending,
           worker' # "build" => worker # "build"
    PROVE  SettledInv'
<1>1. \A i \in DOMAIN m_channels : Placed(m_channels[i]) BY ChannelsPlaced
<1>2. Progress'
  <2> SUFFICES ASSUME entry # 0, NEW c \in m_channels[entry].codes \ left,
                      Reliable(m_channels[entry].monitor, c)'
               PROVE  panelValue'[routes'[m_channels[entry].monitor]][c].holds
                        = ToRaw(batch[entry], m_channels[entry].maxValue)
    BY DEF SettledInv, Progress
  <2>1. m_channels[entry].monitor \in Handles
    BY <1>1 DEF IInv, TargetsNameChannels, Placed
  <2>2. Routed(m_channels[entry].monitor)' BY DEF Reliable, Answering
  <2>3. /\ routes'[m_channels[entry].monitor] = routes[m_channels[entry].monitor]
        /\ \A d \in Answers[routes[m_channels[entry].monitor]] :
             panelValue'[routes[m_channels[entry].monitor]][d].holds
               = panelValue[routes[m_channels[entry].monitor]][d].holds
        /\ Routed(m_channels[entry].monitor)
    BY <2>1, <2>2 DEF Undisturbed
  <2>4. Reliable(m_channels[entry].monitor, c)
    BY <2>3 DEF Reliable, Answering
  <2>5. QED BY <2>3, <2>4 DEF SettledInv, Progress, Reliable, Answering
<1>3. SettledAgreement'
  <2> SUFFICES ASSUME (m_started /\ m_ready /\ worker # "build")',
                      NEW i \in DOMAIN m_channels
                                  \ (DOMAIN m_pending \cup DOMAIN batch),
                      Routed(m_channels[i].monitor)'
               PROVE  Agrees(i)'
    BY DEF SettledAgreement, Agrees
  <2> DEFINE h == m_channels[i].monitor
  <2>1. /\ Routed(h) /\ routes'[h] = routes[h]
        /\ \A d \in Answers[routes[h]] :
             panelValue'[routes[h]][d].holds = panelValue[routes[h]][d].holds
    BY <1>1 DEF Undisturbed, Placed
  <2>2. Agrees(i) BY <2>1 DEF SettledInv, SettledAgreement, Agrees
  <2>3. \A c : Reliable(h, c)' => Reliable(h, c) /\ c \in Answers[routes[h]]
    BY <2>1 DEF Reliable, Answering
  <2>4. First(m_channels[i].codes) \in Answers[routes[h]]
    BY <1>1, <2>1 DEF CodesAnswer, Placed
  <2>5. QED
    BY <2>1, <2>2, <2>3, <2>4 DEF Agrees, Shows, ShowsFirst, Register
<1>4. QED BY <1>2, <1>3 DEF SettledInv

LEMMA SettledWrite ==
    ASSUME IInv, ShownInv, RouteInv, ChannelInv, SettledInv, Write \/ Retry
    PROVE  /\ SettledInv'
           /\ \A i \in DOMAIN batch \ DOMAIN batch' :
                \A c \in m_channels[i].codes :
                  Reliable(m_channels[i].monitor, c) =>
                    panelValue'[routes[m_channels[i].monitor]][c].holds
                      = ToRaw(batch[i], m_channels[i].maxValue)
<1> DEFINE c == First(left)
<1>1. /\ worker \in {"write", "retry"} /\ entry # 0
      /\ UNCHANGED <<m_started, m_ready, m_channels, m_pending, routes>>
      /\ UNCHANGED writeFrame
  <2>1. worker \in {"write", "retry"} /\ UNCHANGED writeFrame
    BY Zenon DEF Write, Retry
  <2>2. entry # 0 BY DEF Write, Retry, IInv, TargetsNameChannels
  <2>3. QED BY <2>1, <2>2 DEF writeFrame, stateVars
<1>2. \/ WriteSucceeds(m_channels[entry].monitor, c, RawTarget)
      \/ WriteFails(m_channels[entry].monitor, c, RawTarget)
  BY DEF Write, Retry
<1>3. CodeDone \/ UNCHANGED flushVars BY Zenon DEF Write, Retry
<1>4. entry \in DOMAIN batch /\ entry \in DOMAIN m_channels
  BY <1>1 DEF IInv, TargetsNameChannels
<1>5. /\ c \in left /\ left \subseteq m_channels[entry].codes
      /\ \A i \in DOMAIN m_channels \ {entry} :
           Routed(m_channels[i].monitor) =>
             \A d \in m_channels[i].codes :
               panelValue'[routes[m_channels[i].monitor]][d].holds
                 = panelValue[routes[m_channels[i].monitor]][d].holds
      /\ \A d \in m_channels[entry].codes \ (left \ {c}) :
           Reliable(m_channels[entry].monitor, d) =>
             panelValue'[routes[m_channels[entry].monitor]][d].holds
               = ToRaw(batch[entry], m_channels[entry].maxValue)
  BY <1>1, <1>2, TransactionEffect DEF SettledInv
<1> HIDE DEF c
<1>6. \A g, d : Reliable(g, d)' <=> Reliable(g, d)
  BY <1>1 DEF Reliable, Answering, Routed
<1>7. ASSUME NEW i \in DOMAIN m_channels \ {entry}, Routed(m_channels[i].monitor),
             Agrees(i)
      PROVE  Agrees(i)'
  <2>1. m_channels[i].codes # {} /\ m_channels[i].codes \subseteq Codes
    <3>1. m_channels[i] \in ChannelType BY ElementOfSeq DEF IInv, TypeOK
    <3>2. QED BY <3>1 DEF ChannelType
  <2>2. First(m_channels[i].codes) \in m_channels[i].codes
    BY <2>1, FirstType
  <2>3. \A d \in m_channels[i].codes :
          panelValue'[routes[m_channels[i].monitor]][d].holds
            = panelValue[routes[m_channels[i].monitor]][d].holds
    BY <1>5, <1>7
  <2>4. QED
    BY <1>1, <1>6, <1>7, <2>2, <2>3 DEF Agrees, Shows, ShowsFirst, Register
<1>8. ASSUME m_started, m_ready,
             NEW i \in DOMAIN m_channels \ (DOMAIN m_pending \cup DOMAIN batch),
             Routed(m_channels[i].monitor)
      PROVE  Agrees(i)'
  <2>1. Agrees(i) BY <1>1, <1>8 DEF SettledInv, SettledAgreement, Agrees
  <2>2. i # entry BY <1>4, <1>8
  <2>3. QED BY <1>7, <1>8, <2>1, <2>2
<1>9. CASE \/ UNCHANGED flushVars
           \/ CodeDone /\ left' # {}
  <2>1. UNCHANGED <<entry, batch>> /\ left \ {c} \subseteq left'
          /\ left' \subseteq left
    BY <1>9 DEF CodeDone, flushVars, c
  <2>2. Progress'
    BY <1>1, <1>5, <1>6, <2>1 DEF Progress
  <2>3. SettledAgreement'
    BY <1>1, <1>8, <2>1 DEF SettledAgreement, Agrees, Routed
  <2>4. QED BY <2>1, <2>2, <2>3 DEF SettledInv
<1>10. CASE CodeDone /\ left' = {}
  <2>1. /\ left \ {c} = {} /\ entry' = 0
        /\ batch' = [i \in DOMAIN batch \ {entry} |-> batch[i]]
    BY <1>10 DEF CodeDone, c
  <2>2. \A d \in m_channels[entry].codes :
          Reliable(m_channels[entry].monitor, d) =>
            panelValue'[routes[m_channels[entry].monitor]][d].holds
              = ToRaw(batch[entry], m_channels[entry].maxValue)
    BY <1>5, <2>1
  <2>3. Progress' BY <2>1 DEF Progress
  <2>4. SettledAgreement'
    <3> SUFFICES ASSUME m_started, m_ready,
                        NEW i \in DOMAIN m_channels
                                  \ (DOMAIN m_pending \cup DOMAIN batch'),
                        Routed(m_channels[i].monitor)
                 PROVE  Agrees(i)'
      BY <1>1 DEF SettledAgreement, Agrees, Routed
    <3>1. CASE i # entry
      <4>1. i \notin DOMAIN batch BY <2>1, <3>1
      <4>2. QED BY <1>8, <4>1
    <3>2. CASE i = entry
      <4>1. batch[entry] = m_channels[entry].current
        BY <1>4, <3>2 DEF ShownInv, LastValueWins
      <4>2. QED BY <1>1, <1>6, <2>2, <3>2, <4>1 DEF Agrees, Shows, Register
    <3>3. QED BY <3>1, <3>2
  <2>5. DOMAIN batch \ DOMAIN batch' = {entry} BY <1>4, <2>1
  <2>6. QED BY <2>2, <2>3, <2>4, <2>5 DEF SettledInv
<1>11. QED BY <1>3, <1>9, <1>10

LEMMA SettledStep ==
    IInv /\ HandleInv /\ ShownInv /\ RouteInv /\ ChannelInv /\ SettledInv
      /\ [Next]_vars => SettledInv'
<1> SUFFICES ASSUME IInv, HandleInv, ShownInv, RouteInv, ChannelInv,
                    SettledInv, [Next]_vars
             PROVE  SettledInv'
  OBVIOUS
<1> USE DEF stateVars, settingVars, flushVars, managerVars
<1>1. CASE Write \/ Retry BY <1>1, SettledWrite
<1>2. CASE Input
  <2>1. PICK target : Queue(target) BY <1>2, SelectedTargets, Zenon
  <2>2. /\ UNCHANGED <<routes, panelValue, m_started, m_ready, batch, entry,
                       left>>
        /\ worker' = worker \/ worker' = Notified
    BY <2>1 DEF Queue
  <2>3. worker' # "build" => worker # "build" BY <2>2 DEF Notified
  <2>4. \A g, c : Reliable(g, c)' <=> Reliable(g, c)
    BY <2>2 DEF Reliable, Answering, Routed
  <2>5. entry # 0 => entry \in DOMAIN m_channels
    BY DEF IInv, TargetsNameChannels
  <2>6. Progress'
    BY <2>1, <2>2, <2>4, <2>5, QueueKeeps DEF SettledInv, Progress
  <2>7. SettledAgreement'
    <3> SUFFICES ASSUME (m_started /\ m_ready /\ worker # "build")',
                        NEW i \in DOMAIN m_channels'
                                    \ (DOMAIN m_pending' \cup DOMAIN batch'),
                        Routed(m_channels'[i].monitor)
                 PROVE  Agrees(i)'
      BY <2>2 DEF SettledAgreement, Agrees, Routed
    <3>1. /\ i \in DOMAIN m_channels /\ m_channels'[i] = m_channels[i]
          /\ i \notin DOMAIN m_pending /\ i \notin DOMAIN batch
      BY <2>1, <2>2, QueueKeeps
    <3>2. Agrees(i)
      BY <2>2, <2>3, <3>1 DEF SettledInv, SettledAgreement, Agrees, Routed
    <3>3. QED
      BY <2>2, <2>4, <3>1, <3>2 DEF Agrees, Shows, ShowsFirst, Register
  <2>8. QED BY <2>6, <2>7 DEF SettledInv
<1>3. CASE RefreshEnumerates \/ BuildPanel
  <2>1. worker' = "build" /\ entry' = 0
    BY <1>3
    DEF RefreshEnumerates, BuildPanel, enumerateFrame, IInv,
        TargetsNameChannels
  <2>2. QED BY <2>1 DEF SettledInv, Progress, SettledAgreement
<1>4. CASE Swap
  <2>1. /\ m_channels' = fresh /\ entry' = 0
        /\ UNCHANGED <<routes, panelValue>>
    BY <1>4 DEF Swap, IInv, TargetsNameChannels
  <2>2. \A i \in DOMAIN m_channels' :
          Routed(m_channels'[i].monitor) => Agrees(i)'
    BY <2>1
    DEF ChannelInv, FreshInv, Measured, Agrees, Shows, ShowsFirst, Register
  <2>3. SettledAgreement' BY <2>1, <2>2 DEF SettledAgreement, Agrees, Routed
  <2>4. QED BY <2>1, <2>3 DEF SettledInv, Progress
<1>5. CASE Start
  <2>1. m_ready' = FALSE /\ entry' = 0
    BY <1>5 DEF Start, CanCall, IInv, OneWorker, TargetsNameChannels
  <2>2. QED BY <2>1 DEF SettledInv, Progress, SettledAgreement
<1>6. CASE Stop
  <2>1. /\ m_started' = FALSE
        /\ UNCHANGED <<routes, panelValue, m_channels, batch, entry, left>>
    BY <1>6 DEF Stop
  <2>2. QED
    BY <2>1
    DEF SettledInv, Progress, SettledAgreement, Reliable, Answering, Routed
<1>7. CASE EnterLoop \/ IdleWakes \/ QuietEnds \/ FlushDone \/ OnReady
  <2>1. worker \notin {"write", "retry"} \/ FlushDone
    BY <1>7 DEF EnterLoop, IdleWakes, QuietEnds, OnReady
  <2>2. DOMAIN batch = {} /\ entry = 0 /\ left = {}
    BY <2>1 DEF IInv, TargetsNameChannels, FlushDone
  <2>3. LoopTop \/ IdleWait \/ Dispatch
    BY <1>7, Zenon DEF EnterLoop, IdleWakes, QuietEnds, FlushDone, OnReady
  <2>4. /\ UNCHANGED <<m_started, m_ready, m_channels, routes, panelValue>>
        /\ worker # "build"
    BY <1>7
    DEF EnterLoop, IdleWakes, QuietEnds, FlushDone, OnReady, loopFrame
  <2>5. \/ UNCHANGED <<m_pending, batch, entry, left>>
        \/ /\ batch' = m_pending /\ m_pending' = NoTarget
           /\ entry' = 0 /\ left' = {}
    BY <2>3, Zenon
    DEF LoopTop, IdleWait, QuietWait, Dispatch, ExitLoop, TakeReenumerate,
        TakeBatch
  <2>6. entry' = 0
          /\ DOMAIN m_pending' \cup DOMAIN batch'
               = DOMAIN m_pending \cup DOMAIN batch
    BY <2>2, <2>5 DEF NoTarget
  <2>7. SettledAgreement'
    BY <2>4, <2>6
    DEF SettledInv, SettledAgreement, Shows, ShowsFirst, Register, Reliable,
        Answering, Routed
  <2>8. QED BY <2>6, <2>7 DEF SettledInv, Progress
<1>8. CASE BeginEntry
  <2>1. PICK i \in DOMAIN batch : entry' = i /\ left' = m_channels[i].codes
    BY <1>8 DEF BeginEntry
  <2>2. UNCHANGED <<m_started, m_ready, m_channels, m_pending, batch, routes,
                    panelValue, worker>>
    BY <1>8 DEF BeginEntry, writeFrame
  <2>3. Progress' BY <2>1, <2>2 DEF Progress
  <2>4. SettledAgreement'
    BY <2>2
    DEF SettledInv, SettledAgreement, Shows, ShowsFirst, Register, Reliable,
        Answering, Routed
  <2>5. QED BY <2>3, <2>4 DEF SettledInv
<1>9. CASE \/ Setting \/ RequestReenumerate \/ Caller \/ TimerExpires
           \/ RefreshQueries \/ SpuriousWake \/ QuietElapses \/ Desktop
           \/ PanelSettles \/ UNCHANGED vars
  <2>1. /\ UNCHANGED <<m_started, m_ready, m_channels, m_pending, batch, entry,
                       left>>
        /\ worker' # "build" => worker # "build"
    BY <1>9
    DEF Setting, SetScope, SetParamEnabled, SetScrollStep,
        RequestReenumerate, Caller, NotifyAll, Join, TimerExpires,
        RefreshQueries, SpuriousWake, QuietElapses, Desktop, PanelSettles,
        loopFrame, enumerateFrame, Notified, vars
  <2>2. Undisturbed
    <3>1. CASE Desktop
      BY <3>1, TopologyUndisturbed DEF Desktop, RouteInv, IInv, TypeOK
    <3>2. CASE PanelSettles
      BY <3>2, CatchUpUndisturbed DEF PanelSettles, IInv, TypeOK
    <3>3. CASE ~Desktop /\ ~PanelSettles
      <4>1. UNCHANGED <<routes, panelValue>>
        BY <1>9, <3>3
        DEF Setting, SetScope, SetParamEnabled, SetScrollStep,
            RequestReenumerate, Caller, NotifyAll, Join, TimerExpires,
            RefreshQueries, QueryActiveTargets, SpuriousWake, QuietElapses,
            loopFrame, enumerateFrame, vars
      <4>2. QED BY <4>1 DEF Undisturbed, Routed
    <3>4. QED BY <3>1, <3>2, <3>3
  <2>3. QED BY <2>1, <2>2, SettledFrame DEF ChannelInv
<1>10. QED
  BY <1>1, <1>2, <1>3, <1>4, <1>5, <1>6, <1>7, <1>8, <1>9, Zenon
  DEF Next, Lifecycle, Worker, Waking, Enumeration, Flush

\* Everything the theorems below follow from.
PanelInv == IInv /\ HandleInv /\ ShownInv /\ RouteInv /\ ChannelInv /\ SettledInv

LEMMA PanelSafe == Spec => []PanelInv
<1>1. Init => ShownInv
  BY DEF Init, ShownInv, LastValueWins, StoppedQueuesNothing, NoTarget
<1>2. Init => SettledInv
  BY DEF Init, SettledInv, Progress, SettledAgreement
<1>3. IInv /\ ShownInv /\ [Next]_vars => ShownInv' BY ShownStep
<1>4. PanelInv /\ [Next]_vars => SettledInv' BY SettledStep DEF PanelInv
<1>5. PanelInv <=> /\ IInv /\ HandleInv /\ RouteInv /\ ChannelInv
                   /\ ShownInv /\ SettledInv
  BY DEF PanelInv
<1>6. QED BY <1>1, <1>2, <1>3, <1>4, <1>5, ChannelSafe, PTL DEF Spec

(* A channel with nothing queued or in flight shows what its panel holds:  *)
(* the enumeration's baseline, or the last target on every axis that       *)
(* works, whatever failed, was retried or was unplugged before             *)
(* (AdjustmentCoordinator.cpp:165-169, 366, 389, 492-516).                 *)
THEOREM CacheAgreesWithPanels == Spec => []SettledAgreement
<1>1. PanelInv => SettledAgreement BY DEF PanelInv, SettledInv
<1>2. QED BY <1>1, PanelSafe, PTL

(* A failing axis costs no other axis its write: when a channel leaves the *)
(* batch all its working codes hold the target                             *)
(* (AdjustmentCoordinator.h:41-42, cpp:499-515).                           *)
THEOREM EveryAxisIsReached == Spec => FanOutReachesEveryAxis
<1> DEFINE Reached == \A i \in DOMAIN batch \ DOMAIN batch' :
              \A c \in m_channels[i].codes :
                Reliable(m_channels[i].monitor, c) =>
                  panelValue'[routes[m_channels[i].monitor]][c].holds
                     = ToRaw(batch[i], m_channels[i].maxValue)
<1>1. PanelInv /\ [Next]_vars => Reached
  <2> SUFFICES ASSUME PanelInv, [Next]_vars PROVE Reached OBVIOUS
  <2> USE DEF stateVars, settingVars, flushVars, managerVars
  <2>1. CASE Write \/ Retry BY <2>1, SettledWrite DEF PanelInv
  <2>2. CASE DOMAIN batch = {} \/ batch' = batch BY <2>2
  <2>3. CASE Input
    <3>1. PICK target : Queue(target)
      BY <2>3, SelectedTargets, Zenon DEF PanelInv
    <3>2. QED BY <2>2, <3>1 DEF Queue
  <2>4. CASE EnterLoop \/ IdleWakes \/ QuietEnds \/ FlushDone \/ OnReady
    BY <2>2, <2>4
    DEF PanelInv, IInv, TargetsNameChannels, EnterLoop, IdleWakes, QuietEnds,
        FlushDone, OnReady
  <2>5. CASE \/ Setting \/ Lifecycle \/ Caller \/ TimerExpires
             \/ RefreshQueries \/ RefreshEnumerates \/ BuildPanel \/ Swap
             \/ BeginEntry \/ SpuriousWake \/ QuietElapses \/ Desktop
             \/ PanelSettles \/ UNCHANGED vars
    BY <2>2, <2>5
    DEF Setting, SetScope, SetParamEnabled, SetScrollStep, Lifecycle, Start,
        Stop, RequestReenumerate, Caller, NotifyAll, Join, TimerExpires,
        RefreshQueries, RefreshEnumerates, BuildPanel, Swap, BeginEntry,
        SpuriousWake, QuietElapses, Desktop, PanelSettles, loopFrame,
        enumerateFrame, writeFrame, vars
  <2>6. QED
    BY <2>1, <2>3, <2>4, <2>5, Zenon DEF Next, Worker, Waking, Enumeration,
       Flush
<1>2. [][Next]_vars /\ []PanelInv => [][Reached]_vars
  BY <1>1, PTL
<1>3. QED BY <1>2, PanelSafe DEF Spec, FanOutReachesEveryAxis

(* What a slider is set to is what it reads back, until something newer:   *)
(* setting and reading select the same channels                            *)
(* (AdjustmentCoordinator.h:127-130, cpp:180-213, 289-315).                *)
THEOREM SlidersReadBack == Spec => SliderReadsBack
<1> DEFINE ReadBack == \A param \in Params, value \in SliderPositions :
              AdjustTo(param, value) =>
                GetValue(param, m_scope)' \in {Clamp(value), kValueUnsupported}
<1>1. IInv => ReadBack
  <2> SUFFICES ASSUME IInv, NEW param \in Params,
                      NEW value \in SliderPositions, AdjustTo(param, value)
               PROVE  GetValue(param, m_scope)'
                        \in {Clamp(value), kValueUnsupported}
    OBVIOUS
  <2> DEFINE target == [i \in MatchingIn(m_channels, param, m_scope) |->
                          Clamp(value)]
             shown == { m_channels'[i].current :
                          i \in MatchingIn(m_channels', param, m_scope) }
  <2>1. Queue(target) /\ m_ready
    BY DEF AdjustTo, Accepting, MatchingIn
  <2>2. UNCHANGED <<m_scope, m_ready>>
    BY <2>1 DEF Queue, settingVars, stateVars
  <2>3. \A i \in DOMAIN m_channels : m_channels[i] \in ChannelType
    BY ElementOfSeq DEF IInv, TypeOK
  <2>4. /\ DOMAIN m_channels' = DOMAIN m_channels
        /\ \A i \in DOMAIN m_channels :
             /\ m_channels'[i].param = m_channels[i].param
             /\ m_channels'[i].monitorIndex = m_channels[i].monitorIndex
             /\ i \in DOMAIN target => m_channels'[i].current = target[i]
    <3> DEFINE moved == {i \in DOMAIN target :
                           target[i] # m_channels[i].current}
    <3>1. m_channels' = [i \in DOMAIN m_channels |->
                           IF i \in moved
                           THEN [m_channels[i] EXCEPT !.current = target[i],
                                                      !.exact = TRUE]
                           ELSE m_channels[i]]
      BY <2>1 DEF Queue
    <3> HIDE DEF target
    <3>2. QED BY <2>3, <3>1 DEF ChannelType
  <2>5. MatchingIn(m_channels', param, m_scope)
          = MatchingIn(m_channels, param, m_scope)
    BY <2>4 DEF MatchingIn
  <2>6. shown \subseteq {Clamp(value)}
    BY <2>4, <2>5 DEF MatchingIn
  <2>7. shown = {} \/ shown = {Clamp(value)} BY <2>6
  <2> HIDE DEF shown
  <2>8. Cardinality({Clamp(value)}) = 1 BY FS_Singleton
  <2>9. ValueIn(m_channels', param, m_scope)
          = IF shown = {} THEN kValueUnsupported
            ELSE IF Cardinality(shown) = 1 THEN CHOOSE v \in shown : TRUE
            ELSE kValueMixed
    BY DEF ValueIn, shown
  <2>10. ValueIn(m_channels', param, m_scope)
           \in {Clamp(value), kValueUnsupported}
    BY <2>7, <2>8, <2>9
  <2>11. GetValue(param, m_scope)' = ValueIn(m_channels', param, m_scope)
    BY <2>1, <2>2 DEF GetValue, ValueIn, MatchingIn
  <2>12. QED BY <2>10, <2>11
<1>2. [][Next]_vars /\ []IInv => [][ReadBack]_vars
  BY <1>1, PTL
<1>3. QED BY <1>2, SafeSpec DEF Spec, SliderReadsBack
=============================================================================
