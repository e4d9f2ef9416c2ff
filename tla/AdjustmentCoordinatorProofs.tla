-------------------- MODULE AdjustmentCoordinatorProofs --------------------
(***************************************************************************)
(* Safety of AdjustmentCoordinator for every set of panels, handles,       *)
(* layouts, faults and client inputs.  IInv is inductive and none of its   *)
(* parts is alone: the flush reads a channel's fields by an index taken    *)
(* from the batch (TypeOK needs TargetsNameChannels and the converse), and *)
(* a new worker starts with an empty batch because the old one was joined  *)
(* (TargetsNameChannels needs OneWorker).                                  *)
(***************************************************************************)
EXTENDS AdjustmentCoordinator, MonitorManagerProofs

IInv == TypeOK /\ TargetsNameChannels /\ OneWorker

-----------------------------------------------------------------------------
(* Operators.                                                              *)

LEMMA ClampType == ASSUME NEW v \in Int PROVE Clamp(v) \in Percent
BY DEF Clamp, Percent

LEMMA DeviceRangeType ==
    ASSUME NEW max \in Nat PROVE DeviceRange(max) \in Nat \ {0}
BY DEF DeviceRange

LEMMA ToRawType ==
    ASSUME NEW p \in Int, NEW max \in Nat PROVE ToRaw(p, max) \in Nat
<1> DEFINE range == DeviceRange(max)
<1>1. range \in Nat BY DeviceRangeType
<1>2. CASE p <= 0 \/ p >= 100 BY <1>1, <1>2 DEF ToRaw
<1>3. CASE p \in 1 .. 99
  <2>1. p * range + 50 \in Nat BY <1>1, <1>3
  <2>2. (p * range + 50) % UintMod \in Nat BY <2>1, UintModAssumption
  <2>3. QED BY <1>3, <2>2 DEF ToRaw
<1>4. QED BY <1>2, <1>3

LEMMA ToPercentType ==
    ASSUME NEW raw \in Nat, NEW max \in Nat PROVE ToPercent(raw, max) \in Int
<1> DEFINE range == DeviceRange(max)
<1>1. range \in Nat \ {0} BY DeviceRangeType
<1>2. raw * 100 + range \div 2 \in Nat BY <1>1
<1>3. (raw * 100 + range \div 2) % UintMod \in Nat BY <1>2, UintModAssumption
<1>4. QED BY <1>1, <1>3 DEF ToPercent

LEMMA CodesAreNat == Codes \subseteq Nat
BY DEF Codes, Brightness, Contrast, RedGain, GreenGain, BlueGain, Volume,
       SaturationAxes

LEMMA FirstType ==
    ASSUME NEW codes, codes \subseteq Codes, codes # {}
    PROVE  First(codes) \in codes
<1>1. codes \subseteq Nat BY CodesAreNat
<1>2. PICK c \in codes : \A d \in codes : ~ <<d, c>> \in OpToRel(<, Nat)
  BY <1>1, NatLessThanWellFounded, WFMin, Zenon
<1>3. \A d \in codes : d \in Nat /\ c \in Nat /\ ~ (d < c)
  BY <1>1, <1>2, Zenon DEF OpToRel
<1>4. \A d \in codes : c <= d
  BY <1>3
<1>5. QED BY <1>4, Zenon DEF First

\* The channels of one physical monitor.
ChannelsAt(h, index) ==
    { ch \in ChannelType : ch.monitor = h /\ ch.monitorIndex = index }

LEMMA ChannelOfType ==
    ASSUME ManagerTypeOK, NEW h \in Handles, NEW index \in Nat,
           NEW param \in Params, NEW replied \in ReplySets(h)
    PROVE  ChannelOf(h, index, param, replied) \in Seq(ChannelsAt(h, index))
<1> DEFINE codes == CodesOf(param) \cap replied
           reading == Reading(h, First(codes))
           max == DeviceRange(reading.maximum)
<1>1. CASE codes = {}
  <2>1. ChannelOf(h, index, param, replied) = <<>> BY <1>1 DEF ChannelOf
  <2>2. QED BY <2>1, EmptySeq
<1>2. CASE codes # {}
  <2>1. replied \subseteq {c \in Codes : Answering(h, c)}
    BY DEF ReplySets
  <2>2. First(codes) \in codes BY <1>2, <2>1, FirstType
  <2>3. First(codes) \in Codes /\ routes[h] \in Panels
          /\ First(codes) \in Answers[routes[h]]
    BY <2>1, <2>2 DEF Answering, Routed
  <2>4. reading.current \in Nat /\ reading.maximum \in Nat
    BY <2>3, BusAssumption DEF ManagerTypeOK, Reading, Register, Registers
  <2>5. max \in Nat \ {0} BY <2>4, DeviceRangeType
  <2>6. Clamp(ToPercent(reading.current, max)) \in Percent
    BY <2>4, <2>5, ToPercentType, ClampType
  <2>7. codes \in (SUBSET Codes) \ {{}} BY <1>2, <2>1
  <2> DEFINE ch == [monitor |-> h, codes |-> codes, maxValue |-> max,
                    current |-> Clamp(ToPercent(reading.current, max)),
                    param |-> param, monitorIndex |-> index,
                    exact |-> CaughtUp(h, First(codes))]
  <2>8. ch \in ChannelsAt(h, index)
    <3>1. CaughtUp(h, First(codes)) \in BOOLEAN BY DEF CaughtUp
    <3> HIDE DEF codes, reading, max
    <3>2. QED BY <2>5, <2>6, <2>7, <3>1 DEF ChannelsAt, ChannelType
  <2>9. ChannelOf(h, index, param, replied) = <<ch>>
    BY <1>2 DEF ChannelOf
  <2>10. QED
    <3> HIDE DEF ch
    <3> QED BY <2>8, <2>9
<1>3. QED BY <1>1, <1>2

LEMMA PanelChannelsType ==
    ASSUME ManagerTypeOK, NEW h \in Handles, NEW index \in Nat,
           NEW replied \in ReplySets(h)
    PROVE  PanelChannels(h, index, replied) \in Seq(ChannelsAt(h, index))
<1> DEFINE Of(param) == ChannelOf(h, index, param, replied)
           S == ChannelsAt(h, index)
<1>1. \A param \in Params : Of(param) \in Seq(S)
  BY ChannelOfType
<1>2. /\ Of("Brightness") \in Seq(S) /\ Of("Contrast") \in Seq(S)
      /\ Of("RedGain") \in Seq(S) /\ Of("GreenGain") \in Seq(S)
      /\ Of("BlueGain") \in Seq(S) /\ Of("Volume") \in Seq(S)
      /\ Of("Saturation") \in Seq(S)
  BY <1>1 DEF Params
<1>3. Of("Brightness") \o Of("Contrast") \o Of("RedGain") \o Of("GreenGain")
         \o Of("BlueGain") \o Of("Volume") \o Of("Saturation") \in Seq(S)
  <2> HIDE DEF Of, S
  <2> QED BY <1>2, ConcatProperties
<1>4. QED BY <1>3 DEF PanelChannels

LEMMA InitInv == Init => IInv
<1> SUFFICES ASSUME Init PROVE IInv OBVIOUS
<1>1. ManagerTypeOK BY ManagerInitInv DEF Init, ManagerInv
<1>2. TypeOK
  <2>1. m_channels \in Seq(ChannelType) /\ fresh \in Seq(ChannelType)
    BY EmptySeq DEF Init
  <2>2. m_pending \in [DOMAIN m_pending -> Percent]
          /\ batch \in [DOMAIN batch -> Percent]
    BY DEF Init, NoTarget
  <2>3. m_enabled \in [Params -> BOOLEAN] /\ m_scrollStep \in Nat \ {0}
    BY ClientAssumption DEF Init
  <2>4. m_started # m_stopping BY DEF Init
  <2>5. m_mutex = IF worker = "onReady" THEN "worker" ELSE "free"
    BY DEF Init
  <2>6. /\ m_started \in BOOLEAN /\ m_stopping \in BOOLEAN
        /\ m_ready \in BOOLEAN /\ quiet \in BOOLEAN
        /\ m_reenumerateRequested \in BOOLEAN
    BY Zenon DEF Init
  <2>7. /\ at \in (Nat \ {0}) \X (Nat \ {0})
        /\ left \subseteq Codes /\ m_scope \in Int
    BY DEF Init
  <2>8. QED BY <1>1, <2>1, <2>2, <2>3, <2>4, <2>5, <2>6, <2>7 DEF Init, TypeOK
<1>3. TargetsNameChannels
  BY DEF Init, TargetsNameChannels, NoTarget
<1>4. OneWorker BY DEF Init, OneWorker
<1>5. QED BY <1>2, <1>3, <1>4 DEF IInv

-----------------------------------------------------------------------------
(* IInv is inductive.                                                      *)

\* A decision of the worker's loop, taken between batches.
LEMMA DecisionEffect ==
    ASSUME IInv, entry = 0, left = {}, DOMAIN batch = {},
           LoopTop \/ IdleWait \/ Dispatch
    PROVE  /\ m_reenumerateRequested' \in BOOLEAN
           /\ worker' \in {"none", "refresh", "write", "idleWait", "quietWait"}
           /\ m_pending' \in [DOMAIN m_pending' -> Percent]
           /\ DOMAIN m_pending' \subseteq DOMAIN m_pending
           /\ batch' \in [DOMAIN batch' -> Percent]
           /\ DOMAIN batch' \subseteq DOMAIN m_pending
           /\ worker' # "write" => DOMAIN batch' = {}
           /\ entry' = 0 /\ left' = {}
<1>1. /\ m_pending \in [DOMAIN m_pending -> Percent]
      /\ batch \in [DOMAIN batch -> Percent]
      /\ m_reenumerateRequested \in BOOLEAN
  BY DEF IInv, TypeOK
<1>2. CASE ExitLoop BY <1>1, <1>2 DEF ExitLoop, flushVars
<1>3. CASE TakeReenumerate BY <1>1, <1>3 DEF TakeReenumerate, flushVars
<1>4. CASE TakeBatch BY <1>1, <1>4 DEF TakeBatch, NoTarget
<1>5. CASE /\ worker' \in {"idleWait", "quietWait"}
           /\ UNCHANGED <<m_reenumerateRequested, m_pending, flushVars>>
  BY <1>1, <1>5 DEF flushVars
<1>6. QED
  BY <1>2, <1>3, <1>4, <1>5, Zenon
  DEF LoopTop, IdleWait, QuietWait, Dispatch

LEMMA LoopInv ==
    ASSUME IInv, entry = 0, left = {}, DOMAIN batch = {},
           LoopTop \/ IdleWait \/ Dispatch,
           worker # "none", UNCHANGED loopFrame, m_mutex' = "free"
    PROVE  IInv'
<1> USE DecisionEffect
<1>1. ManagerTypeOK' BY ManagerFrame DEF IInv, TypeOK, loopFrame
<1>2. TypeOK' BY <1>1 DEF IInv, TypeOK, loopFrame, settingVars
<1>3. TargetsNameChannels'
  BY DEF IInv, TargetsNameChannels, loopFrame, settingVars
<1>4. worker' = "none" => m_stopping
  BY DEF LoopTop, IdleWait, QuietWait, Dispatch, ExitLoop, TakeReenumerate,
         TakeBatch
<1>5. OneWorker'
  BY <1>4 DEF IInv, TypeOK, OneWorker, loopFrame, settingVars
<1>6. QED BY <1>2, <1>3, <1>5 DEF IInv

\* Queue, for any targets on the percent scale.
LEMMA QueueInv ==
    ASSUME IInv, m_started, m_mutex = "free",
           NEW target, DOMAIN target \subseteq DOMAIN m_channels,
           \A i \in DOMAIN target : target[i] \in Percent,
           Queue(target)
    PROVE  IInv'
<1> USE DEF stateVars, settingVars, flushVars
<1> DEFINE moved == {i \in DOMAIN target : target[i] # m_channels[i].current}
<1>1. moved \subseteq DOMAIN m_channels OBVIOUS
<1>2. /\ m_channels \in Seq(ChannelType)
      /\ DOMAIN m_channels = 1 .. Len(m_channels)
  BY DEF IInv, TypeOK
<1>3. \A i \in DOMAIN m_channels : m_channels[i] \in ChannelType
  BY <1>2, ElementOfSeq
<1>4. \A i \in moved :
         [m_channels[i] EXCEPT !.current = target[i], !.exact = TRUE]
           \in ChannelType
  BY <1>1, <1>3 DEF ChannelType
<1>5. m_channels' = [i \in 1 .. Len(m_channels) |->
                       IF i \in moved
                       THEN [m_channels[i] EXCEPT !.current = target[i],
                                                  !.exact = TRUE]
                       ELSE m_channels[i]]
  BY <1>2 DEF Queue
<1>6. /\ m_channels' \in Seq(ChannelType)
      /\ DOMAIN m_channels' = DOMAIN m_channels
  <2> HIDE DEF moved
  <2>1. Len(m_channels) \in Nat BY <1>2
  <2>2. m_channels' \in [1 .. Len(m_channels) -> ChannelType]
    BY <1>2, <1>3, <1>4, <1>5
  <2>3. QED BY <1>2, <2>1, <2>2
<1>7. /\ m_pending' \in [DOMAIN m_pending' -> Percent]
      /\ DOMAIN m_pending' = DOMAIN m_pending \cup moved
  <2>1. m_pending \in [DOMAIN m_pending -> Percent] BY DEF IInv, TypeOK
  <2>2. m_pending' = Requeued(target, moved) BY DEF Queue
  <2>3. QED BY <2>1, <2>2 DEF Requeued
<1>8. quiet' \in BOOLEAN BY DEF Queue
<1>9. /\ worker' \in {"none", "entry", "idleWait", "idleWake", "quietWait",
                      "quietWake", "quietTimeout", "refresh", "build",
                      "onReady", "write", "retry"}
      /\ worker' \in {"write", "retry", "onReady", "none"} => worker' = worker
      /\ worker \in {"write", "retry", "onReady"} => worker' = worker
      /\ worker # "none" => worker' # "none"
  BY DEF Queue, Notified, IInv, TypeOK
<1>10. ManagerTypeOK' BY ManagerFrame DEF Queue, IInv, TypeOK
<1>11. /\ UNCHANGED <<m_started, m_stopping, m_ready, m_reenumerateRequested>>
       /\ UNCHANGED <<m_scope, m_enabled, m_scrollStep, m_mutex, caller>>
       /\ UNCHANGED <<fresh, at, batch, entry, left>>
  BY DEF Queue
<1> HIDE DEF moved
<1>12. TypeOK' BY <1>6, <1>7, <1>8, <1>9, <1>10, <1>11 DEF IInv, TypeOK
<1>13. TargetsNameChannels'
  BY <1>1, <1>6, <1>7, <1>9, <1>11 DEF IInv, TargetsNameChannels
<1>14. OneWorker' BY <1>9, <1>11 DEF IInv, OneWorker
<1>15. QED BY <1>12, <1>13, <1>14 DEF IInv

LEMMA StoreType ==
    ASSUME ManagerTypeOK, NEW h \in Handles, NEW c, Answering(h, c),
           NEW raw \in Nat, Store(h, c, raw),
           UNCHANGED <<managerVars, routes>>
    PROVE  ManagerTypeOK'
<1> DEFINE q == routes[h]
<1>1. q \in Panels /\ c \in Answers[q] BY DEF Answering, Routed
<1> DEFINE new == Stored(panelValue[q][c], raw)
<1>2. panelValue' =
        [panelValue EXCEPT ![q] = [panelValue[q] EXCEPT ![c] = new]]
  BY DEF Store
<1>3. panelValue = [p \in Panels |-> panelValue[p]]
        /\ \A p \in Panels : panelValue[p] \in [Answers[p] -> Registers]
  BY DEF ManagerTypeOK
<1>4. new \in Registers BY <1>1, <1>3 DEF Stored, Registers
<1> HIDE DEF q, new
<1>5. [panelValue[q] EXCEPT ![c] = new] \in [Answers[q] -> Registers]
  BY <1>1, <1>3, <1>4
<1>6. \A p \in Panels : panelValue'[p] \in [Answers[p] -> Registers]
  BY <1>1, <1>2, <1>3, <1>5
<1>7. panelValue' = [p \in Panels |-> panelValue'[p]] BY <1>2, <1>3
<1>8. QED BY <1>6, <1>7 DEF ManagerTypeOK, managerVars

LEMMA CatchUpType ==
    ASSUME ManagerTypeOK, PanelCatchesUp, UNCHANGED <<managerVars, routes>>
    PROVE  ManagerTypeOK'
<1>0. PICK p \in Panels : \E c \in Answers[p] :
         panelValue' = [panelValue EXCEPT
                         ![p][c].replies = panelValue[p][c].holds]
  BY DEF PanelCatchesUp
<1>1. PICK c \in Answers[p] :
         panelValue' = [panelValue EXCEPT
                         ![p][c].replies = panelValue[p][c].holds]
  BY <1>0
<1> DEFINE new == [panelValue[p][c] EXCEPT !.replies = panelValue[p][c].holds]
<1>2. panelValue' =
        [panelValue EXCEPT ![p] = [panelValue[p] EXCEPT ![c] = new]]
  BY <1>1
<1>3. panelValue = [q \in Panels |-> panelValue[q]]
        /\ \A q \in Panels : panelValue[q] \in [Answers[q] -> Registers]
  BY DEF ManagerTypeOK
<1>4. new \in Registers BY <1>1, <1>3 DEF Registers
<1> HIDE DEF new
<1>5. [panelValue[p] EXCEPT ![c] = new] \in [Answers[p] -> Registers]
  BY <1>1, <1>3, <1>4
<1>6. \A q \in Panels : panelValue'[q] \in [Answers[q] -> Registers]
  BY <1>1, <1>2, <1>3, <1>5
<1>7. panelValue' = [q \in Panels |-> panelValue'[q]] BY <1>2, <1>3
<1>8. QED BY <1>6, <1>7 DEF ManagerTypeOK, managerVars

\* What an input queues: targets on the percent scale, for channels.
LEMMA SelectedTargets ==
    ASSUME IInv, Input
    PROVE  /\ m_started /\ m_mutex = "free"
           /\ \E target : /\ DOMAIN target \subseteq DOMAIN m_channels
                          /\ \A i \in DOMAIN target : target[i] \in Percent
                          /\ Queue(target)
<1>1. CASE \E steps \in Steps : AdjustAll(steps)
  <2>1. PICK steps \in Steps : AdjustAll(steps) BY <1>1
  <2> DEFINE selected == {j \in DOMAIN m_channels :
                 /\ m_enabled[m_channels[j].param]
                 /\ InExplicitScope(m_channels[j].monitorIndex, m_scope)}
             target == [i \in selected |->
                          Clamp(m_channels[i].current + steps * m_scrollStep)]
  <2>2. ASSUME NEW i \in selected PROVE target[i] \in Percent
    <3>1. m_channels[i] \in ChannelType BY ElementOfSeq DEF IInv, TypeOK
    <3>2. m_channels[i].current \in Int BY <3>1 DEF ChannelType, Percent
    <3>3. steps \in Int /\ m_scrollStep \in Int
      BY ClientAssumption DEF IInv, TypeOK
    <3>4. m_channels[i].current + steps * m_scrollStep \in Int
      BY <3>2, <3>3
    <3>5. QED BY <3>4, ClampType
  <2>3. DOMAIN target \subseteq DOMAIN m_channels
          /\ \A i \in DOMAIN target : target[i] \in Percent
    BY <2>2
  <2>4. m_started /\ m_mutex = "free" /\ Queue(target)
    BY <2>1 DEF AdjustAll, Accepting, CanCall
  <2> HIDE DEF target
  <2>5. QED BY <2>3, <2>4, Zenon
<1>2. CASE \E param \in Params, value \in SliderPositions :
              AdjustTo(param, value)
  <2>1. PICK param \in Params, value \in SliderPositions :
           AdjustTo(param, value)
    BY <1>2
  <2> DEFINE target ==
               [i \in {j \in DOMAIN m_channels :
                   /\ m_channels[j].param = param
                   /\ InExplicitScope(m_channels[j].monitorIndex, m_scope)}
                |-> Clamp(value)]
  <2>2. Clamp(value) \in Percent BY ClientAssumption, ClampType
  <2>3. DOMAIN target \subseteq DOMAIN m_channels
          /\ \A i \in DOMAIN target : target[i] \in Percent
    BY <2>2
  <2>4. m_started /\ m_mutex = "free" /\ Queue(target)
    BY <2>1 DEF AdjustTo, Accepting, CanCall
  <2> HIDE DEF target
  <2>5. QED BY <2>3, <2>4, Zenon
<1>3. QED BY <1>1, <1>2, Zenon DEF Input

\* One transaction of the flush, whatever comes of it.
LEMMA TransactionType ==
    ASSUME IInv, worker \in {"write", "retry"}, entry # 0,
           NEW c,
           \/ WriteSucceeds(m_channels[entry].monitor, c, RawTarget)
           \/ WriteFails(m_channels[entry].monitor, c, RawTarget),
           UNCHANGED writeFrame
    PROVE  ManagerTypeOK'
<1> DEFINE h == m_channels[entry].monitor
<1>1. entry \in DOMAIN batch /\ entry \in DOMAIN m_channels
  BY DEF IInv, TargetsNameChannels
<1>2. m_channels[entry] \in ChannelType
  BY <1>1, ElementOfSeq DEF IInv, TypeOK
<1>3. h \in Handles /\ m_channels[entry].maxValue \in Nat
  BY <1>2 DEF ChannelType
<1>4. batch[entry] \in Percent BY <1>1 DEF IInv, TypeOK
<1>5. RawTarget \in Nat
  <2>1. Clamp(batch[entry]) \in Percent BY <1>4, ClampType DEF Percent
  <2>2. Clamp(batch[entry]) \in Int BY <2>1 DEF Percent
  <2>3. QED BY <1>3, <2>2, ToRawType DEF RawTarget
<1>6. ManagerTypeOK /\ UNCHANGED <<managerVars, routes>>
  BY DEF writeFrame, IInv, TypeOK
<1>7. CASE UNCHANGED panelValue BY <1>6, <1>7, ManagerFrame
<1>8. CASE Answering(h, c) /\ Store(h, c, RawTarget)
  <2> HIDE DEF h
  <2> QED BY <1>3, <1>5, <1>6, <1>8, StoreType
<1>9. QED BY <1>7, <1>8, Zenon DEF WriteSucceeds, WriteFails

LEMMA CodeDoneInv ==
    ASSUME IInv, worker \in {"write", "retry"}, entry # 0, ManagerTypeOK',
           CodeDone, UNCHANGED writeFrame
    PROVE  IInv'
<1> USE DEF writeFrame, stateVars, settingVars, flushVars
<1>1. left # {} /\ left \subseteq Codes /\ entry \in DOMAIN batch
        /\ batch \in [DOMAIN batch -> Percent]
        /\ DOMAIN batch \subseteq DOMAIN m_channels
  BY DEF IInv, TypeOK, TargetsNameChannels
<1>2. left' = left \ {First(left)} /\ worker' = "write" BY DEF CodeDone
<1>3. CASE left' = {}
  <2>1. entry' = 0 /\ batch' = [i \in DOMAIN batch \ {entry} |-> batch[i]]
    BY <1>3 DEF CodeDone
  <2>2. batch' \in [DOMAIN batch' -> Percent]
          /\ DOMAIN batch' \subseteq DOMAIN batch
    BY <1>1, <2>1
  <2>3. TypeOK' BY <1>1, <1>2, <2>2 DEF IInv, TypeOK
  <2>4. TargetsNameChannels'
    BY <1>1, <1>2, <1>3, <2>1, <2>2 DEF IInv, TargetsNameChannels
  <2>5. OneWorker' BY <1>2 DEF IInv, OneWorker
  <2>6. QED BY <2>3, <2>4, <2>5 DEF IInv
<1>4. CASE left' # {}
  <2>1. UNCHANGED <<entry, batch>> BY <1>4 DEF CodeDone
  <2>2. TypeOK' BY <1>1, <1>2, <2>1 DEF IInv, TypeOK
  <2>3. TargetsNameChannels'
    BY <1>1, <1>2, <1>4, <2>1 DEF IInv, TargetsNameChannels
  <2>4. OneWorker' BY <1>2 DEF IInv, OneWorker
  <2>5. QED BY <2>2, <2>3, <2>4 DEF IInv
<1>5. QED BY <1>3, <1>4

LEMMA StepInv == IInv /\ [Next]_vars => IInv'
<1> SUFFICES ASSUME IInv, [Next]_vars PROVE IInv' OBVIOUS
<1> USE DEF stateVars, settingVars, flushVars, IInv
<1>1. CASE UNCHANGED vars
  <2>1. ManagerTypeOK' BY <1>1, ManagerFrame DEF TypeOK, vars, managerVars
  <2>2. TypeOK' BY <1>1, <2>1 DEF TypeOK, vars
  <2>3. QED BY <1>1, <2>2 DEF TargetsNameChannels, OneWorker, vars
<1>2. CASE Start
  <2>1. ManagerTypeOK'
    BY <1>2, ManagerFrame DEF Start, TypeOK
  <2>2. TypeOK' BY <1>2, <2>1 DEF Start, TypeOK, CanCall
  <2>3. TargetsNameChannels'
    BY <1>2 DEF Start, TargetsNameChannels, CanCall, OneWorker
  <2>4. OneWorker' BY <1>2 DEF Start, TypeOK, OneWorker, CanCall
  <2>5. QED BY <2>2, <2>3, <2>4
<1>3. CASE Stop
  <2>1. ManagerTypeOK'
    BY <1>3, ManagerFrame DEF Stop, TypeOK
  <2>2. TypeOK' BY <1>3, <2>1 DEF Stop, TypeOK, CanCall, NoTarget
  <2>3. TargetsNameChannels'
    BY <1>3 DEF Stop, TargetsNameChannels, NoTarget
  <2>4. OneWorker' BY <1>3 DEF Stop, TypeOK, OneWorker, CanCall
  <2>5. QED BY <2>2, <2>3, <2>4
<1>4. CASE RequestReenumerate
  <2>1. ManagerTypeOK'
    BY <1>4, ManagerFrame DEF RequestReenumerate, TypeOK
  <2>2. TypeOK' BY <1>4, <2>1 DEF RequestReenumerate, TypeOK, CanCall
  <2>3. TargetsNameChannels'
    BY <1>4 DEF RequestReenumerate, TargetsNameChannels
  <2>4. OneWorker' BY <1>4 DEF RequestReenumerate, TypeOK, OneWorker, CanCall
  <2>5. QED BY <2>2, <2>3, <2>4
<1>5. CASE NotifyAll
  <2>1. ManagerTypeOK'
    BY <1>5, ManagerFrame DEF NotifyAll, TypeOK
  <2>2. TypeOK' BY <1>5, <2>1 DEF NotifyAll, TypeOK, Notified
  <2>3. TargetsNameChannels'
    BY <1>5 DEF NotifyAll, TargetsNameChannels, Notified
  <2>4. OneWorker' BY <1>5 DEF NotifyAll, TypeOK, OneWorker, Notified
  <2>5. QED BY <2>2, <2>3, <2>4
<1>6. CASE Join
  <2>1. ManagerTypeOK'
    BY <1>6, ManagerFrame DEF Join, TypeOK
  <2>2. TypeOK' BY <1>6, <2>1 DEF Join, TypeOK
  <2>3. TargetsNameChannels'
    BY <1>6 DEF Join, TargetsNameChannels
  <2>4. OneWorker' BY <1>6 DEF Join, TypeOK, OneWorker
  <2>5. QED BY <2>2, <2>3, <2>4
<1>7. CASE QuietElapses
  <2>1. ManagerTypeOK'
    BY <1>7, ManagerFrame DEF QuietElapses, TypeOK
  <2>2. TypeOK' BY <1>7, <2>1 DEF QuietElapses, TypeOK
  <2>3. TargetsNameChannels'
    BY <1>7 DEF QuietElapses, TargetsNameChannels
  <2>4. OneWorker' BY <1>7 DEF QuietElapses, TypeOK, OneWorker
  <2>5. QED BY <2>2, <2>3, <2>4
<1>8. CASE SpuriousWake
  <2>1. ManagerTypeOK'
    BY <1>8, ManagerFrame DEF SpuriousWake, TypeOK, loopFrame
  <2>2. TypeOK' BY <1>8, <2>1 DEF SpuriousWake, TypeOK, Notified, loopFrame
  <2>3. TargetsNameChannels'
    BY <1>8 DEF SpuriousWake, TargetsNameChannels, Notified, loopFrame
  <2>4. OneWorker' BY <1>8 DEF SpuriousWake, TypeOK, OneWorker, Notified, loopFrame
  <2>5. QED BY <2>2, <2>3, <2>4
<1>9. CASE TimerExpires
  <2>1. ManagerTypeOK'
    BY <1>9, ManagerFrame DEF TimerExpires, TypeOK, loopFrame
  <2>2. TypeOK' BY <1>9, <2>1 DEF TimerExpires, TypeOK, loopFrame
  <2>3. TargetsNameChannels'
    BY <1>9 DEF TimerExpires, TargetsNameChannels, loopFrame
  <2>4. OneWorker' BY <1>9 DEF TimerExpires, TypeOK, OneWorker, loopFrame
  <2>5. QED BY <2>2, <2>3, <2>4
<1>10. CASE EnterLoop
  <2>1. entry = 0 /\ left = {} /\ DOMAIN batch = {} /\ m_mutex = "free"
          /\ worker # "none"
    BY <1>10 DEF EnterLoop, TargetsNameChannels
  <2>2. QED BY <1>10, <2>1, LoopInv DEF EnterLoop
<1>11. CASE QuietEnds
  <2>1. entry = 0 /\ left = {} /\ DOMAIN batch = {} /\ m_mutex = "free"
          /\ worker # "none"
    BY <1>11 DEF QuietEnds, TargetsNameChannels
  <2>2. QED BY <1>11, <2>1, LoopInv DEF QuietEnds
<1>12. CASE IdleWakes
  <2>1. entry = 0 /\ left = {} /\ DOMAIN batch = {} /\ m_mutex = "free"
          /\ worker # "none"
    BY <1>12 DEF IdleWakes, TargetsNameChannels
  <2>2. LoopTop \/ IdleWait \/ Dispatch BY <1>12, Zenon DEF IdleWakes
  <2>3. QED BY <1>12, <2>1, <2>2, LoopInv DEF IdleWakes
<1>13. CASE FlushDone
  <2>1. entry = 0 /\ left = {} /\ DOMAIN batch = {} /\ m_mutex = "free"
          /\ worker # "none"
    BY <1>13 DEF FlushDone, TargetsNameChannels
  <2>2. QED BY <1>13, <2>1, LoopInv DEF FlushDone
<1>14. CASE OnReady
  <2>1. entry = 0 /\ left = {} /\ DOMAIN batch = {} /\ worker # "none"
    BY <1>14 DEF OnReady, TargetsNameChannels
  <2>2. QED BY <1>14, <2>1, LoopInv DEF OnReady
<1>15. CASE Input
  <2>1. m_started /\ m_mutex = "free" BY <1>15, SelectedTargets
  <2>2. PICK target : /\ DOMAIN target \subseteq DOMAIN m_channels
                      /\ \A i \in DOMAIN target : target[i] \in Percent
                      /\ Queue(target)
    BY <1>15, SelectedTargets, Zenon
  <2>3. QED BY <2>1, <2>2, QueueInv
<1>16. CASE Setting
  <2>1. /\ UNCHANGED <<managerVars, routes, panelValue, stateVars>>
        /\ UNCHANGED <<m_channels, m_pending, quiet, m_mutex, worker>>
        /\ UNCHANGED <<caller, fresh, at, flushVars>>
    BY <1>16 DEF Setting, SetScope, SetParamEnabled, SetScrollStep
  <2>2. m_scope' \in Int
    BY <1>16, ClientAssumption
    DEF Setting, SetScope, SetParamEnabled, SetScrollStep, TypeOK
  <2>3. m_enabled' \in [Params -> BOOLEAN]
    <3>1. m_enabled \in [Params -> BOOLEAN] BY DEF TypeOK
    <3>2. CASE \E param \in ToggledParams, enabled \in BOOLEAN :
                 m_enabled' = [m_enabled EXCEPT ![param] = enabled]
      BY <3>1, <3>2, ClientAssumption
    <3>3. CASE m_enabled' = m_enabled BY <3>1, <3>3
    <3>4. QED
      BY <1>16, <3>2, <3>3, Zenon
      DEF Setting, SetScope, SetParamEnabled, SetScrollStep
  <2>4. m_scrollStep' \in Nat \ {0}
    BY <1>16, ClientAssumption
    DEF Setting, SetScope, SetParamEnabled, SetScrollStep, TypeOK
  <2>5. ManagerTypeOK' BY <2>1, ManagerFrame DEF TypeOK
  <2>6. TypeOK' BY <2>1, <2>2, <2>3, <2>4, <2>5 DEF TypeOK
  <2>7. QED BY <2>1, <2>6 DEF TargetsNameChannels, OneWorker
<1>17. CASE RefreshQueries
  <2>1. ManagerTypeOK' BY <1>17, QueryType DEF RefreshQueries, TypeOK
  <2>2. TypeOK' BY <1>17, <2>1 DEF RefreshQueries, TypeOK, enumerateFrame
  <2>3. TargetsNameChannels' /\ OneWorker'
    BY <1>17
    DEF RefreshQueries, TargetsNameChannels, OneWorker, enumerateFrame
  <2>4. QED BY <2>2, <2>3
<1>18. CASE RefreshEnumerates
  <2>1. ManagerTypeOK' BY <1>18, EnumerateType DEF RefreshEnumerates, TypeOK
  <2>2. fresh' \in Seq(ChannelType)
    BY <1>18, EmptySeq DEF RefreshEnumerates
  <2>3. TypeOK'
    BY <1>18, <2>1, <2>2 DEF RefreshEnumerates, TypeOK, enumerateFrame
  <2>4. TargetsNameChannels' /\ OneWorker'
    BY <1>18
    DEF RefreshEnumerates, TargetsNameChannels, OneWorker, enumerateFrame
  <2>5. QED BY <2>3, <2>4
<1>19. CASE BuildPanel
  <2>1. ManagerTypeOK' BY <1>19, ManagerFrame DEF BuildPanel, TypeOK
  <2>2. at[1] \in Nat \ {0} /\ at[2] \in Nat \ {0} BY DEF TypeOK
  <2>3. fresh' \in Seq(ChannelType)
        /\ at' \in (Nat \ {0}) \X (Nat \ {0})
    <3>1. CASE at[2] <= Len(m_monitors[at[1]])
      <4> DEFINE h == m_monitors[at[1]][at[2]]
      <4>1. PICK replied \in ReplySets(h) :
               fresh' = fresh \o PanelChannels(h, MonitorIndex, replied)
        BY <1>19, <3>1 DEF BuildPanel
      <4>2. m_monitors \in Seq(Seq(Handles)) BY DEF TypeOK, ManagerTypeOK
      <4>3. at[1] \in 1 .. Len(m_monitors) BY <1>19, <2>2 DEF BuildPanel
      <4>4. m_monitors[at[1]] \in Seq(Handles) BY <4>2, <4>3, ElementOfSeq
      <4>5. h \in Handles BY <2>2, <3>1, <4>4, ElementOfSeq
      <4>6. MonitorIndex \in Nat BY <2>2 DEF MonitorIndex
      <4> HIDE DEF h
      <4>7. PanelChannels(h, MonitorIndex, replied)
               \in Seq(ChannelsAt(h, MonitorIndex))
        BY <4>5, <4>6, PanelChannelsType DEF TypeOK
      <4>8. PanelChannels(h, MonitorIndex, replied) \in Seq(ChannelType)
        BY <4>7, SeqMonotonic DEF ChannelsAt
      <4>9. fresh' \in Seq(ChannelType)
        BY <4>1, <4>8, ConcatProperties DEF TypeOK
      <4>10. at' = <<at[1], at[2] + 1>> BY <1>19, <3>1 DEF BuildPanel
      <4>11. QED BY <2>2, <4>9, <4>10
    <3>2. CASE ~ (at[2] <= Len(m_monitors[at[1]]))
      BY <1>19, <2>2, <3>2 DEF BuildPanel, TypeOK
    <3>3. QED BY <3>1, <3>2
  <2>4. TypeOK' BY <1>19, <2>1, <2>3 DEF BuildPanel, TypeOK, enumerateFrame
  <2>5. TargetsNameChannels' /\ OneWorker'
    BY <1>19 DEF BuildPanel, TargetsNameChannels, OneWorker, enumerateFrame
  <2>6. QED BY <2>4, <2>5
<1>20. CASE Swap
  <2>1. ManagerTypeOK' BY <1>20, ManagerFrame DEF Swap, TypeOK
  <2>2. m_pending' \in [DOMAIN m_pending' -> Percent] /\ DOMAIN m_pending' = {}
    BY <1>20 DEF Swap, NoTarget
  <2>3. fresh' \in Seq(ChannelType) /\ m_channels' \in Seq(ChannelType)
    BY <1>20, EmptySeq DEF Swap, TypeOK
  <2>4. quiet' \in BOOLEAN BY <1>20 DEF Swap, TypeOK
  <2>5. TypeOK' BY <1>20, <2>1, <2>2, <2>3, <2>4 DEF Swap, TypeOK
  <2>6. TargetsNameChannels' BY <1>20, <2>2 DEF Swap, TargetsNameChannels
  <2>7. OneWorker' BY <1>20 DEF Swap, OneWorker
  <2>8. QED BY <2>5, <2>6, <2>7
<1>21. CASE BeginEntry
  <2> USE DEF writeFrame
  <2>1. PICK i \in DOMAIN batch : entry' = i /\ left' = m_channels[i].codes
    BY <1>21 DEF BeginEntry
  <2>2. m_channels[i] \in ChannelType
    BY <2>1, ElementOfSeq DEF TypeOK, TargetsNameChannels
  <2>3. left' \subseteq Codes /\ left' # {}
    BY <2>1, <2>2 DEF ChannelType
  <2>4. i # 0
    <3>1. i \in DOMAIN m_channels BY <2>1 DEF TargetsNameChannels
    <3>2. DOMAIN m_channels = 1 .. Len(m_channels) BY DEF TypeOK
    <3>3. QED BY <3>1, <3>2
  <2>5. ManagerTypeOK' BY <1>21, ManagerFrame DEF BeginEntry, TypeOK
  <2>6. TypeOK' BY <1>21, <2>3, <2>5 DEF BeginEntry, TypeOK
  <2>7. TargetsNameChannels'
    BY <1>21, <2>1, <2>3, <2>4 DEF BeginEntry, TargetsNameChannels
  <2>8. OneWorker' BY <1>21 DEF BeginEntry, OneWorker
  <2>9. QED BY <2>6, <2>7, <2>8
<1>22. CASE Write
  <2>1. worker \in {"write", "retry"} /\ entry # 0 /\ UNCHANGED writeFrame
    BY <1>22 DEF Write
  <2>2. \/ WriteSucceeds(m_channels[entry].monitor, First(left), RawTarget)
        \/ WriteFails(m_channels[entry].monitor, First(left), RawTarget)
    BY <1>22, Zenon DEF Write
  <2>3. ManagerTypeOK' BY <2>1, <2>2, TransactionType
  <2>4. CASE CodeDone BY <2>1, <2>3, <2>4, CodeDoneInv
  <2>5. CASE worker' = "retry" /\ UNCHANGED flushVars
    <3> USE DEF writeFrame
    <3>1. worker = "write" BY <1>22 DEF Write
    <3>2. TypeOK' BY <2>1, <2>3, <2>5, <3>1 DEF TypeOK
    <3>3. TargetsNameChannels' BY <2>1, <2>5, <3>1 DEF TargetsNameChannels
    <3>4. OneWorker' BY <2>1, <2>5, <3>1 DEF OneWorker
    <3>5. QED BY <3>2, <3>3, <3>4
  <2>6. CodeDone \/ (worker' = "retry" /\ UNCHANGED flushVars)
    BY <1>22, Zenon DEF Write
  <2>7. QED BY <2>4, <2>5, <2>6
<1>23. CASE Retry
  <2>1. worker \in {"write", "retry"} /\ entry # 0 /\ UNCHANGED writeFrame
    BY <1>23 DEF Retry, TargetsNameChannels
  <2>2. \/ WriteSucceeds(m_channels[entry].monitor, First(left), RawTarget)
        \/ WriteFails(m_channels[entry].monitor, First(left), RawTarget)
    BY <1>23, Zenon DEF Retry
  <2>3. ManagerTypeOK' BY <2>1, <2>2, TransactionType
  <2>4. CodeDone BY <1>23 DEF Retry
  <2>5. QED BY <2>1, <2>3, <2>4, CodeDoneInv
<1>24. CASE Desktop
  <2>1. ManagerTypeOK' BY <1>24, TopologyType DEF Desktop, TypeOK
  <2>2. TypeOK' BY <1>24, <2>1 DEF Desktop, TypeOK, enumerateFrame
  <2>3. TargetsNameChannels' /\ OneWorker'
    BY <1>24 DEF Desktop, TargetsNameChannels, OneWorker, enumerateFrame
  <2>4. QED BY <2>2, <2>3
<1>25. CASE PanelSettles
  <2>1. ManagerTypeOK' BY <1>25, CatchUpType DEF PanelSettles, TypeOK
  <2>2. TypeOK'
    BY <1>25, <2>1 DEF PanelSettles, TypeOK, enumerateFrame
  <2>3. TargetsNameChannels' /\ OneWorker'
    BY <1>25 DEF PanelSettles, TargetsNameChannels, OneWorker, enumerateFrame
  <2>4. QED BY <2>2, <2>3
<1>26. QED
  BY <1>1, <1>2, <1>3, <1>4, <1>5, <1>6, <1>7, <1>8, <1>9, <1>10, <1>11,
     <1>12, <1>13, <1>14, <1>15, <1>16, <1>17, <1>18, <1>19, <1>20,
     <1>21, <1>22, <1>23, <1>24, <1>25, Zenon
  DEF Next, Lifecycle, Caller, Worker, Waking, Enumeration, Flush

LEMMA SafeSpec == Spec => []IInv
<1>1. Init => IInv BY InitInv
<1>2. IInv /\ [Next]_vars => IInv' BY StepInv
<1>3. QED BY <1>1, <1>2, PTL DEF Spec

(* Every variable keeps its type: panel registers and queued targets stay  *)
(* in range, and m_mutex is held across steps only for the callback        *)
(* (AdjustmentCoordinator.h:229-261).                                      *)
THEOREM TypeCorrect == Spec => []TypeOK
<1>1. IInv => TypeOK BY DEF IInv
<1>2. QED BY <1>1, SafeSpec, PTL

(* The flush, which indexes m_channels unlocked by what the batch names,   *)
(* always finds a channel there (AdjustmentCoordinator.cpp:468-469, 494).  *)
THEOREM TargetsAlwaysNameChannels == Spec => []TargetsNameChannels
<1>1. IInv => TargetsNameChannels BY DEF IInv
<1>2. QED BY <1>1, SafeSpec, PTL

(* However Start, Stop and the worker's exit interleave there is one       *)
(* worker exactly while the coordinator is started, and Start never meets  *)
(* an earlier one (AdjustmentCoordinator.cpp:49-75, 109-131, 451-454).     *)
THEOREM OneWorkerAlways == Spec => []OneWorker
<1>1. IInv => OneWorker BY DEF IInv
<1>2. QED BY <1>1, SafeSpec, PTL

-----------------------------------------------------------------------------
(* What is queued or in flight is what the dialog shows.  After Stop the   *)
(* batch still drains while its newer replacements are gone, so the next   *)
(* Start must find both empty: ShownInv adds the half that IInv lacks.     *)

StoppedQueuesNothing == ~m_started => DOMAIN m_pending = {}

ShownInv == LastValueWins /\ StoppedQueuesNothing

LEMMA ShownFrame ==
    ASSUME ShownInv, UNCHANGED <<m_started, m_channels, m_pending, batch>>
    PROVE  ShownInv'
BY DEF ShownInv, LastValueWins, StoppedQueuesNothing

LEMMA ShownQueue ==
    ASSUME IInv, ShownInv, m_started,
           NEW target, DOMAIN target \subseteq DOMAIN m_channels,
           Queue(target)
    PROVE  ShownInv'
<1> DEFINE moved == {i \in DOMAIN target : target[i] # m_channels[i].current}
<1>1. moved \subseteq DOMAIN m_channels OBVIOUS
<1>2. \A i \in DOMAIN m_channels : m_channels[i] \in ChannelType
  BY ElementOfSeq DEF IInv, TypeOK
<1>3. \A i \in DOMAIN m_channels :
        m_channels'[i] = IF i \in moved
                         THEN [m_channels[i] EXCEPT !.current = target[i],
                                                    !.exact = TRUE]
                         ELSE m_channels[i]
  BY DEF Queue
<1>4. \A i \in moved : m_channels'[i].current = target[i]
  BY <1>1, <1>2, <1>3 DEF ChannelType
<1>5. m_pending' = Requeued(target, moved) /\ m_started' = m_started
        /\ batch' = batch
  BY DEF Queue, stateVars, flushVars
<1> HIDE DEF moved
<1>6. /\ DOMAIN m_pending' = DOMAIN m_pending \cup moved
      /\ \A i \in DOMAIN m_pending' :
           m_pending'[i] = IF i \in moved THEN target[i] ELSE m_pending[i]
  BY <1>5 DEF Requeued
<1>7. DOMAIN m_pending \subseteq DOMAIN m_channels
        /\ DOMAIN batch \subseteq DOMAIN m_channels
  BY DEF IInv, TargetsNameChannels
<1>8. LastValueWins'
  BY <1>3, <1>4, <1>5, <1>6, <1>7 DEF ShownInv, LastValueWins
<1>9. QED BY <1>5, <1>8 DEF ShownInv, StoppedQueuesNothing

LEMMA ShownDecision ==
    ASSUME ShownInv, DOMAIN batch = {}, LoopTop \/ IdleWait \/ Dispatch,
           UNCHANGED <<m_started, m_stopping, m_channels>>,
           m_started # m_stopping
    PROVE  ShownInv'
<1>1. CASE UNCHANGED <<m_pending, batch>> BY <1>1, ShownFrame
<1>2. CASE batch' = m_pending /\ m_pending' = NoTarget
  BY <1>2 DEF ShownInv, LastValueWins, StoppedQueuesNothing, NoTarget
<1>3. QED
  BY <1>1, <1>2, Zenon
  DEF LoopTop, IdleWait, QuietWait, Dispatch, ExitLoop, TakeReenumerate,
      TakeBatch, flushVars

LEMMA ShownStep == IInv /\ ShownInv /\ [Next]_vars => ShownInv'
<1> SUFFICES ASSUME IInv, ShownInv, [Next]_vars PROVE ShownInv' OBVIOUS
<1> USE DEF stateVars, settingVars, flushVars
<1>1. m_started # m_stopping BY DEF IInv, TypeOK
<1>2. CASE Input
  <2>1. PICK target : DOMAIN target \subseteq DOMAIN m_channels
                      /\ m_started /\ Queue(target)
    BY <1>2, SelectedTargets, Zenon
  <2>2. QED BY <2>1, ShownQueue
<1>3. CASE Start
  <2>1. DOMAIN batch = {}
    BY <1>3 DEF IInv, TargetsNameChannels, OneWorker, Start, CanCall
  <2>2. QED
    BY <1>3, <2>1 DEF Start, ShownInv, LastValueWins, StoppedQueuesNothing
<1>4. CASE Stop
  BY <1>4 DEF Stop, ShownInv, LastValueWins, StoppedQueuesNothing, NoTarget
<1>5. CASE EnterLoop \/ IdleWakes \/ QuietEnds \/ FlushDone \/ OnReady
  <2>1. worker \notin {"write", "retry"} \/ FlushDone
    BY <1>5 DEF EnterLoop, IdleWakes, QuietEnds, OnReady
  <2>2. DOMAIN batch = {}
    BY <2>1 DEF IInv, TargetsNameChannels, FlushDone
  <2>3. LoopTop \/ IdleWait \/ Dispatch
    BY <1>5, Zenon DEF EnterLoop, IdleWakes, QuietEnds, FlushDone, OnReady
  <2>4. UNCHANGED <<m_started, m_stopping, m_channels>>
    BY <1>5
    DEF EnterLoop, IdleWakes, QuietEnds, FlushDone, OnReady, loopFrame
  <2>5. QED BY <1>1, <2>2, <2>3, <2>4, ShownDecision
<1>6. CASE Swap
  <2>1. DOMAIN batch = {} BY <1>6 DEF IInv, TargetsNameChannels, Swap
  <2>2. QED
    BY <1>6, <2>1
    DEF Swap, ShownInv, LastValueWins, StoppedQueuesNothing, NoTarget
<1>7. CASE Write \/ Retry
  <2>1. UNCHANGED <<m_started, m_channels, m_pending>>
    BY <1>7 DEF Write, Retry, writeFrame
  <2>2. CASE CodeDone
    BY <2>1, <2>2 DEF CodeDone, ShownInv, LastValueWins, StoppedQueuesNothing
  <2>3. CASE UNCHANGED batch BY <2>1, <2>3, ShownFrame
  <2>4. CodeDone \/ UNCHANGED batch BY <1>7, Zenon DEF Write, Retry
  <2>5. QED BY <2>2, <2>3, <2>4
<1>8. CASE \/ RequestReenumerate \/ Caller \/ TimerExpires \/ SpuriousWake
           \/ RefreshQueries \/ RefreshEnumerates \/ BuildPanel
           \/ BeginEntry \/ QuietElapses \/ Desktop \/ PanelSettles \/ Setting
           \/ UNCHANGED vars
  <2>1. UNCHANGED <<m_started, m_channels, m_pending, batch>>
    BY <1>8
    DEF RequestReenumerate, Caller, NotifyAll, Join, TimerExpires,
        SpuriousWake, loopFrame, RefreshQueries, RefreshEnumerates,
        BuildPanel, enumerateFrame, BeginEntry, writeFrame, QuietElapses,
        Desktop, PanelSettles, Setting, SetScope, SetParamEnabled,
        SetScrollStep, vars
  <2>2. QED BY <2>1, ShownFrame
<1>9. QED
  BY <1>2, <1>3, <1>4, <1>5, <1>6, <1>7, <1>8, Zenon
  DEF Next, Lifecycle, Worker, Waking, Enumeration, Flush

(* Last value wins: whatever is queued for a channel, or on its way with   *)
(* nothing newer queued, is the value the dialog shows for it              *)
(* (AdjustmentCoordinator.cpp:165-169, 203-204, 489).                      *)
THEOREM LastValueAlwaysWins == Spec => []LastValueWins
<1>1. Init => ShownInv
  BY DEF Init, ShownInv, LastValueWins, StoppedQueuesNothing, NoTarget
<1>2. IInv /\ ShownInv /\ [Next]_vars => ShownInv' BY ShownStep
<1>3. ShownInv => LastValueWins BY DEF ShownInv
<1>4. QED BY <1>1, <1>2, <1>3, SafeSpec, PTL DEF Spec

-----------------------------------------------------------------------------
(* Handles.  ChannelsMatchMonitors says nothing while the worker rebuilds  *)
(* the set; what it swaps in must be known to match by then.               *)

FreshMatches == \A i \in DOMAIN fresh : Borrows(fresh[i])

HandleInv == HandlesOwnedOnce /\ ChannelsMatchMonitors /\ FreshMatches

LEMMA HandleFrame ==
    ASSUME HandleInv, UNCHANGED <<m_monitors, fresh>>, HandlesOwnedOnce',
           worker' # "build" => worker # "build" /\ UNCHANGED m_channels
    PROVE  HandleInv'
BY DEF HandleInv, ChannelsMatchMonitors, FreshMatches, Borrows

LEMMA HandleQueue ==
    ASSUME IInv, HandleInv, NEW target, Queue(target) PROVE HandleInv'
<1> USE DEF stateVars, settingVars, flushVars, managerVars
<1>1. UNCHANGED <<m_monitors, routes, fresh>> BY DEF Queue
<1>2. worker' # "build" <=> worker # "build" BY DEF Queue, Notified
<1>3. DOMAIN m_channels' = DOMAIN m_channels BY DEF Queue
<1>4. \A i \in DOMAIN m_channels :
        /\ m_channels'[i].monitor = m_channels[i].monitor
        /\ m_channels'[i].monitorIndex = m_channels[i].monitorIndex
  <2> TAKE i \in DOMAIN m_channels
  <2>1. m_channels[i] \in ChannelType BY ElementOfSeq DEF IInv, TypeOK
  <2>2. PICK v : m_channels'[i] \in {m_channels[i],
                                     [m_channels[i] EXCEPT !.current = v,
                                                           !.exact = TRUE]}
    BY DEF Queue
  <2>3. QED BY <2>1, <2>2 DEF ChannelType
<1>5. ChannelsMatchMonitors'
  BY <1>1, <1>2, <1>3, <1>4 DEF HandleInv, ChannelsMatchMonitors, Borrows
<1>6. FreshMatches' BY <1>1 DEF HandleInv, FreshMatches, Borrows
<1>7. QED BY <1>1, <1>5, <1>6, OwnedFrame DEF HandleInv

LEMMA HandleBuild ==
    ASSUME IInv, HandleInv, BuildPanel PROVE HandleInv'
<1> USE DEF enumerateFrame, stateVars, settingVars, flushVars, managerVars
<1>1. UNCHANGED <<m_monitors, routes, m_channels, worker>> BY DEF BuildPanel
<1>2. at[1] \in Nat \ {0} /\ at[2] \in Nat \ {0} BY DEF IInv, TypeOK
<1>3. CASE at[2] <= Len(m_monitors[at[1]])
  <2> DEFINE h == m_monitors[at[1]][at[2]]
             more == ChannelsAt(h, MonitorIndex)
  <2>1. PICK replied \in ReplySets(h) :
           fresh' = fresh \o PanelChannels(h, MonitorIndex, replied)
    BY <1>3 DEF BuildPanel
  <2>2. m_monitors \in Seq(Seq(Handles)) BY DEF IInv, TypeOK, ManagerTypeOK
  <2>3. at[1] \in 1 .. Len(m_monitors) BY <1>2 DEF BuildPanel
  <2>4. m_monitors[at[1]] \in Seq(Handles) BY <2>2, <2>3, ElementOfSeq
  <2>5. at[2] \in DOMAIN m_monitors[at[1]] BY <1>2, <1>3, <2>4
  <2>6. h \in Handles BY <2>4, <2>5, ElementOfSeq
  <2>7. MonitorIndex \in Nat /\ MonitorIndex + 1 = at[1]
    BY <1>2 DEF MonitorIndex
  <2>8. at[1] \in DOMAIN m_monitors BY <2>2, <2>3
  <2>9. \A ch \in more : Borrows(ch)
    BY <2>5, <2>7, <2>8 DEF ChannelsAt, Borrows
  <2> DEFINE found == PanelChannels(h, MonitorIndex, replied)
  <2> HIDE DEF h
  <2>10. found \in Seq(more)
    BY <2>6, <2>7, PanelChannelsType DEF IInv, TypeOK
  <2> HIDE DEF found, more
  <2>11. fresh \in Seq(ChannelType) BY DEF IInv, TypeOK
  <2>12. \A i \in DOMAIN fresh' : Borrows(fresh'[i])
    <3> TAKE i \in DOMAIN fresh'
    <3>1. fresh' = fresh \o found BY <2>1 DEF found
    <3>2. Len(fresh) \in Nat /\ Len(found) \in Nat
            /\ DOMAIN fresh = 1 .. Len(fresh)
            /\ DOMAIN fresh' = 1 .. Len(fresh) + Len(found)
      BY <2>10, <2>11, <3>1
    <3>3. CASE i <= Len(fresh)
      <4>1. i \in DOMAIN fresh /\ fresh'[i] = fresh[i]
        BY <2>10, <2>11, <3>1, <3>2, <3>3
      <4>2. QED BY <4>1 DEF HandleInv, FreshMatches
    <3>4. CASE i > Len(fresh)
      <4>1. i - Len(fresh) \in 1 .. Len(found)
              /\ fresh'[i] = found[i - Len(fresh)]
        BY <2>10, <2>11, <3>1, <3>2, <3>4
      <4>2. found[i - Len(fresh)] \in more BY <2>10, <4>1, ElementOfSeq
      <4>3. QED BY <2>9, <4>1, <4>2
    <3>5. QED BY <3>2, <3>3, <3>4
  <2>13. FreshMatches' BY <1>1, <2>12 DEF FreshMatches, Borrows
  <2>14. QED
    BY <1>1, <2>13, OwnedFrame
    DEF HandleInv, ChannelsMatchMonitors, Borrows, BuildPanel
<1>4. CASE ~ (at[2] <= Len(m_monitors[at[1]]))
  <2>1. fresh' = fresh BY <1>4 DEF BuildPanel
  <2>2. QED BY <1>1, <2>1, OwnedFrame, HandleFrame DEF HandleInv
<1>5. QED BY <1>3, <1>4

LEMMA HandleStep == IInv /\ HandleInv /\ [Next]_vars => HandleInv'
<1> SUFFICES ASSUME IInv, HandleInv, [Next]_vars PROVE HandleInv' OBVIOUS
<1> USE DEF stateVars, settingVars, flushVars, managerVars
<1>1. ManagerTypeOK /\ HandlesOwnedOnce BY DEF IInv, TypeOK, HandleInv
<1>2. CASE Input
  <2>1. PICK target : Queue(target) BY <1>2, SelectedTargets, Zenon
  <2>2. QED BY <2>1, HandleQueue
<1>3. CASE RefreshEnumerates
  <2>1. HandlesOwnedOnce' BY <1>1, <1>3, EnumerateOwned DEF RefreshEnumerates
  <2>2. worker' = "build" /\ fresh' = <<>> BY <1>3 DEF RefreshEnumerates
  <2>3. QED
    BY <2>1, <2>2 DEF HandleInv, ChannelsMatchMonitors, FreshMatches
<1>4. CASE BuildPanel BY <1>4, HandleBuild
<1>5. CASE Swap
  <2>1. UNCHANGED <<m_monitors, routes>>
          /\ m_channels' = fresh /\ fresh' = <<>>
    BY <1>5 DEF Swap
  <2>2. HandlesOwnedOnce' BY <1>1, <2>1, OwnedFrame
  <2>3. QED
    BY <2>1, <2>2 DEF HandleInv, ChannelsMatchMonitors, FreshMatches, Borrows
<1>6. CASE Desktop
  <2>1. HandlesOwnedOnce' BY <1>1, <1>6, TopologyOwned DEF Desktop
  <2>2. UNCHANGED <<m_monitors, fresh, worker, m_channels>>
    BY <1>6 DEF Desktop, TopologyChange, enumerateFrame
  <2>3. QED BY <2>1, <2>2, HandleFrame
<1>7. CASE RefreshQueries
  <2>1. UNCHANGED <<m_monitors, routes, fresh, worker, m_channels>>
    BY <1>7 DEF RefreshQueries, QueryActiveTargets, enumerateFrame
  <2>2. QED BY <1>1, <2>1, OwnedFrame, HandleFrame
<1>8. CASE Start
  <2>1. worker = "none" /\ UNCHANGED <<m_monitors, routes, fresh, m_channels>>
    BY <1>8 DEF IInv, OneWorker, Start, CanCall
  <2>2. QED BY <1>1, <2>1, OwnedFrame, HandleFrame
<1>9. CASE \/ Stop \/ RequestReenumerate \/ Caller \/ Waking \/ OnReady
           \/ Flush \/ SpuriousWake \/ QuietElapses \/ Setting
           \/ PanelSettles \/ UNCHANGED vars
  <2>1. UNCHANGED <<m_monitors, routes, fresh, m_channels>>
    BY <1>9
    DEF PanelSettles, managerVars, enumerateFrame, Stop, RequestReenumerate, Caller, NotifyAll, Join, Waking, EnterLoop,
        IdleWakes, TimerExpires, QuietEnds, OnReady, Flush, BeginEntry, Write,
        Retry, FlushDone, writeFrame, loopFrame, SpuriousWake, QuietElapses,
        Setting, SetScope, SetParamEnabled, SetScrollStep, vars
  <2>2. worker' # "build" => worker # "build"
    BY <1>9
    DEF PanelSettles, Stop, RequestReenumerate, Caller, NotifyAll, Join, Waking, EnterLoop,
        IdleWakes, TimerExpires, QuietEnds, OnReady, Flush, BeginEntry, Write,
        Retry, FlushDone, SpuriousWake, QuietElapses, Notified,
        Setting, SetScope, SetParamEnabled, SetScrollStep, vars
  <2>3. QED BY <1>1, <2>1, <2>2, OwnedFrame, HandleFrame
<1>10. QED
  BY <1>2, <1>3, <1>4, <1>5, <1>6, <1>7, <1>8, <1>9, Zenon
  DEF Next, Lifecycle, Worker, Enumeration

LEMMA HandleSafe == Spec => [](IInv /\ HandleInv)
<1>1. Init => HandleInv
  BY ManagerInitInv
  DEF Init, HandleInv, ManagerInv, ChannelsMatchMonitors, FreshMatches
<1>2. IInv /\ HandleInv /\ [Next]_vars => HandleInv' BY HandleStep
<1>3. QED BY <1>1, <1>2, SafeSpec, PTL DEF Spec

(* Channels and Monitors() agree whenever the worker is not between them:  *)
(* each channel's handle belongs to the monitor its index names            *)
(* (AdjustmentCoordinator.h:53-59, cpp:340-405).                           *)
THEOREM ChannelsAlwaysMatchMonitors == Spec => []ChannelsMatchMonitors
<1>1. HandleInv => ChannelsMatchMonitors BY DEF HandleInv
<1>2. QED BY <1>1, HandleSafe, PTL

(* The composition of the two components: the handle of a write in flight  *)
(* has not been destroyed by a refresh (AdjustmentCoordinator.cpp:492-516, *)
(* MonitorManager.cpp:184-186).                                            *)
THEOREM WritesThroughOpenHandles ==
    Spec => [](entry # 0 => routes[m_channels[entry].monitor] # "free")
<1>1. IInv /\ HandleInv
        => (entry # 0 => routes[m_channels[entry].monitor] # "free")
  <2> SUFFICES ASSUME IInv, HandleInv, entry # 0
               PROVE  routes[m_channels[entry].monitor] # "free"
    OBVIOUS
  <2>1. entry \in DOMAIN m_channels /\ worker # "build"
    BY DEF IInv, TargetsNameChannels
  <2>2. Borrows(m_channels[entry])
    BY <2>1 DEF HandleInv, ChannelsMatchMonitors
  <2>3. m_channels[entry].monitor \in Owned(m_monitors)
    <3> DEFINE n == m_channels[entry].monitorIndex + 1
    <3>1. PICK k \in DOMAIN m_monitors[n] :
             n \in DOMAIN m_monitors
             /\ m_monitors[n][k] = m_channels[entry].monitor
      BY <2>2 DEF Borrows
    <3> HIDE DEF n
    <3>2. <<n, k>> \in Entries(m_monitors) BY <3>1 DEF Entries
    <3>3. QED BY <3>1, <3>2 DEF Owned
  <2>4. QED BY <2>3 DEF HandleInv, HandlesOwnedOnce
<1>2. QED BY <1>1, HandleSafe, PTL
=============================================================================
