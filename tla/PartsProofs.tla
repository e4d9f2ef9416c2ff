----------------------------- MODULE PartsProofs -----------------------------
(***************************************************************************)
(* The parts of MCParts that need no induction over documents, for every   *)
(* value of their constants: the conversions for every device maximum      *)
(* whose products fit the unsigned type, the capability parser for every   *)
(* string, the vibrance row for every range a display may report and any   *)
(* number of displays, and the preferences for every initial file, every   *)
(* choice of values and every failing call.                                *)
(***************************************************************************)
EXTENDS ScalingSweep, CapabilitiesParser, VibranceRow, SettingsStore,
        FiniteSetTheorems, TLAPS

-----------------------------------------------------------------------------
(* The conversions.                                                        *)

\* Half-up division by a positive divisor, the core of both conversions.
LEMMA HalfUp ==
    ASSUME NEW x \in Nat, NEW d \in Nat \ {0}, NEW h \in Nat
    PROVE  LET q == (x + h) \div d
           IN  q \in Nat /\ d * q <= x + h /\ x + h < d * q + d
OBVIOUS

LEMMA RangeType ==
    ASSUME NEW m \in Nat
    PROVE  DeviceRange(m) \in Nat \ {0}
BY DEF DeviceRange

LEMMA SmallMod ==
    ASSUME NEW x \in Nat, x < UintMod
    PROVE  x % UintMod = x
BY UintModAssumption

LEMMA ProductBounds ==
    ASSUME NEW p \in Nat, NEW q \in Nat, NEW r \in Nat, p <= q
    PROVE  p * r \in Nat /\ p * r <= q * r
OBVIOUS

(* Between the ends, ToRaw does not wrap and rounds half up                *)
(* (VcpScaling.h:35-36).                                                   *)
LEMMA ToRawInside ==
    ASSUME NEW pct \in 1 .. 99, NEW m \in Nat, NoWrap(m)
    PROVE  /\ ToRaw(pct, m) = (pct * DeviceRange(m) + 50) \div 100
           /\ ToRaw(pct, m) \in Nat
           /\ 100 * ToRaw(pct, m) <= pct * DeviceRange(m) + 50
           /\ pct * DeviceRange(m) + 50 < 100 * ToRaw(pct, m) + 100
<1> DEFINE range == DeviceRange(m)
           x == pct * range
<1>1. range \in Nat \ {0} BY RangeType
<1>2. x \in Nat /\ x <= 99 * range
  BY <1>1, ProductBounds
<1>3. x + 50 \in Nat /\ x + 50 < UintMod
  BY <1>1, <1>2, UintModAssumption DEF NoWrap
<1>4. (x + 50) % UintMod = x + 50
  BY <1>3, SmallMod
<1>5. ToRaw(pct, m) = (x + 50) \div 100
  BY <1>4 DEF ToRaw
<1>6. QED
  BY <1>2, <1>5, HalfUp

(* Between the ends, ToPercent does not wrap and rounds half up            *)
(* (VcpScaling.h:47-48).                                                   *)
LEMMA ToPercentInside ==
    ASSUME NEW m \in Nat, NoWrap(m), NEW raw \in 0 .. DeviceRange(m) - 1
    PROVE  LET range == DeviceRange(m)
               pct == ToPercent(raw, m)
           IN  /\ pct \in Nat
               /\ range * pct <= raw * 100 + range \div 2
               /\ raw * 100 + range \div 2 < range * pct + range
<1> DEFINE range == DeviceRange(m)
           x == raw * 100
<1>1. range \in Nat \ {0} BY RangeType
<1>2. x \in Nat /\ x <= 100 * range - 100
  BY <1>1
<1>3. range \div 2 \in Nat /\ range \div 2 <= range
  BY <1>1
<1>4. x + range \div 2 \in Nat /\ x + range \div 2 < UintMod
  BY <1>1, <1>2, <1>3, UintModAssumption DEF NoWrap
<1>5. ToPercent(raw, m) = (x + range \div 2) \div range
  BY <1>1, <1>4, SmallMod DEF ToPercent
<1>6. LET q == (x + range \div 2) \div range
      IN  q \in Nat /\ range * q <= x + range \div 2
            /\ x + range \div 2 < range * q + range
  <2> HIDE DEF x, range
  <2> QED BY <1>1, <1>2, <1>3, HalfUp
<1>7. QED
  BY <1>5, <1>6

(* ToRaw stays on the device's scale (VcpScaling.h:22-37).                 *)
THEOREM ToRawInRange ==
    ASSUME NEW pct \in Int, NEW m \in Nat, NoWrap(m)
    PROVE  ToRaw(pct, m) \in 0 .. DeviceRange(m)
<1> DEFINE range == DeviceRange(m)
           raw == ToRaw(pct, m)
<1>1. range \in Nat \ {0} BY RangeType
<1>2. CASE pct <= 0 BY <1>1, <1>2 DEF ToRaw
<1>3. CASE pct >= 100 BY <1>1, <1>3 DEF ToRaw
<1>4. CASE pct \in 1 .. 99
  <2>1. raw \in Nat /\ 100 * raw <= pct * range + 50
    BY <1>4, ToRawInside
  <2>2. pct * range <= 99 * range /\ pct * range \in Nat
    BY <1>1, <1>4, ProductBounds
  <2>3. raw <= range
    <3> HIDE DEF raw, range
    <3> QED BY <1>1, <2>1, <2>2
  <2>4. QED BY <1>1, <2>1, <2>3
<1>5. QED BY <1>2, <1>3, <1>4

(* ToPercent stays on the percent scale: the Clamp around it in            *)
(* BuildFreshChannels never bites (VcpScaling.h:39-49).                    *)
THEOREM ToPercentInRange ==
    ASSUME NEW raw \in Nat, NEW m \in Nat, NoWrap(m)
    PROVE  ToPercent(raw, m) \in 0 .. 100
<1> DEFINE range == DeviceRange(m)
           pct == ToPercent(raw, m)
<1>1. range \in Nat \ {0} BY RangeType
<1>2. CASE raw >= range BY <1>2 DEF ToPercent
<1>3. CASE raw \in 0 .. range - 1
  <2>1. pct \in Nat /\ range * pct <= raw * 100 + range \div 2
    BY <1>3, ToPercentInside
  <2>2. raw * 100 + range \div 2 < range * 101
    BY <1>1, <1>3
  <2>3. ~(pct >= 101)
    <3> HIDE DEF pct, range
    <3> SUFFICES ASSUME pct >= 101 PROVE FALSE OBVIOUS
    <3>1. 101 * range <= pct * range BY <1>1, <2>1, ProductBounds
    <3> QED BY <3>1, <1>1, <2>1, <2>2
  <2>4. QED BY <2>1, <2>3
<1>4. QED BY <1>1, <1>2, <1>3

-----------------------------------------------------------------------------
LEMMA SweepType == SweepSpec => [](percent \in 0 .. 100 /\ max \in Maxima)
<1> DEFINE T == percent \in 0 .. 100 /\ max \in Maxima
<1>1. SweepInit => T BY DEF SweepInit
<1>2. T /\ [SweepNext]_<<percent, max>> => T'
  BY DEF SweepNext
<1>3. QED BY <1>1, <1>2, PTL DEF SweepSpec

(* ToRaw rounds to the nearest device unit, halves up, for every           *)
(* percentage and every maximum that does not wrap (VcpScaling.h:35).      *)
THEOREM NearestHalfUpHolds == SweepSpec => []NearestHalfUp
<1>1. ASSUME percent \in 0 .. 100, max \in Maxima
      PROVE  NearestHalfUp
  <2> DEFINE range == DeviceRange(max)
             raw == ToRaw(percent, max)
  <2>1. max \in Nat /\ NoWrap(max) BY <1>1, MaximaAssumption
  <2>2. range \in Nat \ {0} BY <2>1, RangeType
  <2>3. CASE percent \in 1 .. 99
    <3>1. raw \in Nat /\ 100 * raw <= percent * range + 50
            /\ percent * range + 50 < 100 * raw + 100
      BY <2>1, <2>3, ToRawInside
    <3>2. percent * range \in Nat BY <2>2, <2>3, ProductBounds
    <3> HIDE DEF raw, range
    <3>3. 100 * raw - percent * range \in -49 .. 50 BY <3>1, <3>2
    <3>4. QED BY <3>3 DEF NearestHalfUp, raw, range
  <2>4. CASE percent = 0 BY <2>2, <2>4 DEF NearestHalfUp, ToRaw
  <2>5. CASE percent = 100 BY <2>2, <2>5 DEF NearestHalfUp, ToRaw
  <2>6. QED BY <1>1, <2>3, <2>4, <2>5
<1>2. QED BY <1>1, SweepType, PTL

(* On a panel of at least 100 units a percentage survives the way to the   *)
(* panel and back: sliders do not creep across a hot-plug                  *)
(* (VcpScaling.h:24-49).                                                   *)
THEOREM PercentRoundTripHolds == SweepSpec => []PercentRoundTrip
<1>1. ASSUME percent \in 0 .. 100, max \in Maxima, DeviceRange(max) >= 100
      PROVE  ToPercent(ToRaw(percent, max), max) = percent
  <2> DEFINE range == DeviceRange(max)
             raw == ToRaw(percent, max)
             half == range \div 2
             back == ToPercent(raw, max)
             x == percent * range
  <2>1. max \in Nat /\ NoWrap(max) BY <1>1, MaximaAssumption
  <2>2. range \in Nat /\ range >= 100 BY <1>1, <2>1, RangeType
  <2>3. half \in Nat /\ half >= 50 /\ 2 * half <= range BY <2>2
  <2>4. CASE percent \in 1 .. 99
    <3>1. raw \in Nat /\ 100 * raw <= x + 50 /\ x + 50 < 100 * raw + 100
      BY <2>1, <2>4, ToRawInside
    <3>2. x \in Nat /\ x <= 99 * range BY <2>2, <2>4, ProductBounds
    <3>3. raw \in 0 .. range - 1
      <4> HIDE DEF raw, range, x
      <4> QED BY <2>2, <3>1, <3>2
    <3>4. back \in Nat /\ range * back <= raw * 100 + half
            /\ raw * 100 + half < range * back + range
      BY <2>1, <3>3, ToPercentInside
    <3>5. ~(back >= percent + 1)
      <4> SUFFICES ASSUME back >= percent + 1 PROVE FALSE OBVIOUS
      <4>1. (percent + 1) * range <= back * range
        BY <2>2, <2>4, <3>4, ProductBounds
      <4>2. x + range <= raw * 100 + half
        <5>1. back * range = range * back BY <2>2, <3>4
        <5>2. (percent + 1) * range = x + range BY <2>2, <2>4
        <5> HIDE DEF raw, back, range, half, x
        <5> QED BY <4>1, <5>1, <5>2, <2>2, <2>3, <3>1, <3>2, <3>4
      <4>3. range = 100 /\ half = 50
        <5> HIDE DEF raw, range, half, x
        <5> QED BY <4>2, <2>2, <2>3, <3>1, <3>2
      <4>4. raw = percent
        <5>1. x = percent * 100 BY <4>3
        <5> HIDE DEF raw, range, x
        <5> QED BY <5>1, <2>4, <3>1
      <4>5. QED
        <5>1. x = percent * 100 BY <4>3
        <5> HIDE DEF raw, range, half, x
        <5> QED BY <5>1, <4>2, <4>3, <4>4, <2>4
    <3>6. ~(back <= percent - 1)
      <4> SUFFICES ASSUME back <= percent - 1 PROVE FALSE OBVIOUS
      <4>1. (back + 1) * range <= percent * range
        BY <2>2, <2>4, <3>4, ProductBounds
      <4>2. range * back + range <= x
        <5> HIDE DEF raw, back, range, half
        <5> QED BY <4>1, <2>2, <2>4, <3>4
      <4> HIDE DEF raw, range, half, x, back
      <4>3. QED BY <4>2, <2>2, <2>3, <3>1, <3>2, <3>4
    <3>7. QED
      <4> HIDE DEF raw, range, half, x
      <4> QED BY <3>4, <3>5, <3>6, <2>4 DEF raw
  <2>5. CASE percent = 0
    <3>1. raw = 0 BY <2>5 DEF ToRaw
    <3>2. back \in Nat /\ range * back <= half
      BY <2>1, <2>2, <3>1, ToPercentInside
    <3>3. ~(back >= 1)
      <4> SUFFICES ASSUME back >= 1 PROVE FALSE OBVIOUS
      <4>1. 1 * range <= back * range BY <2>2, <3>2, ProductBounds
      <4> HIDE DEF range, half, back
      <4>2. QED BY <4>1, <2>2, <2>3, <3>2
    <3>4. QED BY <3>2, <3>3, <2>5
  <2>6. CASE percent = 100 BY <2>2, <2>6 DEF ToRaw, ToPercent
  <2>7. QED BY <1>1, <2>4, <2>5, <2>6
<1>2. percent \in 0 .. 100 /\ max \in Maxima => PercentRoundTrip
  BY <1>1 DEF PercentRoundTrip
<1>3. QED BY <1>2, SweepType, PTL

(* On a panel of at most 100 units a register value survives the way to    *)
(* the dialog and back (VcpScaling.h:24-49).                               *)
THEOREM RawRoundTripHolds == SweepSpec => []RawRoundTrip
<1>1. ASSUME max \in Maxima, DeviceRange(max) <= 100,
             NEW raw \in 0 .. DeviceRange(max)
      PROVE  ToRaw(ToPercent(raw, max), max) = raw
  <2> DEFINE range == DeviceRange(max)
             half == range \div 2
             shown == ToPercent(raw, max)
             back == ToRaw(shown, max)
             x == shown * range
  <2>1. max \in Nat /\ NoWrap(max) BY <1>1, MaximaAssumption
  <2>2. range \in 1 .. 100 BY <1>1, <2>1, RangeType
  <2>3. half \in Nat /\ 2 * half <= range /\ range - half <= 50 BY <2>2
  <2>4. CASE raw \in 0 .. range - 1
    <3>1. shown \in Nat /\ range * shown <= raw * 100 + half
            /\ raw * 100 + half < range * shown + range
      BY <2>1, <2>4, ToPercentInside
    <3>2. x = range * shown /\ x \in Nat BY <2>2, <3>1, ProductBounds
    <3>3. ~(shown >= 100)
      <4> SUFFICES ASSUME shown >= 100 PROVE FALSE OBVIOUS
      <4>1. 100 * range <= shown * range BY <2>2, <3>1, ProductBounds
      <4> HIDE DEF range, half, shown
      <4>2. QED BY <4>1, <2>2, <2>3, <2>4, <3>1
    <3>4. CASE shown = 0
      <4>1. back = 0 BY <3>4 DEF ToRaw
      <4>2. range * shown = 0 BY <2>2, <3>4
      <4> HIDE DEF range, half, shown
      <4>3. QED BY <4>1, <4>2, <2>2, <2>3, <2>4, <3>1 DEF shown
    <3>5. CASE shown \in 1 .. 99
      <4>1. back \in Nat /\ 100 * back <= x + 50 /\ x + 50 < 100 * back + 100
        BY <2>1, <3>5, ToRawInside
      <4>2. back >= raw
        <5> HIDE DEF range, half, shown, back, x
        <5> QED BY <4>1, <3>1, <3>2, <2>2, <2>3, <2>4
      <4>3. CASE range < 100
        <5>1. half < 50 BY <4>3, <2>2
        <5> HIDE DEF range, half, shown, back, x
        <5>2. back <= raw BY <5>1, <4>1, <3>1, <3>2, <2>2, <2>3, <2>4
        <5>3. back = raw BY <5>2, <4>1, <4>2, <2>2, <2>4
        <5>4. QED BY <5>3 DEF back, shown
      <4>4. CASE range = 100
        <5>1. half = 50 /\ x = 100 * shown BY <4>4, <3>1
        <5> HIDE DEF range, half, shown, back, x
        <5>2. shown = raw BY <5>1, <3>1, <3>2, <4>4, <2>4
        <5>3. back = raw BY <5>1, <5>2, <4>1, <2>4
        <5>4. QED BY <5>3 DEF back, shown
      <4>5. QED BY <2>2, <4>3, <4>4
    <3>6. QED BY <3>1, <3>3, <3>4, <3>5
  <2>5. CASE raw = range BY <2>2, <2>5 DEF ToRaw, ToPercent
  <2>6. QED BY <2>2, <2>4, <2>5
<1>2. max \in Maxima => RawRoundTrip
  BY <1>1 DEF RawRoundTrip
<1>3. QED BY <1>2, SweepType, PTL

-----------------------------------------------------------------------------
(* The capability parser.                                                  *)

\* Run(j, k), from where a run starts.
WholeRun(j, k) == Run(j, k) /\ (j = 1 \/ ~Run(j - 1, j - 1))

\* The run that ends at k has an odd or an even number of digits so far.
OddRun(k) == \E j \in 1 .. k : WholeRun(j, k) /\ (k - j) % 2 = 0
EvenRun(k) == \E j \in 1 .. k : WholeRun(j, k) /\ (k - j) % 2 = 1

ParserTypeOK ==
    /\ found \in BOOLEAN /\ segment \in Seq(Chars) /\ depth \in Int
    /\ hexAccumulator \in Nat /\ hexDigits \in {0, 1}

LastIsHex == segment # <<>> /\ segment[Len(segment)] \in HexChars

\* depth is the level of the next character; a digit is pending when the run
\* read last is odd, and is then the low one of the accumulator, in which a
\* digit from before a parenthesis may still stand.
PendingDigit ==
    /\ depth = Level(Len(segment) + 1)
    /\ hexDigits = 1 =>
          /\ depth = 1 /\ LastIsHex /\ OddRun(Len(segment))
          /\ hexAccumulator % 16 = HexValue[segment[Len(segment)]]
    /\ hexDigits = 0 /\ depth = 1 /\ LastIsHex => EvenRun(Len(segment))

ParserInv == ParserTypeOK /\ PendingDigit /\ CodesAreThoseListed

-----------------------------------------------------------------------------
LEMMA CountAppend ==
    ASSUME segment \in Seq(Chars), NEW ch \in Chars,
           segment' = Append(segment, ch), NEW n, n = Len(segment), NEW C
    PROVE  /\ \A k \in 1 .. n + 1 : Count(k, C) \in Nat /\ Count(k, C)' = Count(k, C)
           /\ Count(n + 2, C)' = Count(n + 1, C) + (IF ch \in C THEN 1 ELSE 0)
<1> DEFINE Before(k) == {j \in 1 .. k - 1 : segment[j] \in C}
           After(k) == {j \in 1 .. k - 1 : segment'[j] \in C}
<1>1. /\ n \in Nat /\ segment'[n + 1] = ch
      /\ \A j \in 1 .. n : segment'[j] = segment[j]
  OBVIOUS
<1>2. ASSUME NEW k \in Nat \ {0} PROVE IsFiniteSet(Before(k))
  <2>1. k - 1 \in Int /\ 1 \in Int OBVIOUS
  <2>2. IsFiniteSet(1 .. k - 1) BY <2>1, FS_Interval
  <2>3. Before(k) \in SUBSET (1 .. k - 1) OBVIOUS
  <2>4. QED BY <2>2, <2>3, FS_Subset
<1>3. \A k : Count(k, C) = Cardinality(Before(k)) BY DEF Count
<1>4. \A k : Count(k, C)' = Cardinality(After(k)) BY DEF Count
<1>5. ASSUME NEW k \in 1 .. n + 1
      PROVE  Count(k, C) \in Nat /\ Count(k, C)' = Count(k, C)
  <2>1. k \in Nat \ {0} BY <1>1
  <2>2. IsFiniteSet(Before(k)) BY <1>2, <2>1
  <2>3. After(k) = Before(k) BY <1>1
  <2> HIDE DEF Before, After
  <2>4. Cardinality(Before(k)) \in Nat BY <2>2, FS_CardinalityType
  <2>5. QED BY <1>3, <1>4, <2>3, <2>4
<1>6. Count(n + 2, C)' = Count(n + 1, C) + (IF ch \in C THEN 1 ELSE 0)
  <2>1. n + 1 \in Nat \ {0} BY <1>1
  <2>2. IsFiniteSet(Before(n + 1)) BY <1>2, <2>1
  <2>3. n + 1 \notin Before(n + 1) BY <1>1
  <2>4. ch \in C => After(n + 2) = Before(n + 1) \cup {n + 1} BY <1>1
  <2>5. ch \notin C => After(n + 2) = Before(n + 1) BY <1>1
  <2> HIDE DEF After, Before
  <2>6. Cardinality(Before(n + 1)) \in Nat BY <2>2, FS_CardinalityType
  <2>7. Cardinality(Before(n + 1) \cup {n + 1}) = Cardinality(Before(n + 1)) + 1
    BY <2>2, <2>3, FS_AddElement
  <2>8. Count(n + 1, C) = Cardinality(Before(n + 1)) BY <1>3
  <2>9. Count(n + 2, C)' = Cardinality(After(n + 2)) BY <1>4
  <2>10. CASE ch \in C BY <2>4, <2>7, <2>8, <2>9, <2>10
  <2>11. CASE ch \notin C BY <2>5, <2>6, <2>8, <2>9, <2>11
  <2>12. QED BY <2>10, <2>11
<1>7. QED BY <1>5, <1>6

LEMMA LevelAppend ==
    ASSUME segment \in Seq(Chars), NEW ch \in Chars,
           segment' = Append(segment, ch), NEW n, n = Len(segment)
    PROVE  /\ \A k \in 1 .. n + 1 : Level(k) \in Int /\ Level(k)' = Level(k)
           /\ Level(n + 2)' = Level(n + 1)
                                 + (IF ch \in {Opening, VcpToken} THEN 1 ELSE 0)
                                 - (IF ch \in {Closing} THEN 1 ELSE 0)
<1> DEFINE Ups == {Opening, VcpToken}
           Downs == {Closing}
<1>1. n \in Nat /\ n + 1 \in 1 .. n + 1 OBVIOUS
<1>2. \A k : /\ Level(k) = 1 + Count(k, Ups) - Count(k, Downs)
             /\ Level(k)' = 1 + Count(k, Ups)' - Count(k, Downs)'
  BY DEF Level
<1> HIDE DEF Ups, Downs
<1>3. /\ \A k \in 1 .. n + 1 : Count(k, Ups) \in Nat
                               /\ Count(k, Ups)' = Count(k, Ups)
      /\ Count(n + 2, Ups)' = Count(n + 1, Ups) + (IF ch \in Ups THEN 1 ELSE 0)
  BY CountAppend
<1>4. /\ \A k \in 1 .. n + 1 : Count(k, Downs) \in Nat
                               /\ Count(k, Downs)' = Count(k, Downs)
      /\ Count(n + 2, Downs)' = Count(n + 1, Downs) + (IF ch \in Downs THEN 1 ELSE 0)
  BY CountAppend
<1>5. \A k \in 1 .. n + 1 : Level(k) \in Int /\ Level(k)' = Level(k)
  BY <1>2, <1>3, <1>4
<1>6. Level(n + 2)' = Level(n + 1) + (IF ch \in Ups THEN 1 ELSE 0)
                         - (IF ch \in Downs THEN 1 ELSE 0)
  <2> DEFINE up == Count(n + 1, Ups)
             down == Count(n + 1, Downs)
             opened == IF ch \in Ups THEN 1 ELSE 0
             closed == IF ch \in Downs THEN 1 ELSE 0
  <2>1. Level(n + 1) = 1 + up - down BY <1>2
  <2>2. Level(n + 2)' = 1 + Count(n + 2, Ups)' - Count(n + 2, Downs)' BY <1>2
  <2>3. Level(n + 2)' = 1 + (up + opened) - (down + closed) BY <1>3, <1>4, <2>2
  <2>4. up \in Nat /\ down \in Nat /\ opened \in Nat /\ closed \in Nat BY <1>1, <1>3, <1>4
  <2> HIDE DEF up, down, opened, closed
  <2>5. 1 + (up + opened) - (down + closed) = (1 + up - down) + opened - closed BY <2>4
  <2>6. Level(n + 2)' = Level(n + 1) + opened - closed BY <2>1, <2>3, <2>5
  <2>7. QED BY <2>6 DEF opened, closed
<1>7. Level(n + 2)' = Level(n + 1) + (IF ch \in {Opening, VcpToken} THEN 1 ELSE 0)
                         - (IF ch \in {Closing} THEN 1 ELSE 0)
  BY <1>6 DEF Ups, Downs
<1>8. QED BY <1>5, <1>7

LEMMA HexIsNoOther ==
    ASSUME NEW ch \in HexChars
    PROVE  ch \notin {Opening, VcpToken} /\ ch \notin {Closing} /\ ch \notin Others
BY ParserAssumption DEF Others

\* A digit opens and closes nothing.
LEMMA LevelOfDigit ==
    ASSUME segment \in Seq(Chars), NEW n \in Nat \ {0}, segment[n] \in HexChars
    PROVE  Level(n) = Level(n + 1)
<1>1. \A C : segment[n] \notin C =>
         {j \in 1 .. n - 1 : segment[j] \in C} =
         {j \in 1 .. (n + 1) - 1 : segment[j] \in C}
  OBVIOUS
<1>2. \A C : segment[n] \notin C => Count(n, C) = Count(n + 1, C)
  BY <1>1 DEF Count
<1>3. QED BY <1>2, HexIsNoOther DEF Level

LEMMA RunAppend ==
    ASSUME segment \in Seq(Chars), NEW ch \in Chars,
           segment' = Append(segment, ch), NEW n, n = Len(segment)
    PROVE  /\ \A j \in 1 .. n + 1, k \in 0 .. n : Run(j, k)' <=> Run(j, k)
           /\ \A j \in 1 .. n + 1 :
                 Run(j, n + 1)' <=> Run(j, n) /\ ch \in HexChars
<1>1. /\ n \in Nat /\ segment'[n + 1] = ch
      /\ \A j \in 1 .. n : segment'[j] = segment[j]
  OBVIOUS
<1>2. ASSUME NEW j \in 1 .. n + 1, NEW k \in 0 .. n
      PROVE  Run(j, k)' <=> Run(j, k)
  <2>1. \A i \in j .. k : segment'[i] = segment[i] BY <1>1
  <2>2. QED BY <2>1 DEF Run
<1>3. ASSUME NEW j \in 1 .. n + 1
      PROVE  Run(j, n + 1)' <=> Run(j, n) /\ ch \in HexChars
  <2>1. \A i \in j .. n : segment'[i] = segment[i] BY <1>1
  <2>2. \A i : i \in j .. n + 1 <=> i \in j .. n \/ i = n + 1 BY <1>1
  <2>3. QED BY <1>1, <2>1, <2>2 DEF Run
<1>4. QED BY <1>2, <1>3

\* A run has one start, so its digits are read as one list of pairs.
LEMMA OneStart ==
    ASSUME NEW k \in Nat, NEW i \in 1 .. k, NEW j \in 1 .. k,
           WholeRun(i, k), WholeRun(j, k)
    PROVE  i = j
<1>1. ASSUME NEW a \in 1 .. k, NEW b \in 1 .. k, WholeRun(a, k), WholeRun(b, k)
      PROVE  ~(a < b)
  <2> SUFFICES ASSUME a < b PROVE FALSE OBVIOUS
  <2>1. b - 1 \in a .. k /\ b # 1 OBVIOUS
  <2>2. segment[b - 1] \in HexChars BY <1>1, <2>1 DEF WholeRun, Run
  <2>3. \A m \in b - 1 .. b - 1 : m = b - 1 OBVIOUS
  <2>4. Run(b - 1, b - 1) BY <2>2, <2>3 DEF Run
  <2>5. QED BY <1>1, <2>1, <2>4 DEF WholeRun
<1>2. ~(i < j) /\ ~(j < i) BY <1>1
<1>3. QED BY <1>2

LEMMA OddOrEven == \A k \in Nat : ~(OddRun(k) /\ EvenRun(k))
BY OneStart DEF OddRun, EvenRun

-----------------------------------------------------------------------------
LEMMA ParityAppend ==
    ASSUME segment \in Seq(Chars), NEW ch \in HexChars,
           segment' = Append(segment, ch), NEW n, n = Len(segment)
    PROVE  /\ n = 0 \/ segment[n] \notin HexChars => OddRun(n + 1)'
           /\ EvenRun(n) => OddRun(n + 1)'
           /\ OddRun(n) => EvenRun(n + 1)'
<1>1. n \in Nat /\ ch \in Chars BY DEF Chars
<1>2. \A j \in 1 .. n + 1, k \in 0 .. n : Run(j, k)' <=> Run(j, k)
  BY <1>1, RunAppend
<1>3. \A j \in 1 .. n + 1 : Run(j, n + 1)' <=> Run(j, n) BY <1>1, RunAppend
<1>4. ASSUME NEW j \in 1 .. n, WholeRun(j, n) PROVE WholeRun(j, n + 1)'
  <2>1. Run(j, n + 1)' BY <1>1, <1>3, <1>4 DEF WholeRun
  <2>2. j # 1 => j - 1 \in 1 .. n + 1 /\ j - 1 \in 0 .. n BY <1>1
  <2>3. j # 1 => (Run(j - 1, j - 1)' <=> Run(j - 1, j - 1)) BY <1>2, <2>2
  <2>4. QED BY <1>4, <2>1, <2>3 DEF WholeRun
<1>5. ASSUME n = 0 \/ segment[n] \notin HexChars PROVE OddRun(n + 1)'
  <2>1. n + 1 \in 1 .. n + 1 /\ (n + 1) - (n + 1) = 0 /\ (n + 1) - 1 = n BY <1>1
  <2>2. Run(n + 1, n) BY <1>1 DEF Run
  <2>3. Run(n + 1, n + 1)' BY <1>3, <2>1, <2>2
  <2>4. n # 0 => ~Run(n, n) BY <1>1, <1>5 DEF Run
  <2>5. n # 0 => ~Run(n, n)' BY <1>1, <1>2, <2>4
  <2>6. WholeRun(n + 1, n + 1)' BY <1>1, <2>1, <2>3, <2>5 DEF WholeRun
  <2>7. 0 % 2 = 0 OBVIOUS
  <2>8. QED BY <2>1, <2>6, <2>7 DEF OddRun
<1>6. ASSUME EvenRun(n) PROVE OddRun(n + 1)'
  <2>1. PICK j \in 1 .. n : WholeRun(j, n) /\ (n - j) % 2 = 1 BY <1>6 DEF EvenRun
  <2>2. j \in 1 .. n + 1 /\ ((n + 1) - j) % 2 = 0 BY <1>1, <2>1
  <2>3. QED BY <1>4, <2>1, <2>2 DEF OddRun
<1>7. ASSUME OddRun(n) PROVE EvenRun(n + 1)'
  <2>1. PICK j \in 1 .. n : WholeRun(j, n) /\ (n - j) % 2 = 0 BY <1>7 DEF OddRun
  <2>2. j \in 1 .. n + 1 /\ ((n + 1) - j) % 2 = 1 BY <1>1, <2>1
  <2>3. QED BY <1>4, <2>1, <2>2 DEF EvenRun
<1>8. QED BY <1>5, <1>6, <1>7

\* A character adds the pair it ends, and disturbs none.
LEMMA PairsAppend ==
    ASSUME segment \in Seq(Chars), NEW ch \in Chars,
           segment' = Append(segment, ch), NEW n, n = Len(segment)
    PROVE  /\ \A k \in 1 .. n - 1 : StartsPair(k)' <=> StartsPair(k)
           /\ n # 0 =>
                 (StartsPair(n)' <=> /\ ch \in HexChars /\ segment[n] \in HexChars
                                     /\ Level(n + 1) = 1 /\ OddRun(n))
<1>1. n \in Nat OBVIOUS
<1>2. \A j \in 1 .. n + 1, k \in 0 .. n : Run(j, k)' <=> Run(j, k) BY RunAppend
<1>3. \A j \in 1 .. n + 1 : Run(j, n + 1)' <=> Run(j, n) /\ ch \in HexChars
  BY RunAppend
<1>4. \A k \in 1 .. n : Level(k)' = Level(k) BY <1>1, LevelAppend
<1>5. ASSUME NEW k \in 1 .. n
      PROVE  (\E j \in 1 .. k : /\ Run(j, k) /\ (k - j) % 2 = 0
                                /\ j = 1 \/ ~Run(j - 1, j - 1))'
             <=> OddRun(k)
  <2>1. ASSUME NEW j \in 1 .. k
        PROVE  /\ Run(j, k)' <=> Run(j, k)
               /\ j # 1 => (Run(j - 1, j - 1)' <=> Run(j - 1, j - 1))
    <3>1. j \in 1 .. n + 1 /\ k \in 0 .. n BY <1>1
    <3>2. j # 1 => j - 1 \in 1 .. n + 1 /\ j - 1 \in 0 .. n BY <1>1
    <3>3. QED BY <1>2, <3>1, <3>2
  <2>2. QED BY <2>1 DEF OddRun, WholeRun
<1>6. ASSUME NEW k \in 1 .. n - 1 PROVE StartsPair(k)' <=> StartsPair(k)
  <2>1. k \in 1 .. n /\ k \in 1 .. n + 1 /\ k + 1 \in 0 .. n BY <1>1
  <2>2. Run(k, k + 1)' <=> Run(k, k + 1) BY <1>2, <2>1
  <2>3. QED BY <1>4, <1>5, <2>1, <2>2 DEF StartsPair, OddRun, WholeRun
<1>7. ASSUME n # 0
      PROVE  StartsPair(n)' <=> /\ ch \in HexChars /\ segment[n] \in HexChars
                                /\ Level(n + 1) = 1 /\ OddRun(n)
  <2>1. n \in 1 .. n /\ n \in 1 .. n + 1 /\ n \in Nat \ {0} BY <1>1, <1>7
  <2>2. Run(n, n) <=> segment[n] \in HexChars BY <2>1 DEF Run
  <2>3. Run(n, n + 1)' <=> segment[n] \in HexChars /\ ch \in HexChars
    BY <1>3, <2>1, <2>2
  <2>4. segment[n] \in HexChars => Level(n)' = Level(n + 1)
    BY <1>4, <2>1, LevelOfDigit
  <2>5. QED BY <1>5, <2>1, <2>3, <2>4 DEF StartsPair
<1>8. QED BY <1>6, <1>7

LEMMA CodesAppend ==
    ASSUME segment \in Seq(Chars), NEW ch \in Chars,
           segment' = Append(segment, ch), NEW n, n = Len(segment)
    PROVE  ListedCodes' =
              ListedCodes \cup
                 (IF /\ n # 0 /\ ch \in HexChars /\ segment[n] \in HexChars
                     /\ Level(n + 1) = 1 /\ OddRun(n)
                  THEN {16 * HexValue[segment[n]] + HexValue[ch]} ELSE {})
<1> DEFINE Code(a, b) == 16 * HexValue[a] + HexValue[b]
           Pairs == {k \in 1 .. n - 1 : StartsPair(k)}
<1>1. /\ n \in Nat /\ Len(segment') = n + 1 /\ segment'[n + 1] = ch
      /\ \A j \in 1 .. n : segment'[j] = segment[j]
  OBVIOUS
<1>2. ListedCodes = {Code(segment[k], segment[k + 1]) : k \in Pairs}
  BY DEF ListedCodes
<1>3. ListedCodes' = {Code(segment'[k], segment'[k + 1]) :
                         k \in {i \in 1 .. n : StartsPair(i)'}}
  BY <1>1 DEF ListedCodes
<1>4. \A k \in 1 .. n - 1 : Code(segment'[k], segment'[k + 1]) =
                               Code(segment[k], segment[k + 1])
  BY <1>1
<1>5. n # 0 => Code(segment'[n], segment'[n + 1]) = Code(segment[n], ch)
  BY <1>1
<1> HIDE DEF Code
<1>6. {i \in 1 .. n : StartsPair(i)'} =
         Pairs \cup (IF n # 0 /\ StartsPair(n)' THEN {n} ELSE {})
  <2>1. \A k : k \in 1 .. n <=> k \in 1 .. n - 1 \/ (n # 0 /\ k = n) BY <1>1
  <2>2. \A k \in 1 .. n - 1 : StartsPair(k)' <=> StartsPair(k) BY PairsAppend
  <2>3. QED BY <2>1, <2>2
<1>7. \A k \in Pairs : k \in 1 .. n - 1 OBVIOUS
<1> HIDE DEF Pairs
<1>8. ListedCodes' =
         ListedCodes \cup (IF n # 0 /\ StartsPair(n)'
                           THEN {Code(segment[n], ch)} ELSE {})
  BY <1>2, <1>3, <1>4, <1>5, <1>6, <1>7
<1>9. QED BY <1>8, PairsAppend DEF Code

-----------------------------------------------------------------------------
LEMMA AtNewLength ==
    ASSUME NEW m \in Nat, Len(segment') = m
    PROVE  /\ Level(Len(segment) + 1)' = Level(m + 1)'
           /\ OddRun(Len(segment))' <=> OddRun(m)'
           /\ EvenRun(Len(segment))' <=> EvenRun(m)'
<1>1. \A C : {j \in 1 .. (Len(segment') + 1) - 1 : segment'[j] \in C} =
               {j \in 1 .. (m + 1) - 1 : segment'[j] \in C}
  OBVIOUS
<1>2. Level(Len(segment) + 1)' = Level(m + 1)' BY <1>1 DEF Level, Count
<1>3. OddRun(Len(segment))' <=> OddRun(m)' BY DEF OddRun, WholeRun, Run
<1>4. EvenRun(Len(segment))' <=> EvenRun(m)' BY DEF EvenRun, WholeRun, Run
<1>5. QED BY <1>2, <1>3, <1>4

\* The cast to BYTE leaves the pair, whatever stood in the accumulator before.
LEMMA PairByte ==
    ASSUME NEW a \in Nat, NEW v \in 0 .. 15
    PROVE  /\ (a * 16 + v) % UnsignedMod \in Nat
           /\ ((a * 16 + v) % UnsignedMod) % 16 = v
           /\ Byte((a * 16 + v) % UnsignedMod) = 16 * (a % 16) + v
<1>1. UnsignedMod \in Nat \ {0} /\ UnsignedMod % 256 = 0 BY ParserAssumption
<1>2. PICK u \in Nat : UnsignedMod = 256 * u
  <2>1. UnsignedMod = 256 * (UnsignedMod \div 256) /\ UnsignedMod \div 256 \in Nat
    BY <1>1
  <2>2. QED BY <2>1
<1> DEFINE x == a * 16 + v
           q == x \div UnsignedMod
           r == x % UnsignedMod
<1>3. x \in Nat /\ q \in Nat /\ r \in Nat /\ x = UnsignedMod * q + r BY <1>1
<1>4. a = 16 * (a \div 16) + (a % 16) /\ a \div 16 \in Nat /\ a % 16 \in 0 .. 15
  OBVIOUS
<1>5. PICK w \in Nat : w = u * q BY <1>2, <1>3
<1>6. UnsignedMod * q = 256 * w
  <2> HIDE DEF q
  <2>1. UnsignedMod * q = (256 * u) * q BY <1>2
  <2>2. (256 * u) * q = 256 * (u * q) BY <1>2, <1>3
  <2>3. QED BY <2>1, <2>2, <1>5
<1>7. PICK b \in Nat, c \in 0 .. 15 : b = a \div 16 /\ c = a % 16 BY <1>4
<1>8. x = 256 * b + 16 * c + v BY <1>4, <1>7
<1> HIDE DEF x, q, r
<1>9. r = 256 * (b - w) + (16 * c + v) BY <1>3, <1>6, <1>8
<1>10. r % 256 = 16 * c + v /\ r % 16 = v BY <1>3, <1>9
<1>11. QED BY <1>3, <1>7, <1>10 DEF Byte, r, x

LEMMA CharacterKeeps ==
    ASSUME ParserInv, NEW ch \in Chars, Read(ch)
    PROVE  ParserInv'
<1>0. segment \in Seq(Chars) /\ segment' = Append(segment, ch) /\ UNCHANGED found
  BY DEF Read, ParserInv, ParserTypeOK
<1> PICK n \in Nat : n = Len(segment) BY <1>0
<1>1. /\ segment \in Seq(Chars) /\ segment' = Append(segment, ch)
      /\ n \in Nat /\ n = Len(segment) /\ UNCHANGED found
  BY <1>0
<1>2. /\ segment' \in Seq(Chars) /\ Len(segment') = n + 1
      /\ segment'[Len(segment')] = ch /\ segment' # <<>>
  BY <1>1
<1>3. /\ depth \in Int /\ hexDigits \in {0, 1} /\ hexAccumulator \in Nat
      /\ found \in BOOLEAN
  BY DEF ParserInv, ParserTypeOK
<1>4. depth = Level(n + 1) BY DEF ParserInv, PendingDigit
<1>5. /\ Level(Len(segment) + 1)' = Level(n + 2)'
      /\ OddRun(Len(segment))' <=> OddRun(n + 1)'
      /\ EvenRun(Len(segment))' <=> EvenRun(n + 1)'
  <2>1. n + 1 \in Nat /\ (n + 1) + 1 = n + 2 OBVIOUS
  <2>2. Level((n + 1) + 1)' = Level(n + 2)' BY <2>1
  <2>3. QED BY <1>2, <2>1, <2>2, AtNewLength
<1>6. LastIsHex' <=> ch \in HexChars BY <1>2 DEF LastIsHex
<1>7. Level(n + 2)' = depth + (IF ch \in {Opening, VcpToken} THEN 1 ELSE 0)
                            - (IF ch \in {Closing} THEN 1 ELSE 0)
  <2>1. Level(n + 2)' = Level(n + 1) + (IF ch \in {Opening, VcpToken} THEN 1 ELSE 0)
                                     - (IF ch \in {Closing} THEN 1 ELSE 0)
    BY <1>1, LevelAppend
  <2>2. QED BY <1>4, <2>1
<1>8. codes = ListedCodes BY DEF ParserInv, CodesAreThoseListed
<1>9. LastIsHex <=> n # 0 /\ segment[n] \in HexChars BY <1>1 DEF LastIsHex
<1>10. ListedCodes' =
          ListedCodes \cup
             (IF ch \in HexChars /\ LastIsHex /\ depth = 1 /\ OddRun(n)
              THEN {16 * HexValue[segment[n]] + HexValue[ch]} ELSE {})
  BY <1>1, <1>4, <1>9, CodesAppend
<1>11. ASSUME ch \notin HexChars, UNCHANGED codes, hexDigits' = 0,
              hexAccumulator' \in Nat, depth' = Level(n + 2)'
       PROVE  ParserInv'
  <2>1. depth' \in Int BY <1>3, <1>7, <1>11
  <2>2. ParserTypeOK' BY <1>1, <1>2, <1>3, <1>11, <2>1 DEF ParserTypeOK
  <2>3. PendingDigit' BY <1>5, <1>6, <1>11 DEF PendingDigit
  <2>4. CodesAreThoseListed' BY <1>8, <1>10, <1>11 DEF CodesAreThoseListed
  <2>5. QED BY <2>2, <2>3, <2>4 DEF ParserInv
<1>12. Opening # Closing /\ Opening # VcpToken /\ Closing # VcpToken
       /\ Space # Opening /\ Space # Closing /\ Space # VcpToken
  BY DEF Opening, Closing, VcpToken, Space
<1>13. CASE ch = Opening /\ ReadOpening
  <2>1. ch \notin HexChars BY <1>13, ParserAssumption DEF Others
  <2>2. depth' = Level(n + 2)' BY <1>3, <1>7, <1>12, <1>13 DEF ReadOpening
  <2>3. QED BY <1>3, <1>11, <1>13, <2>1, <2>2 DEF ReadOpening
<1>14. CASE ch = Closing /\ ReadClosing
  <2>1. ch \notin HexChars BY <1>14, ParserAssumption DEF Others
  <2>2. depth' = Level(n + 2)' BY <1>3, <1>7, <1>12, <1>14 DEF ReadClosing
  <2>3. QED BY <1>3, <1>11, <1>14, <2>1, <2>2 DEF ReadClosing
<1>15. CASE ch = VcpToken /\ ReadToken
  <2>1. ch \notin HexChars BY <1>15, ParserAssumption DEF Others
  <2>2. depth' = Level(n + 2)' BY <1>3, <1>7, <1>12, <1>15 DEF ReadToken
  <2>3. QED BY <1>11, <1>15, <2>1, <2>2 DEF ReadToken, ReadOther
<1>16. CASE ch = Space /\ ReadOther /\ UNCHANGED depth
  <2>1. ch \notin HexChars BY <1>16, ParserAssumption DEF Others
  <2>2. depth' = Level(n + 2)' BY <1>3, <1>7, <1>12, <1>16
  <2>3. QED BY <1>11, <1>16, <2>1, <2>2 DEF ReadOther
<1>17. CASE ch \in HexChars /\ ReadHex(ch) /\ UNCHANGED depth
  <2> DEFINE accumulated == (hexAccumulator * 16 + HexValue[ch]) % UnsignedMod
  <2>1. depth' = Level(n + 2)' BY <1>3, <1>7, <1>17, HexIsNoOther
  <2>2. /\ accumulated \in Nat /\ accumulated % 16 = HexValue[ch]
        /\ Byte(accumulated) = 16 * (hexAccumulator % 16) + HexValue[ch]
    <3>1. HexValue[ch] \in 0 .. 15 BY <1>17, ParserAssumption
    <3>2. QED BY <1>3, <3>1, PairByte
  <2>3. IF depth # 1 THEN UNCHANGED <<hexAccumulator, hexDigits, codes>>
        ELSE IF hexDigits + 1 = 2
        THEN /\ codes' = codes \cup {Byte(accumulated)}
             /\ hexDigits' = 0 /\ hexAccumulator' = 0
        ELSE /\ hexAccumulator' = accumulated /\ hexDigits' = hexDigits + 1
             /\ UNCHANGED codes
    BY <1>17 DEF ReadHex
  <2> HIDE DEF accumulated
  <2>4. /\ ~LastIsHex => OddRun(n + 1)'
        /\ EvenRun(n) => OddRun(n + 1)'
        /\ OddRun(n) => EvenRun(n + 1)'
        /\ ~(OddRun(n) /\ EvenRun(n))
    BY <1>1, <1>9, <1>17, ParityAppend, OddOrEven
  <2>5. /\ hexDigits = 1 => /\ depth = 1 /\ LastIsHex /\ OddRun(n)
                            /\ hexAccumulator % 16 = HexValue[segment[n]]
        /\ hexDigits = 0 /\ depth = 1 /\ LastIsHex => EvenRun(n)
    BY DEF ParserInv, PendingDigit
  <2>6. ParserTypeOK'
    <3>1. hexDigits' \in {0, 1} /\ hexAccumulator' \in Nat BY <1>3, <2>2, <2>3
    <3>2. QED BY <1>1, <1>2, <1>3, <1>17, <3>1 DEF ParserTypeOK
  <2>7. CASE depth # 1
    <3>1. hexDigits = 0 /\ hexDigits' = 0 /\ UNCHANGED codes
      BY <1>3, <2>3, <2>5, <2>7
    <3>2. PendingDigit' BY <1>5, <1>17, <2>1, <2>7, <3>1 DEF PendingDigit
    <3>3. CodesAreThoseListed'
      BY <1>8, <1>10, <2>7, <3>1 DEF CodesAreThoseListed
    <3>4. QED BY <2>6, <3>2, <3>3 DEF ParserInv
  <2>8. CASE depth = 1 /\ hexDigits = 1
    <3>1. hexDigits' = 0 /\ codes' = codes \cup {Byte(accumulated)} BY <2>3, <2>8
    <3>2. PendingDigit' BY <1>5, <2>1, <2>4, <2>5, <2>8, <3>1 DEF PendingDigit
    <3>3. ListedCodes' = ListedCodes \cup {Byte(accumulated)}
      BY <1>10, <1>17, <2>2, <2>5, <2>8
    <3>4. CodesAreThoseListed' BY <1>8, <3>1, <3>3 DEF CodesAreThoseListed
    <3>5. QED BY <2>6, <3>2, <3>4 DEF ParserInv
  <2>9. CASE depth = 1 /\ hexDigits = 0
    <3>1. hexDigits' = 1 /\ hexAccumulator' = accumulated /\ UNCHANGED codes
      BY <2>3, <2>9
    <3>2. ~OddRun(n) \/ ~LastIsHex BY <2>4, <2>5, <2>9
    <3>3. OddRun(n + 1)' BY <2>4, <2>5, <2>9
    <3>4. hexAccumulator' % 16 = HexValue[segment'[Len(segment')]]
      BY <1>2, <2>2, <3>1
    <3>5. PendingDigit'
      <4>1. depth' = 1 /\ hexDigits' = 1 /\ hexDigits' # 0 BY <1>17, <2>9, <3>1
      <4>2. (depth = Level(Len(segment) + 1))' BY <1>5, <2>1
      <4>3. OddRun(Len(segment))' /\ LastIsHex' BY <1>5, <1>6, <1>17, <3>3
      <4>4. (hexAccumulator % 16 = HexValue[segment[Len(segment)]])' BY <3>4
      <4>5. QED BY <4>1, <4>2, <4>3, <4>4 DEF PendingDigit
    <3>6. CodesAreThoseListed' BY <1>8, <1>10, <3>1, <3>2 DEF CodesAreThoseListed
    <3>7. QED BY <2>6, <3>5, <3>6 DEF ParserInv
  <2>10. QED BY <1>3, <2>7, <2>8, <2>9
<1>18. QED BY <1>13, <1>14, <1>15, <1>16, <1>17 DEF Read

LEMMA ParserStarts == ASSUME ParserInit PROVE ParserInv
<1>1. segment = <<>> /\ Len(segment) = 0 /\ depth = 1 /\ hexDigits = 0
      /\ hexAccumulator = 0 /\ codes = {} /\ found = FALSE
  BY DEF ParserInit
<1>2. ParserTypeOK
  <2>1. segment \in Seq(Chars) BY <1>1
  <2>2. depth \in Int /\ hexAccumulator \in Nat BY <1>1
  <2>3. QED BY <1>1, <2>1, <2>2 DEF ParserTypeOK
<1>3. ~LastIsHex BY <1>1 DEF LastIsHex
<1>4. \A C : {j \in 1 .. 1 - 1 : segment[j] \in C} = {} OBVIOUS
<1>5. \A C : Count(1, C) = 0 BY <1>4, FS_EmptySet DEF Count
<1>6. Level(Len(segment) + 1) = 1 BY <1>1, <1>5 DEF Level
<1>7. PendingDigit BY <1>1, <1>3, <1>6 DEF PendingDigit
<1>8. ListedCodes = {} BY <1>1 DEF ListedCodes
<1>9. QED BY <1>1, <1>2, <1>7, <1>8 DEF ParserInv, CodesAreThoseListed

\* Everything that PendingDigit and ListedCodes are about but found.
LEMMA ParserKept ==
    ASSUME ParserInv, found' \in BOOLEAN,
           UNCHANGED <<segment, depth, hexAccumulator, hexDigits, codes>>
    PROVE  ParserInv'
<1>1. ParserTypeOK' BY DEF ParserInv, ParserTypeOK
<1>2. PendingDigit'
  BY DEF ParserInv, PendingDigit, LastIsHex, Level, Count, OddRun, EvenRun,
     WholeRun, Run
<1>3. CodesAreThoseListed'
  BY DEF ParserInv, CodesAreThoseListed, ListedCodes, StartsPair, Level, Count,
     Run
<1>4. QED BY <1>1, <1>2, <1>3 DEF ParserInv

LEMMA ParserStep == ParserInv /\ [ParserNext]_parserVars => ParserInv'
<1> SUFFICES ASSUME ParserInv, [ParserNext]_parserVars PROVE ParserInv' OBVIOUS
<1>1. CASE UNCHANGED parserVars
  BY <1>1, ParserKept DEF parserVars, ParserInv, ParserTypeOK
<1>2. ASSUME NEW ch \in Chars, FindVcpSegmentStart(ch) PROVE ParserInv'
  BY <1>2, ParserKept DEF FindVcpSegmentStart
<1>3. ASSUME NEW ch \in Chars, Read(ch) PROVE ParserInv' BY <1>3, CharacterKeeps
<1>4. QED BY <1>1, <1>2, <1>3 DEF ParserNext

LEMMA ParserSafe == ParserSpec => []ParserInv
<1>1. QED BY ParserStarts, ParserStep, PTL DEF ParserSpec

(* The codes found are those the segment lists at its own level, however   *)
(* long the string, whatever digits a parenthesis left in the accumulator  *)
(* and however wide it is (CapabilitiesParser.cpp:23-70).                  *)
THEOREM CodesAreListed == ParserSpec => []CodesAreThoseListed
<1>1. ParserInv => CodesAreThoseListed BY DEF ParserInv
<1>2. QED BY <1>1, ParserSafe, PTL

-----------------------------------------------------------------------------
(* The vibrance row.                                                       *)

Ranges == {range \in Int \X Int : range[1] <= range[2]}

ServiceType ==
    [library : BOOLEAN, fns : SUBSET Kept, display : BOOLEAN, range : Ranges,
     available : BOOLEAN]
DriverType == [initialized : BOOLEAN, level : Int, asked : Int]
Texts == {"", "detecting...", "unavailable", "number"}
RowType == [text : Texts, pos : Int, enabled : BOOLEAN]

RowTypeOK ==
    /\ service \in ServiceType /\ driver \in DriverType /\ row \in RowType
    /\ probed \in BOOLEAN /\ m_draggingVibrance \in BOOLEAN /\ current \in BOOLEAN
    /\ seen \in Int
    /\ refresh \in {"no", "read", "disabled", "gone"}

\* A drag and a refresh come after the probe; only an enabled row is dragged.
ProbedFirst ==
    /\ m_draggingVibrance \/ refresh # "no" \/ current => probed
    /\ m_draggingVibrance => row.enabled

\* What the steps of a refresh rely on.
ReadIsFresh ==
    /\ refresh = "read" /\ seen >= 0 /\ current =>
          service.available /\ seen = driver.level
    /\ refresh = "disabled" => ~row.enabled /\ ~m_draggingVibrance /\ NothingToShow

RowInv ==
    RowTypeOK /\ UsableOrGone /\ ProbedFirst /\ ReadIsFresh /\ VibranceRowTruthful

-----------------------------------------------------------------------------
LEMMA ReleasedUsable ==
    ASSUME NEW s \in ServiceType
    PROVE  /\ Released(s) \in ServiceType
           /\ ~Released(s).available /\ ~Released(s).library
           /\ ~Released(s).display /\ Released(s).fns = {}
           /\ Released(s).range = s.range
BY DEF Released, ServiceType

LEMMA UnloadedDriver ==
    ASSUME NEW s \in ServiceType, NEW d \in DriverType, NEW e \in Unloaded(s, d)
    PROVE  e \in DriverType /\ e.level = d.level /\ e.asked = d.asked
BY DEF Unloaded, DriverType

LEMMA ClampedIsInt ==
    ASSUME NEW s \in ServiceType, NEW level \in Int
    PROVE  /\ Clamped(s, level) \in Int
           /\ level \in s.range[1] .. s.range[2] => Clamped(s, level) = level
BY DEF Clamped, ServiceType, Ranges

\* A call of SetLevel keeps the interface usable or gone; while it stays
\* usable a level in its range is what the driver was asked for.
LEMMA SetLevelUsable ==
    ASSUME service \in ServiceType, driver \in DriverType, UsableOrGone,
           NEW level \in Int, SetLevel(level)
    PROVE  /\ service' \in ServiceType /\ driver' \in DriverType
           /\ UsableOrGone'
           /\ service'.available => service.available
           /\ service'.available /\ level \in service.range[1] .. service.range[2]
                 => driver'.asked = level
<1>1. PICK answer \in Outcomes :
        /\ service' = AfterSet(service, answer)
        /\ \E d \in DriverAfterSet(service, driver, answer, level) :
               driver' \in IF service' # service THEN Unloaded(service, d) ELSE {d}
  BY DEF SetLevel
<1>2. PICK d \in DriverAfterSet(service, driver, answer, level) :
        driver' \in IF service' # service THEN Unloaded(service, d) ELSE {d}
  BY <1>1
<1>a. Clamped(service, level) \in Int
  BY ClampedIsInt
<1>3. /\ d \in DriverType /\ d.initialized = driver.initialized
      /\ service.available => d.asked = Clamped(service, level)
  <2> DEFINE asked == [driver EXCEPT !.asked = Clamped(service, level)]
  <2>1. /\ asked \in DriverType /\ asked.initialized = driver.initialized
        /\ asked.asked = Clamped(service, level)
    BY <1>a DEF DriverType
  <2>2. \/ d = driver /\ ~service.available
        \/ d = asked
        \/ d = [asked EXCEPT !.level = asked.asked]
    BY <1>2 DEF DriverAfterSet
  <2> QED
    BY <2>1, <2>2, <1>a DEF DriverType
<1>4. service.available => d.asked = Clamped(service, level)
  BY <1>3
<1>5. driver' \in DriverType /\ driver'.asked = d.asked
  BY <1>2, <1>3, UnloadedDriver
<1>6. CASE service' = service
  <2>1. driver' = d
    BY <1>2, <1>6
  <2> QED
    BY <1>3, <1>4, <2>1, <1>6, ClampedIsInt DEF UsableOrGone
<1>7. CASE service' # service
  <2>1. service' = Released(service)
    BY <1>1, <1>7 DEF AfterSet
  <2> QED
    BY <2>1, <1>5, ReleasedUsable DEF UsableOrGone
<1> QED
  BY <1>6, <1>7

-----------------------------------------------------------------------------
LEMMA RowInitInv == RowInit => RowInv
<1> SUFFICES ASSUME RowInit PROVE RowInv
  OBVIOUS
<1>0. /\ service = Fresh /\ driver = [initialized |-> FALSE, level |-> 0, asked |-> 0]
      /\ row = [text |-> "", pos |-> 0, enabled |-> TRUE]
      /\ probed = FALSE /\ m_draggingVibrance = FALSE /\ current = FALSE
      /\ seen = -1 /\ refresh = "no"
  BY Zenon DEF RowInit, VibranceInit
<1>a. <<0, 100>> \in Ranges
  BY DEF Ranges
<1>1. service \in ServiceType
  BY <1>0, <1>a DEF Fresh, ServiceType
<1>b. 0 \in Int /\ -1 \in Int
  OBVIOUS
<1>2. driver \in DriverType /\ row \in RowType
  BY <1>0, <1>b, Zenon DEF DriverType, RowType, Texts
<1>3. /\ probed \in BOOLEAN /\ m_draggingVibrance \in BOOLEAN /\ current \in BOOLEAN
      /\ seen \in Int /\ refresh \in {"no", "read", "disabled", "gone"}
  BY <1>0, <1>b, Zenon
<1>4. UsableOrGone
  BY <1>0 DEF Fresh, UsableOrGone
<1>5. ProbedFirst /\ ReadIsFresh /\ VibranceRowTruthful
  BY <1>0 DEF ProbedFirst, ReadIsFresh, VibranceRowTruthful
<1> QED
  BY <1>1, <1>2, <1>3, <1>4, <1>5, Zenon DEF RowInv, RowTypeOK

LEMMA LoadKeeps == RowInv /\ LoadInterface => RowInv'
<1> SUFFICES ASSUME RowInv, LoadInterface PROVE RowInv'
  OBVIOUS
<1> USE DEF RowInv, RowTypeOK
<1>1. ~probed /\ ~m_draggingVibrance /\ refresh = "no" /\ ~current
  BY DEF ProbedFirst, LoadInterface, TryLoad
<1>2. /\ UNCHANGED <<row, m_draggingVibrance, seen, refresh, current>>
      /\ probed' = TRUE
  BY DEF LoadInterface, TryLoad, rowVars
<1>3. service' \in ServiceType /\ driver' \in DriverType /\ UsableOrGone'
  <2>1. CASE UNCHANGED <<service, driver>>
    BY <2>1 DEF UsableOrGone
  <2>2. ASSUME NEW resolved \in SUBSET Interfaces, NEW initialize \in Outcomes,
               NEW displays \in DisplayLists, NEW range \in DeviceRanges,
               Probe(resolved, initialize, displays, range)
        PROVE  service' \in ServiceType /\ driver' \in DriverType /\ UsableOrGone'
    <3> DEFINE usable == resolved = Interfaces
               claims == usable /\ initialize = "ok" /\ Claims(displays)
               loaded == [Fresh EXCEPT !.library = TRUE, !.fns = resolved \cap Kept]
               started == [driver EXCEPT !.initialized = usable /\ initialize = "ok"]
    <3>a. <<0, 100>> \in Ranges
      BY DEF Ranges
    <3>1. loaded \in ServiceType
      BY <3>a DEF Fresh, ServiceType
    <3>2. started \in DriverType
      BY DEF DriverType
    <3>3. CASE claims
      <4>1. service' = [loaded EXCEPT !.display = TRUE, !.range = range,
                                      !.available = TRUE]
        BY <2>2, <3>3 DEF Probe
      <4>2. PICK level \in range[1] .. range[2] :
              driver' = [started EXCEPT !.level = level, !.asked = level]
        BY <2>2, <3>3 DEF Probe
      <4>3. range \in Ranges
        BY VibranceAssumption DEF Ranges
      <4>4. service' \in ServiceType
        BY <4>1, <4>3, <3>1 DEF ServiceType
      <4>5. driver' \in DriverType /\ driver'.initialized
        <5>1. level \in Int
          BY <4>3 DEF Ranges
        <5>2. started.initialized
          BY <3>3 DEF DriverType
        <5> QED
          BY <4>2, <5>1, <5>2, <3>2 DEF DriverType
      <4>6. service'.library /\ service'.display /\ service'.fns = Kept
        BY <4>1, <3>1, <3>3 DEF ServiceType, Kept
      <4> QED
        BY <4>4, <4>5, <4>6, <4>1, <3>1 DEF UsableOrGone, ServiceType
    <3>4. CASE ~claims
      <4>1. service' = Released(loaded) /\ driver' \in Unloaded(loaded, started)
        BY <2>2, <3>4 DEF Probe
      <4> QED
        BY <4>1, <3>1, <3>2, ReleasedUsable, UnloadedDriver DEF UsableOrGone
    <3> QED
      BY <3>3, <3>4
  <2> QED
    BY <2>1, <2>2 DEF LoadInterface, TryLoad
<1> QED
  BY <1>1, <1>2, <1>3 DEF ProbedFirst, ReadIsFresh, VibranceRowTruthful

LEMMA ReadKeeps == RowInv /\ ReadLevel => RowInv'
<1> SUFFICES ASSUME RowInv, ReadLevel PROVE RowInv'
  OBVIOUS
<1> USE DEF RowInv, RowTypeOK
<1>1. PICK answer \in Outcomes :
        /\ seen' = GetLevel(answer)
        /\ service' = AfterGet(answer)
        /\ driver' \in IF service' # service THEN Unloaded(service, driver)
                       ELSE {driver}
  BY DEF ReadLevel
<1>2. /\ probed /\ refresh' = "read" /\ current' = TRUE
      /\ UNCHANGED <<probed, row, m_draggingVibrance>>
  BY DEF ReadLevel
<1>3. seen' \in Int /\ (seen' >= 0 => service.available /\ answer = "ok"
                                       /\ seen' = driver.level)
  BY <1>1 DEF GetLevel, DriverType
<1>4. CASE service' = service
  <2>1. driver' = driver
    BY <1>1, <1>4
  <2> QED
    BY <1>2, <1>3, <1>4, <2>1
       DEF UsableOrGone, ProbedFirst, ReadIsFresh, VibranceRowTruthful
<1>5. CASE service' # service
  <2>1. service' = Released(service) /\ answer = "fault"
    BY <1>1, <1>5 DEF AfterGet
  <2>2. driver' \in DriverType /\ driver'.asked = driver.asked
    BY <1>1, <1>5, UnloadedDriver
  <2> QED
    BY <1>2, <1>3, <2>1, <2>2, ReleasedUsable
       DEF UsableOrGone, ProbedFirst, ReadIsFresh, VibranceRowTruthful
<1> QED
  BY <1>4, <1>5

LEMMA DisableKeeps == RowInv /\ Disable => RowInv'
<1> SUFFICES ASSUME RowInv, Disable PROVE RowInv'
  OBVIOUS
<1> USE DEF RowInv, RowTypeOK
<1>1. /\ refresh = "read" /\ NothingToShow /\ refresh' = "disabled"
      /\ row' = [row EXCEPT !.enabled = FALSE]
      /\ m_draggingVibrance' = FALSE
      /\ UNCHANGED <<probed, seen, current>>
  BY DEF Disable
<1>2. row' \in RowType /\ ~row'.enabled
  BY <1>1 DEF RowType
<1>3. /\ service' \in ServiceType /\ driver' \in DriverType /\ UsableOrGone'
      /\ service'.available => service.available
  <2>1. CASE m_draggingVibrance
    <3>1. SetLevel(row.pos) /\ row.pos \in Int
      BY <2>1 DEF Disable, RowType
    <3> QED
      BY <3>1, SetLevelUsable
  <2>2. CASE ~m_draggingVibrance
    BY <2>2 DEF Disable, UsableOrGone
  <2> QED
    BY <2>1, <2>2
<1> QED
  BY <1>1, <1>2, <1>3 DEF ProbedFirst, ReadIsFresh, VibranceRowTruthful, NothingToShow

LEMMA ExplainKeeps == RowInv /\ Explain => RowInv'
<1> SUFFICES ASSUME RowInv, Explain PROVE RowInv'
  OBVIOUS
<1>1. row' \in RowType /\ row'.enabled = row.enabled
         /\ (~service.available => row'.text = "unavailable")
  BY DEF Explain, RowInv, RowTypeOK, RowType, Texts
<1> QED
  BY <1>1 DEF Explain, RowInv, RowTypeOK, vibranceVars, UsableOrGone, ProbedFirst,
              ReadIsFresh, VibranceRowTruthful, NothingToShow

LEMMA ShowKeeps == RowInv /\ Show => RowInv'
<1> SUFFICES ASSUME RowInv, Show PROVE RowInv'
  OBVIOUS
<1>1. service.available /\ seen >= 0 /\ refresh = "read"
  BY DEF Show, NothingToShow, RowInv, RowTypeOK
<1>2. row' \in RowType /\ row'.enabled
         /\ (IF m_draggingVibrance THEN row' = row ELSE row'.pos = seen)
  <2>1. CASE m_draggingVibrance
    BY <2>1 DEF Show, RowInv, RowTypeOK, ProbedFirst
  <2>2. CASE ~m_draggingVibrance
    <3>1. row' = [text |-> "number", pos |-> seen, enabled |-> TRUE] /\ seen \in Int
      BY <2>2 DEF Show, RowInv, RowTypeOK
    <3> QED
      BY <3>1, <2>2 DEF RowType, Texts
  <2> QED
    BY <2>1, <2>2
<1> QED
  BY <1>1, <1>2 DEF Show, RowInv, RowTypeOK, vibranceVars, UsableOrGone, ProbedFirst,
                    ReadIsFresh, VibranceRowTruthful

LEMMA SlideKeeps == RowInv /\ Slide => RowInv'
<1> SUFFICES ASSUME RowInv, Slide PROVE RowInv'
  OBVIOUS
<1> USE DEF RowInv, RowTypeOK
<1>1. PICK pos \in SliderRange :
        /\ row' = [row EXCEPT !.pos = pos, !.text = "number"]
        /\ SetLevel(pos)
  BY DEF Slide
<1>2. pos \in Int /\ pos \in service.range[1] .. service.range[2]
  BY DEF SliderRange, ServiceType, Ranges
<1>3. row' \in RowType /\ row'.pos = pos /\ row'.enabled = row.enabled
  BY <1>1, <1>2 DEF RowType, Texts
<1>4. /\ service' \in ServiceType /\ driver' \in DriverType /\ UsableOrGone'
      /\ service'.available => driver'.asked = pos
  BY <1>1, <1>2, SetLevelUsable
<1> QED
  BY <1>3, <1>4 DEF Slide, ProbedFirst, ReadIsFresh, VibranceRowTruthful

LEMMA OutsideKeeps == RowInv /\ Outside => RowInv'
<1> SUFFICES ASSUME RowInv, Outside PROVE RowInv'
  OBVIOUS
<1>1. driver' \in DriverType /\ driver'.asked = driver.asked
         /\ driver'.initialized = driver.initialized
  BY DEF Outside, LevelChanges, RowInv, RowTypeOK, DriverType, ServiceType, Ranges
<1> QED
  BY <1>1 DEF Outside, LevelChanges, RowInv, RowTypeOK, UsableOrGone, ProbedFirst,
              ReadIsFresh, VibranceRowTruthful, NothingToShow

LEMMA GoesKeeps == RowInv /\ ServiceGoes => RowInv'
<1> SUFFICES ASSUME RowInv, ServiceGoes PROVE RowInv'
  OBVIOUS
<1>1. service' = Released(service) /\ driver' \in Unloaded(service, driver)
  BY DEF ServiceGoes
<1>2. /\ service' \in ServiceType /\ driver' \in DriverType
      /\ UsableOrGone' /\ ~service'.available
  BY <1>1, ReleasedUsable, UnloadedDriver DEF RowInv, RowTypeOK, UsableOrGone
<1> QED
  BY <1>2 DEF ServiceGoes, RowInv, RowTypeOK, ProbedFirst, ReadIsFresh,
              VibranceRowTruthful

LEMMA RowStutters == RowInv /\ UNCHANGED rowSystemVars => RowInv'
BY DEF rowSystemVars, vibranceVars, rowVars, RowInv, RowTypeOK, UsableOrGone,
       ProbedFirst, ReadIsFresh, VibranceRowTruthful, NothingToShow

THEOREM RowInvariant == RowSpec => []RowInv
<1>1. RowInv /\ [RowNext]_rowSystemVars => RowInv'
  BY LoadKeeps, ReadKeeps, DisableKeeps, ExplainKeeps, ShowKeeps, SlideKeeps,
     OutsideKeeps, GoesKeeps, RowStutters DEF RowNext
<1> QED
  BY RowInitInv, <1>1, PTL DEF RowSpec

(* Whatever faults and whenever, the interface is usable as a whole or     *)
(* gone as a whole (VibranceService.cpp:53-62, 168-232).                   *)
THEOREM InterfaceUsableOrGone == RowSpec => []UsableOrGone
<1>1. RowInv => UsableOrGone
  BY DEF RowInv
<1> QED
  BY RowInvariant, <1>1, PTL

(* After a refresh the row says what the driver did; a dragged slider      *)
(* stands where the driver was asked to go (SettingsDialog.cpp:222-241,    *)
(* 408-413, 548-567).                                                      *)
THEOREM RowTellsTheTruth == RowSpec => []VibranceRowTruthful
<1>1. RowInv => VibranceRowTruthful
  BY DEF RowInv
<1> QED
  BY RowInvariant, <1>1, PTL

-----------------------------------------------------------------------------
(* The preferences.  LastSaveSurvives is not inductive: the rename makes *)
(* the temporary file the settings file, so what the temporary file holds *)
(* just before it has to be known.  StoreIInv adds that, and that what a *)
(* launch would find is valid data, which the way to the file and back   *)
(* keeps.                                                                *)

StoreIInv ==
    /\ TypeOK
    /\ LastSaveSurvives
    /\ Restored(file) \in SettingsData
    /\ phase = "move" => tmp = Holding(SerializeData(m_data))

\* The width of an int is what the initial data and the casts need.
LEMMA IntsHold ==
    /\ IntMax \in Int /\ IntMax >= 100 /\ CastOverflow \in Ints
    /\ Defaults \in SettingsData
    /\ \A n \in Int : CastToInt(n) \in Ints
<1>1. IntMax \in Int /\ IntMax >= 100 /\ CastOverflow \in Ints
  BY StoreAssumption
<1>2. Defaults \in SettingsData BY <1>1 DEF Defaults, SettingsData, Ints
<1>3. \A n \in Int : CastToInt(n) \in Ints BY <1>1 DEF CastToInt
<1>4. QED BY <1>1, <1>2, <1>3

\* What the program runs with is valid data too.
LEMMA AppliedType ==
    /\ \A d \in SettingsData : Applied(d) \in SettingsData
    /\ Applied(Defaults) = Defaults
<1>1. ASSUME NEW d \in SettingsData PROVE Applied(d) \in SettingsData
  <2>1. d.scrollStep \in Int BY IntsHold DEF SettingsData, Ints
  <2>2. d.scrollStep < 1 => 1 \in 1 .. IntMax BY IntsHold
  <2>3. QED BY <2>1, <2>2 DEF Applied, SettingsData
<1>2. Applied(Defaults) = Defaults BY DEF Applied, Defaults
<1>3. QED BY <1>1, <1>2

\* What Load makes of an initial file is always valid data.
LEMMA RestoredType ==
    ASSUME NEW f \in InitialFiles
    PROVE  /\ f.kind \in {"absent", "torn", "object"}
           /\ Restored(f) \in SettingsData
<1>1. Defaults \in SettingsData BY IntsHold
<1>2. CASE f \in {Absent, Torn}
  BY <1>1, <1>2 DEF Absent, Torn, Restored
<1>3. CASE f \notin {Absent, Torn}
  <2>1. f = Holding(f.object) /\ f.object \in [DOMAIN f.object -> Values]
    BY <1>3, StoreAssumption
  <2>2. f.kind = "object" BY <2>1 DEF Holding
  <2>3. \A key \in DOMAIN f.object :
          /\ f.object[key].type = "number" => f.object[key].value \in Int
          /\ f.object[key].type = "bool" => f.object[key].value \in BOOLEAN
    BY <2>1 DEF Values, Other
  <2>4. /\ AsNumber(f.object, "scrollStep") \in Int
        /\ AsNumber(f.object, "scope") \in Int
        /\ AsNumber(f.object, "last") \in Int
        /\ AsBool(f.object, "enabled") \in BOOLEAN
    <3>1. /\ Defaults["scrollStep"] \in Int /\ Defaults["scope"] \in Int
          /\ Defaults["last"] \in Int /\ Defaults["enabled"] \in BOOLEAN
      BY DEF Defaults
    <3>2. /\ AsNumber(f.object, "scrollStep") \in Int
          /\ AsNumber(f.object, "scope") \in Int
          /\ AsNumber(f.object, "last") \in Int
      BY <2>3, <3>1 DEF AsNumber
    <3>3. AsBool(f.object, "enabled") \in BOOLEAN
      BY <2>3, <3>1 DEF AsBool
    <3>4. QED BY <3>2, <3>3
  <2>5. ASSUME NEW n \in Int, n >= 1
        PROVE  CastToInt(n) \in (1 .. IntMax) \cup {CastOverflow}
    BY <2>5, IntsHold DEF CastToInt, Ints
  <2>6. DeserializeData(f.object) \in SettingsData
    <3>1. (IF AsNumber(f.object, "scrollStep") >= 1
           THEN CastToInt(AsNumber(f.object, "scrollStep")) ELSE 1)
             \in (1 .. IntMax) \cup {CastOverflow}
      BY <2>4, <2>5, IntsHold
    <3>2. CastToInt(AsNumber(f.object, "scope")) \in Ints BY <2>4, IntsHold
    <3>3. QED BY <2>4, <3>1, <3>2 DEF DeserializeData, SettingsData
  <2>7. QED BY <2>2, <2>6 DEF Restored
<1>4. QED BY <1>2, <1>3

\* Valid data survives the way to the file and back, a step below 1 as the 1
\* it is applied as (Settings.cpp:11-65).
LEMMA DataIsReadBack ==
    ASSUME NEW d \in SettingsData
    PROVE  /\ Restored(Holding(SerializeData(d))) \in SettingsData
           /\ Applied(Restored(Holding(SerializeData(d)))) = Applied(d)
<1> DEFINE o == SerializeData(d)
<1>1. /\ AsBool(o, "enabled") = d.enabled
      /\ AsNumber(o, "scrollStep") = d.scrollStep
      /\ AsNumber(o, "scope") = d.scope
      /\ AsNumber(o, "last") = d.last
  BY DEF SerializeData, AsBool, AsNumber, Num, Flag
<1>2. d.scrollStep \in Ints /\ d.scope \in Ints /\ d.last \in -1 .. 100
  BY IntsHold DEF SettingsData, Ints
<1>3. CastToInt(d.scrollStep) = d.scrollStep /\ CastToInt(d.scope) = d.scope
  BY <1>2 DEF CastToInt
<1>4. DeserializeData(o) =
        [enabled |-> d.enabled,
         scrollStep |-> IF d.scrollStep >= 1 THEN d.scrollStep ELSE 1,
         scope |-> d.scope, last |-> d.last]
  <2> HIDE DEF o
  <2> QED BY <1>1, <1>2, <1>3 DEF DeserializeData
<1>5. d = [enabled |-> d.enabled, scrollStep |-> d.scrollStep,
           scope |-> d.scope, last |-> d.last]
  BY DEF SettingsData
<1>6. d.scrollStep \in Int BY <1>2, IntsHold DEF Ints
<1>7. Applied(DeserializeData(o)) = Applied(d)
  <2>1. CASE d.scrollStep >= 1
    BY <1>4, <1>5, <2>1
  <2>2. CASE d.scrollStep < 1
    <3>1. Applied(d) = [enabled |-> d.enabled, scrollStep |-> 1,
                        scope |-> d.scope, last |-> d.last]
      BY <1>5, <2>2 DEF Applied
    <3>2. DeserializeData(o) = Applied(d) BY <1>4, <1>6, <2>2, <3>1
    <3>3. Applied(Applied(d)) = Applied(d) BY <3>1 DEF Applied
    <3>4. QED BY <3>2, <3>3
  <2>3. QED BY <1>6, <2>1, <2>2
<1>8. DeserializeData(o) \in SettingsData
  BY <1>4, <1>6, IntsHold DEF SettingsData
<1>9. QED BY <1>7, <1>8 DEF Restored, Holding

LEMMA StoreInit == Init => StoreIInv
<1> SUFFICES ASSUME Init PROVE StoreIInv OBVIOUS
<1>1. Defaults \in SettingsData BY IntsHold
<1>2. /\ file.kind \in {"absent", "torn", "object"} /\ saved \in SettingsData
      /\ Restored(file) \in SettingsData
  BY RestoredType DEF Init
<1>3. QED BY <1>1, <1>2 DEF Init, StoreIInv, TypeOK, LastSaveSurvives, Absent

LEMMA StoreStep == StoreIInv /\ [Next]_vars => StoreIInv'
<1> SUFFICES ASSUME StoreIInv, [Next]_vars PROVE StoreIInv' OBVIOUS
<1> USE DEF StoreIInv, LastSaveSurvives
<1>0. Defaults \in SettingsData BY IntsHold
<1>1. CASE Load
  <2>1. m_data' \in SettingsData BY <1>0, <1>1 DEF Load, TypeOK
  <2>2. QED BY <2>1, <1>1 DEF Load, TypeOK
<1>2. CASE ChangeAndSave
  <2>1. m_data' \in SettingsData
    BY <1>2, StoreAssumption DEF ChangeAndSave, TypeOK, SettingsData
  <2>2. QED BY <2>1, <1>2 DEF ChangeAndSave, Running, TypeOK
<1>3. CASE MarkDirty
  <2>1. m_data' \in SettingsData
    BY <1>3, StoreAssumption DEF MarkDirty, TypeOK, SettingsData
  <2>2. QED BY <2>1, <1>3 DEF MarkDirty, Running, TypeOK
<1>4. CASE Hide
  BY <1>4 DEF Hide, Running, TypeOK
<1>5. CASE Exit
  BY <1>5 DEF Exit, Running, TypeOK
<1>6. CASE Destructor
  BY <1>0, <1>6 DEF Destructor, Destroyed, TypeOK
<1>7. CASE SaveFails /\ tmp'.kind \in {"absent", "torn", "object"}
  BY <1>0, <1>7 DEF SaveFails, Destroyed, TypeOK
<1>8. CASE OpenTemp
  <2>1. CASE SaveFails /\ UNCHANGED tmp BY <2>1, <1>7 DEF TypeOK
  <2>2. CASE tmp' = Torn /\ phase' = "write"
               /\ UNCHANGED <<file, m_data, m_dirty, exiting, saved>>
    BY <1>8, <2>2 DEF OpenTemp, TypeOK, Torn
  <2>3. QED BY <1>8, <2>1, <2>2 DEF OpenTemp
<1>9. CASE WriteTemp
  <2>1. CASE SaveFails /\ tmp' \in {Absent, Torn}
    BY <2>1, <1>7 DEF Absent, Torn
  <2>2. CASE tmp' = Holding(SerializeData(m_data)) /\ phase' = "move"
               /\ UNCHANGED <<file, m_data, m_dirty, exiting, saved>>
    <3>1. tmp'.kind = "object" BY <2>2 DEF Holding
    <3>2. QED BY <1>9, <2>2, <3>1 DEF WriteTemp, TypeOK
  <2>3. QED BY <1>9, <2>1, <2>2 DEF WriteTemp
<1>10. CASE Move
  <2>1. CASE SaveFails /\ tmp' \in {Absent, tmp}
    BY <2>1, <1>7 DEF Absent, TypeOK
  <2>2. CASE /\ file' = tmp /\ saved' = m_data /\ tmp' = Absent
             /\ m_dirty' = FALSE
             /\ Destroyed
             /\ IF phase' = "down" THEN m_data' = Defaults
                                   ELSE UNCHANGED m_data
    <3>1. /\ Applied(Restored(file')) = Applied(saved')
          /\ Restored(file') \in SettingsData
      BY <1>10, <2>2, DataIsReadBack DEF Move, TypeOK
    <3>2. m_data' \in SettingsData BY <1>0, <2>2 DEF TypeOK
    <3>3. phase' \in {"idle", "down"}
            /\ exiting' \in {"no", "SettingsDialog"}
            /\ (phase' = "down" => exiting' = "no")
      BY <2>2 DEF Destroyed
    <3>4. file'.kind \in {"absent", "torn", "object"} /\ tmp'.kind = "absent"
      BY <2>2 DEF TypeOK, Absent
    <3>5. QED BY <2>2, <3>1, <3>2, <3>3, <3>4 DEF TypeOK
  <2>3. QED BY <1>10, <2>1, <2>2 DEF Move
<1>11. CASE Crash
  BY <1>0, <1>11 DEF Crash, TypeOK
<1>12. CASE UNCHANGED vars
  BY <1>12 DEF vars, TypeOK
<1>13. QED
  BY <1>1, <1>2, <1>3, <1>4, <1>5, <1>6, <1>8, <1>9, <1>10, <1>11, <1>12
  DEF Next, Save

LEMMA StoreInv == Spec => []StoreIInv
BY StoreInit, StoreStep, PTL DEF Spec

(* Whatever file the program meets, the data in memory is typed: memories *)
(* of 0 to 100 or "never", a scope that is an int, and a step of at least  *)
(* 1, or what the cast makes of one beyond int (Settings.cpp:30-65).       *)
THEOREM StoreTypeCorrect == Spec => []TypeOK
<1>1. StoreIInv => TypeOK BY DEF StoreIInv
<1>2. QED BY <1>1, StoreInv, PTL

(* The next launch runs with what the last successful Save wrote, wherever the *)
(* process died and whichever of its calls failed (Paths.cpp:123-148).   *)
THEOREM SettingsSurvive == Spec => []LastSaveSurvives
<1>1. StoreIInv => LastSaveSurvives BY DEF StoreIInv
<1>2. QED BY <1>1, StoreInv, PTL

-----------------------------------------------------------------------------
(* Every step is a step of AtomicSettings or leaves its variables alone. *)

StoreAction == Atomic!AtomicNext \/ UNCHANGED Atomic!atomicVars

LEMMA AtomicStart == Init => Atomic!AtomicInit
<1> SUFFICES ASSUME Init PROVE Atomic!AtomicInit OBVIOUS
<1>1. Applied(Restored(file)) \in SettingsData
  BY RestoredType, AppliedType DEF Init
<1>2. QED BY <1>1, AppliedType DEF Init, Atomic!AtomicInit

\* The end of a destructor's save without a commit: the process lives, or ends.
LEMMA WithoutCommit ==
    ASSUME TypeOK, phase # "down", UNCHANGED file,
           IF phase' = "down" THEN m_data' = Defaults /\ m_dirty' = FALSE
                              ELSE UNCHANGED <<m_data, m_dirty>>
    PROVE  StoreAction
<1>1. CASE phase' = "down"
  BY <1>1, AppliedType DEF StoreAction, Atomic!AtomicNext, Atomic!End, Atomic!Gone
<1>2. CASE phase' # "down"
  BY <1>2 DEF StoreAction, Atomic!atomicVars
<1>3. QED BY <1>1, <1>2

LEMMA AtomicStep == StoreIInv /\ [Next]_vars => StoreAction
<1> SUFFICES ASSUME StoreIInv, [Next]_vars PROVE StoreAction OBVIOUS
<1>0. TypeOK BY DEF StoreIInv
<1>1. CASE Load
  BY <1>1, AppliedType DEF Load, StoreAction, Atomic!AtomicNext, Atomic!Launch
<1>2. CASE ChangeAndSave
  <2>1. m_data' \in SettingsData
    BY <1>0, <1>2, StoreAssumption DEF ChangeAndSave, TypeOK, SettingsData
  <2>2. QED
    BY <2>1, <1>2, AppliedType DEF ChangeAndSave, Running, StoreAction, Atomic!AtomicNext,
                      Atomic!Change
<1>3. CASE MarkDirty
  <2>1. m_data' \in SettingsData
    BY <1>0, <1>3, StoreAssumption DEF MarkDirty, TypeOK, SettingsData
  <2>2. QED
    BY <2>1, <1>3, AppliedType DEF MarkDirty, Running, StoreAction, Atomic!AtomicNext, Atomic!Change
<1>4. CASE Hide \/ Exit
  BY <1>4 DEF Hide, Exit, Running, StoreAction, Atomic!atomicVars
<1>5. CASE Destructor
  <2>1. phase # "down" /\ UNCHANGED file BY <1>5 DEF Destructor
  <2>2. phase' = "down" => m_data' = Defaults /\ m_dirty' = FALSE
    BY <1>0, <1>5 DEF Destructor, Destroyed, TypeOK
  <2>3. phase' # "down" => UNCHANGED <<m_data, m_dirty>>
    BY <1>5 DEF Destructor
  <2>4. QED BY <1>0, <2>1, <2>2, <2>3, WithoutCommit
<1>6. CASE SaveFails /\ phase # "down"
  BY <1>0, <1>6, WithoutCommit DEF SaveFails
<1>7. CASE OpenTemp \/ WriteTemp
  BY <1>6, <1>7 DEF OpenTemp, WriteTemp, StoreAction, Atomic!atomicVars
<1>8. CASE Move
  <2>1. CASE SaveFails BY <1>6, <1>8, <2>1 DEF Move
  <2>2. CASE ~SaveFails
    <3>1. /\ file' = tmp /\ m_dirty' = FALSE
          /\ phase' = "down" => m_data' = Defaults
          /\ phase' # "down" => UNCHANGED m_data
      BY <1>8, <2>2 DEF Move
    <3>2. Applied(Restored(file')) = Applied(m_data)
      BY <1>8, <3>1, DataIsReadBack DEF Move, StoreIInv, TypeOK
    <3>3. Applied(Restored(file))' = Applied(m_data) BY <3>2
    <3>4. phase # "down" BY <1>8 DEF Move
    <3>5. QED
      BY <3>1, <3>3, <3>4, AppliedType
      DEF StoreAction, Atomic!AtomicNext, Atomic!Commit, Atomic!Gone
  <2>3. QED BY <2>1, <2>2
<1>9. CASE Crash
  BY <1>9, AppliedType DEF Crash, StoreAction, Atomic!AtomicNext, Atomic!End, Atomic!Gone
<1>10. CASE UNCHANGED vars
  BY <1>10 DEF vars, StoreAction, Atomic!atomicVars
<1>11. QED
  BY <1>1, <1>2, <1>3, <1>4, <1>5, <1>7, <1>8, <1>9, <1>10 DEF Next, Save

(* A save replaces what a launch would find by the data in memory at one *)
(* instant or not at all, and the dirty flag is given up only then or with *)
(* the process, whichever call fails and wherever it dies                *)
(* (Paths.cpp:123-148, Settings.cpp:67-105, App.cpp:27-29).              *)
THEOREM StoreIsAtomic == Spec => ImplementsAtomic
<1>1. [][Next]_vars /\ []StoreIInv => [][Atomic!AtomicNext]_(Atomic!atomicVars)
  BY AtomicStep, PTL DEF StoreAction
<1>2. QED
  BY <1>1, AtomicStart, StoreInv, PTL
  DEF Spec, ImplementsAtomic, Atomic!AtomicSpec

==============================================================================
