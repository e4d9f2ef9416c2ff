----------------------------- MODULE DialogProofs -----------------------------
(***************************************************************************)
(* The settings window is right whenever no handler is at work, for every  *)
(* instance: any rows, any enumerations, any saved scope.                  *)
(*                                                                         *)
(* The properties speak of moments between handlers, so the invariants say *)
(* what holds in the middle of one, by what it has still to do.            *)
(***************************************************************************)
EXTENDS SettingsDialog, TLAPS, FiniteSetTheorems, SequenceTheorems

Channel == [param : Params, monitorIndex : Nat, current : Percent]

ViewOK ==
    /\ m_started \in BOOLEAN /\ m_ready \in BOOLEAN
    /\ m_channels \in Seq(Channel)
    /\ m_scope \in Int /\ m_scrollStep \in Int
    /\ listed \in Nat /\ stage \in {"idle", "refreshing", "building"}

-----------------------------------------------------------------------------
(* What a handler has still to do.                                         *)

Combo == {"reset", "list", "select"}
Plain == {"ask", "arm", "show"}

Asked(s, p) == \E i \in DOMAIN s : s[i][1] = "ask" /\ s[i][2] = p
Shows(s) == \E i \in DOMAIN s : s[i][1] = "show"

TaskType == { <<name>> : name \in {"reset", "list", "select", "arm", "show"} }
              \cup ({"ask", "show value", "end drag"} \X Rows)
PlainTask == { <<name>> : name \in {"arm", "show"} } \cup ({"ask"} \X Rows)

\* The list first and in its order, then every row; what follows an ask is first.
WellFormed(s) ==
    /\ s \in Seq(TaskType)
    /\ \A i \in DOMAIN s : i > 2 => s[i][1] \in Plain
    /\ s # <<>> /\ s[1][1] = "reset" => Len(s) > 1 /\ s[2][1] = "list"
    /\ s # <<>> /\ s[1][1] # "reset" /\ Len(s) > 1 => s[2][1] \in Plain
    /\ s # <<>> /\ s[1][1] \in Combo => \A p \in Rows : Asked(s, p)

TodoOK == WellFormed(todo)

\* Before the window is made nothing is done to it.
MadeInv ==
    /\ dialog = "none" =>
          todo = <<>> /\ entries = 0 /\ selected = -1 /\ ~detectTimer
    /\ ~m_started => dialog = "none"

TypeInv == ViewOK /\ TypeOK /\ TodoOK /\ MadeInv

-----------------------------------------------------------------------------
(* The scope list.                                                         *)

Entry(scope) == IF scope < 0 THEN 0 ELSE scope + 1

InSync == selected = Entry(m_scope) \/ (selected = -1 /\ entries = 0)

SyncInv ==
    /\ m_started => savedScope = m_scope
    /\ IF Task("list") \/ Task("select")
       THEN selected = -1 /\ previous \in {-1, Entry(m_scope)}
       ELSE InSync

WalkInv ==
    posted = 0 /\ stage = "idle" /\ dialog # "none" =>
        /\ Task("list") => entries <= listed
        /\ Task("select") => entries = listed
        /\ ~Task("reset") /\ ~Task("list") /\ ~Task("select") =>
              entries = listed /\ (m_scope < listed \/ listed = 0)

ScopeInv == TypeInv /\ SyncInv /\ WalkInv

-----------------------------------------------------------------------------
(* The rows.                                                               *)

Answered(p) == m_ready /\ SupportsParam(p, m_scope) /\ row[p].enabled

\* The value asked for next.
AtValue(p) == Task("show value") /\ Head(todo)[2] = p

Good(p) == IF m_dragging[p] \/ AtValue(p) THEN Answered(p) ELSE Truthful(p)

\* A drag is cut short only for a row that is shown nowhere in the scope.
GrayInv ==
    posted = 0 /\ Task("end drag") => ~SupportsParam(Head(todo)[2], m_scope)

TruthInv ==
    posted = 0 /\ (dialog = "shown" \/ Shows(todo)) =>
        \A p \in Rows : Asked(todo, p) \/ Good(p)

-----------------------------------------------------------------------------
(* Sequences of tasks.                                                     *)

LEMMA SeqDomain ==
    ASSUME NEW S, NEW s \in Seq(S)
    PROVE  DOMAIN s = 1 .. Len(s) /\ Len(s) \in Nat
OBVIOUS

LEMMA TaskNames ==
    ASSUME NEW t \in TaskType
    PROVE  /\ t[1] \in Combo \cup Plain \cup {"show value", "end drag"}
           /\ t[1] \in {"ask", "show value", "end drag"} => t[2] \in Rows
<1>1. CASE t \in {"ask", "show value", "end drag"} \X Rows
  BY <1>1 DEF Combo, Plain
<1>2. CASE t \in { <<name>> : name \in {"reset", "list", "select", "arm", "show"} }
  <2>1. PICK name \in {"reset", "list", "select", "arm", "show"} : t = <<name>>
    BY <1>2
  <2>2. t[1] = name BY <2>1
  <2>3. QED BY <2>1, <2>2 DEF Combo, Plain
<1>3. QED BY <1>1, <1>2 DEF TaskType

LEMMA PlainNames ==
    ASSUME NEW t \in PlainTask PROVE t \in TaskType /\ t[1] \in Plain
<1>1. CASE t \in {"ask"} \X Rows BY <1>1 DEF TaskType, Plain
<1>2. CASE t \in { <<name>> : name \in {"arm", "show"} }
  <2>1. PICK name \in {"arm", "show"} : t = <<name>> BY <1>2
  <2>2. t[1] = name BY <2>1
  <2>3. QED BY <2>1, <2>2 DEF TaskType, Plain
<1>3. QED BY <1>1, <1>2 DEF PlainTask

LEMMA PlainWellFormed ==
    ASSUME NEW s \in Seq(PlainTask) PROVE WellFormed(s)
<1>1. \A i \in DOMAIN s : s[i] \in TaskType /\ s[i][1] \in Plain
  BY PlainNames
<1>2. s \in Seq(TaskType)
  BY <1>1
<1>3. s # <<>> => s[1][1] \in Plain
  BY <1>1
<1>4. QED BY <1>1, <1>2, <1>3 DEF WellFormed, Plain, Combo

LEMMA RowsAsked ==
    /\ RefreshRows \in Seq(PlainTask)
    /\ \A p \in Rows : Asked(RefreshRows, p)
<1>1. DOMAIN kRows = 1 .. Len(kRows) /\ Len(kRows) \in Nat
  BY DialogAssumption
<1>2. \A k \in DOMAIN kRows : <<"ask", kRows[k]>> \in PlainTask
  BY DEF PlainTask, Rows
<1>3. RefreshRows \in Seq(PlainTask)
  BY <1>1, <1>2 DEF RefreshRows, RowTasks
<1>4. ASSUME NEW p \in Rows PROVE Asked(RefreshRows, p)
  <2>1. PICK k \in DOMAIN kRows : kRows[k] = p BY DEF Rows
  <2>2. k \in DOMAIN RefreshRows /\ RefreshRows[k] = <<"ask", p>>
    BY <2>1 DEF RefreshRows, RowTasks
  <2>3. QED BY <2>2 DEF Asked
<1>5. QED BY <1>3, <1>4

LEMMA AskedJoin ==
    ASSUME NEW S, NEW s \in Seq(S), NEW t \in Seq(S), NEW p,
           Asked(s, p) \/ Asked(t, p)
    PROVE  Asked(s \o t, p)
<1>1. CASE Asked(s, p)
  <2>1. PICK i \in DOMAIN s : s[i][1] = "ask" /\ s[i][2] = p
    BY <1>1 DEF Asked
  <2>2. i \in DOMAIN (s \o t) /\ (s \o t)[i] = s[i] BY <2>1
  <2>3. QED BY <2>1, <2>2 DEF Asked
<1>2. CASE Asked(t, p)
  <2>1. PICK i \in DOMAIN t : t[i][1] = "ask" /\ t[i][2] = p
    BY <1>2 DEF Asked
  <2>2. i + Len(s) \in DOMAIN (s \o t) /\ (s \o t)[i + Len(s)] = t[i]
    BY <2>1
  <2>3. QED BY <2>1, <2>2 DEF Asked
<1>3. QED BY <1>1, <1>2

LEMMA ComboWellFormed ==
    ASSUME NEW s \in Seq(PlainTask), \A p \in Rows : Asked(s, p)
    PROVE  /\ WellFormed(RefreshScopeCombo \o s)
           /\ RefreshScopeCombo \o s # <<>>
           /\ (RefreshScopeCombo \o s)[1][1] = "reset"
           /\ \A p \in Rows : Asked(RefreshScopeCombo \o s, p)
<1> DEFINE c == RefreshScopeCombo \o s
<1>1. \A i \in DOMAIN s : s[i] \in TaskType /\ s[i][1] \in Plain
  BY PlainNames
<1>2. RefreshScopeCombo \in Seq(TaskType) /\ Len(RefreshScopeCombo) = 2
  BY DEF RefreshScopeCombo, TaskType
<1>3. s \in Seq(TaskType) BY <1>1
<1>4. /\ c \in Seq(TaskType) /\ Len(c) = 2 + Len(s)
      /\ c[1] = <<"reset">> /\ c[2] = <<"list">>
      /\ \A i \in DOMAIN c : i > 2 => i - 2 \in DOMAIN s /\ c[i] = s[i - 2]
  BY <1>2, <1>3 DEF RefreshScopeCombo
<1>5. \A p \in Rows : Asked(c, p) BY <1>2, <1>3, AskedJoin
<1> HIDE DEF c
<1>6. WellFormed(c) BY <1>1, <1>4, <1>5 DEF WellFormed, Plain, Combo
<1>7. QED BY <1>4, <1>5, <1>6 DEF c

\* The head is done: the rest moves up.
LEMMA DropHead ==
    ASSUME TodoOK, todo # <<>>, Then(<<>>)
    PROVE  /\ todo' \in Seq(TaskType) /\ Len(todo') = Len(todo) - 1
           /\ \A i \in DOMAIN todo' : i + 1 \in DOMAIN todo /\ todo'[i] = todo[i + 1]
<1>1. todo \in Seq(TaskType) BY DEF TodoOK, WellFormed
<1>2. todo' = <<>> \o Tail(todo) BY DEF Then
<1>3. Tail(todo) \in Seq(TaskType) BY <1>1
<1>4. todo' = Tail(todo) BY <1>2, <1>3
<1>5. QED BY <1>1, <1>4

LEMMA SwapHead ==
    ASSUME TodoOK, todo # <<>>, NEW task \in TaskType, Then(<<task>>)
    PROVE  /\ todo' \in Seq(TaskType) /\ Len(todo') = Len(todo)
           /\ todo'[1] = task
           /\ \A i \in DOMAIN todo : i > 1 => todo'[i] = todo[i]
<1>1. todo \in Seq(TaskType) BY DEF TodoOK, WellFormed
<1>2. todo' = <<task>> \o Tail(todo) BY DEF Then
<1>3. Tail(todo) \in Seq(TaskType) /\ Len(Tail(todo)) = Len(todo) - 1
  BY <1>1
<1>4. <<task>> \in Seq(TaskType) /\ Len(<<task>>) = 1 /\ <<task>>[1] = task
  OBVIOUS
<1>5. QED BY <1>1, <1>2, <1>3, <1>4

LEMMA HeadTask ==
    ASSUME TodoOK, todo # <<>>
    PROVE  /\ Head(todo) = todo[1] /\ 1 \in DOMAIN todo /\ todo[1] \in TaskType
           /\ Len(todo) \in Nat \ {0} /\ DOMAIN todo = 1 .. Len(todo)
<1>1. todo \in Seq(TaskType) BY DEF TodoOK, WellFormed
<1>2. QED BY <1>1

LEMMA DropWellFormed ==
    ASSUME TodoOK, todo # <<>>, Then(<<>>)
    PROVE  /\ TodoOK'
           /\ todo' # <<>> => IF todo[1][1] = "reset" THEN todo'[1][1] = "list"
                              ELSE todo'[1][1] \in Plain
           /\ todo[1][1] = "reset" => todo' # <<>>
           /\ \A p : Asked(todo, p) /\ ~(todo[1][1] = "ask" /\ todo[1][2] = p)
                        => Asked(todo', p)
           /\ Shows(todo') => Shows(todo)
<1>1. /\ todo' \in Seq(TaskType) /\ Len(todo') = Len(todo) - 1
      /\ \A i \in DOMAIN todo' : i + 1 \in DOMAIN todo /\ todo'[i] = todo[i + 1]
      /\ DOMAIN todo' = 1 .. Len(todo') /\ Len(todo') \in Nat
  <2>1. todo' \in Seq(TaskType) BY DropHead
  <2>2. QED BY <2>1, DropHead
<1>2. /\ Len(todo) \in Nat \ {0} /\ DOMAIN todo = 1 .. Len(todo)
      /\ todo[1] \in TaskType
  BY HeadTask
<1>3. /\ \A i \in DOMAIN todo : i > 2 => todo[i][1] \in Plain
      /\ todo[1][1] = "reset" => Len(todo) > 1 /\ todo[2][1] = "list"
      /\ todo[1][1] # "reset" /\ Len(todo) > 1 => todo[2][1] \in Plain
      /\ todo[1][1] \in Combo => \A p \in Rows : Asked(todo, p)
  BY DEF TodoOK, WellFormed
<1>4. ASSUME NEW p, Asked(todo, p), ~(todo[1][1] = "ask" /\ todo[1][2] = p)
      PROVE  Asked(todo', p)
  <2>1. PICK i \in DOMAIN todo : todo[i][1] = "ask" /\ todo[i][2] = p
    BY <1>4 DEF Asked
  <2>2. i # 1 BY <1>4, <2>1
  <2>3. i - 1 \in DOMAIN todo' /\ todo'[i - 1] = todo[i]
    BY <1>1, <1>2, <2>1, <2>2
  <2>4. QED BY <2>1, <2>3 DEF Asked
<1>5. Shows(todo') => Shows(todo) BY <1>1 DEF Shows
<1>6. todo[1][1] = "reset" => todo' # <<>> /\ todo'[1][1] = "list"
  BY <1>1, <1>2, <1>3
<1>7. todo' # <<>> /\ todo[1][1] # "reset" => todo'[1][1] \in Plain
  BY <1>1, <1>2, <1>3
<1>8. todo' # <<>> /\ todo'[1][1] \in Combo => \A p \in Rows : Asked(todo', p)
  BY <1>3, <1>4, <1>7 DEF Combo, Plain
<1>9. \A i \in DOMAIN todo' : i > 1 => todo'[i][1] \in Plain
  BY <1>1, <1>2, <1>3
<1>10. /\ \A i \in DOMAIN todo' : i > 2 => todo'[i][1] \in Plain
       /\ Len(todo') > 1 => todo'[2][1] \in Plain
       /\ todo' # <<>> => todo'[1][1] # "reset"
  BY <1>1, <1>6, <1>7, <1>9 DEF Plain
<1>11. TodoOK' BY <1>1, <1>8, <1>10 DEF TodoOK, WellFormed
<1>12. QED BY <1>4, <1>5, <1>6, <1>7, <1>11

\* What a task may leave in its place.
Leads(task, next) ==
    \/ task[1] = "list" /\ next[1] = "select"
    \/ task[1] = "ask" /\ next[1] \in {"show value", "end drag"}

LEMMA SwapWellFormed ==
    ASSUME TodoOK, todo # <<>>, NEW task \in TaskType, Then(<<task>>),
           Leads(todo[1], task)
    PROVE  /\ TodoOK' /\ todo' # <<>> /\ todo'[1] = task
           /\ \A p : Asked(todo, p) /\ ~(todo[1][1] = "ask" /\ todo[1][2] = p)
                        => Asked(todo', p)
           /\ Shows(todo') => Shows(todo)
<1>1. /\ todo' \in Seq(TaskType) /\ Len(todo') = Len(todo) /\ todo'[1] = task
      /\ \A i \in DOMAIN todo : i # 1 => todo'[i] = todo[i]
      /\ DOMAIN todo' = DOMAIN todo
  <2>1. todo' \in Seq(TaskType) /\ Len(todo') = Len(todo) BY SwapHead
  <2>2. todo \in Seq(TaskType) BY DEF TodoOK, WellFormed
  <2>3. DOMAIN todo = 1 .. Len(todo) BY <2>2, SeqDomain, Zenon
  <2>4. DOMAIN todo' = 1 .. Len(todo') BY <2>1, SeqDomain, Zenon
  <2>5. \A i \in DOMAIN todo : i # 1 => i > 1
    <3>1. Len(todo) \in Nat BY <2>2, SeqDomain, Zenon
    <3>2. QED BY <2>3, <3>1
  <2>6. todo'[1] = task /\ \A i \in DOMAIN todo : i > 1 => todo'[i] = todo[i]
    BY SwapHead, Zenon
  <2>7. DOMAIN todo' = DOMAIN todo BY <2>1, <2>3, <2>4
  <2>8. QED BY <2>1, <2>5, <2>6, <2>7, Zenon
<1>2. /\ Len(todo) \in Nat \ {0} /\ DOMAIN todo = 1 .. Len(todo)
      /\ todo[1] \in TaskType
  BY HeadTask
<1>3. todo' # <<>> BY <1>1, <1>2
<1>4. ASSUME NEW p, Asked(todo, p), ~(todo[1][1] = "ask" /\ todo[1][2] = p)
      PROVE  Asked(todo', p)
  <2>1. PICK i \in DOMAIN todo : todo[i][1] = "ask" /\ todo[i][2] = p
    BY <1>4 DEF Asked
  <2>2. i # 1 BY <1>4, <2>1
  <2>3. todo'[i] = todo[i] /\ i \in DOMAIN todo' BY <1>1, <2>2, Zenon
  <2>4. QED BY <2>1, <2>3 DEF Asked
<1>5. Shows(todo') => Shows(todo)
  <2> SUFFICES ASSUME Shows(todo') PROVE Shows(todo) OBVIOUS
  <2>1. PICK i \in DOMAIN todo' : todo'[i][1] = "show" BY DEF Shows
  <2>2. i # 1 BY <1>1, <2>1 DEF Leads
  <2>3. todo[i] = todo'[i] /\ i \in DOMAIN todo BY <1>1, <2>2, Zenon
  <2>4. QED BY <2>1, <2>3 DEF Shows
<1>6. /\ \A i \in DOMAIN todo : i > 2 => todo[i][1] \in Plain
      /\ todo[1][1] # "reset" /\ Len(todo) > 1 => todo[2][1] \in Plain
      /\ todo[1][1] \in Combo => \A p \in Rows : Asked(todo, p)
  BY DEF TodoOK, WellFormed
<1>7. todo[1][1] # "reset" /\ todo'[1][1] # "reset" BY <1>1 DEF Leads
<1>8. \A i \in DOMAIN todo' : i > 1 => todo'[i][1] \in Plain
  <2> SUFFICES ASSUME NEW i \in DOMAIN todo', i > 1 PROVE todo'[i][1] \in Plain
    OBVIOUS
  <2>1. i \in DOMAIN todo /\ todo'[i] = todo[i]
    <3>1. i # 1 OBVIOUS
    <3>2. QED BY <1>1, <3>1, Zenon
  <2>2. i \in Nat /\ i <= Len(todo) BY <1>2, <2>1
  <2>3. CASE i > 2 BY <1>6, <2>1, <2>3
  <2>4. CASE i = 2 BY <1>2, <1>6, <1>7, <2>1, <2>2, <2>4
  <2>5. QED BY <2>2, <2>3, <2>4
<1>9. todo'[1][1] \in Combo => \A p \in Rows : Asked(todo', p)
  BY <1>1, <1>4, <1>6 DEF Combo, Leads
<1>10. 2 \in DOMAIN todo' <=> Len(todo') > 1 BY <1>1, <1>2
<1>11. TodoOK' BY <1>1, <1>7, <1>8, <1>9, <1>10 DEF TodoOK, WellFormed
<1>12. QED BY <1>1, <1>3, <1>4, <1>5, <1>11

\* The whole of what the window does to todo at the start of a handler.
LEMMA NewTodo ==
    /\ WellFormed(<<>>)
    /\ WellFormed(RefreshRows) /\ \A p \in Rows : Asked(RefreshRows, p)
    /\ RefreshRows # <<>> => RefreshRows[1][1] \in Plain
<1>1. RefreshRows \in Seq(PlainTask) /\ \A p \in Rows : Asked(RefreshRows, p)
  BY RowsAsked
<1>2. <<>> \in Seq(PlainTask) OBVIOUS
<1>3. WellFormed(<<>>) /\ WellFormed(RefreshRows)
  BY <1>1, <1>2, PlainWellFormed
<1>4. RefreshRows # <<>> => RefreshRows[1] \in PlainTask BY <1>1
<1>5. QED BY <1>1, <1>3, <1>4, PlainNames

LEMMA ShowTodo ==
    /\ RefreshAndShow \in Seq(PlainTask) /\ WellFormed(RefreshAndShow)
    /\ \A p \in Rows : Asked(RefreshAndShow, p)
    /\ RefreshAndShow # <<>> /\ RefreshAndShow[1][1] \in Plain
<1> DEFINE show == << <<"show">> >>
           s == RefreshRows \o show
<1>1. RefreshRows \in Seq(PlainTask) /\ \A p \in Rows : Asked(RefreshRows, p)
  BY RowsAsked
<1>2. <<"show">> \in PlainTask BY DEF PlainTask
<1>3. show \in Seq(PlainTask) /\ Len(show) = 1 BY <1>2
<1> HIDE DEF show
<1>4. s \in Seq(PlainTask) /\ Len(s) = Len(RefreshRows) + 1
  <2>1. RefreshRows \in Seq(PlainTask) BY <1>1
  <2>2. s \in Seq(PlainTask) /\ Len(s) = Len(RefreshRows) + Len(show)
    BY <1>3, <2>1, ConcatProperties
  <2>3. QED BY <1>3, <2>2
<1>5. \A p \in Rows : Asked(s, p) BY <1>1, <1>3, AskedJoin
<1>6. Len(RefreshRows) \in Nat BY <1>1
<1>7. s = RefreshAndShow BY DEF show, RefreshAndShow
<1> HIDE DEF s
<1>8. s # <<>> /\ s[1] \in PlainTask BY <1>4, <1>6
<1>9. QED BY <1>4, <1>5, <1>7, <1>8, PlainWellFormed, PlainNames

LEMMA ComboTodo ==
    ASSUME NEW s, s \in {RefreshScopeCombo \o RefreshRows, OnInitDialog(RefreshAndShow)}
    PROVE  /\ WellFormed(s) /\ s # <<>> /\ s[1][1] = "reset"
           /\ \A p \in Rows : Asked(s, p)
<1>1. RefreshRows \in Seq(PlainTask) /\ \A p \in Rows : Asked(RefreshRows, p)
  BY RowsAsked
<1>2. CASE s = RefreshScopeCombo \o RefreshRows
  BY <1>1, <1>2, ComboWellFormed
<1>3. CASE s = OnInitDialog(RefreshAndShow)
  <2> DEFINE arm == << <<"arm">> >>
             last == arm \o RefreshAndShow
             rest == RefreshRows \o last
  <2>1. <<"arm">> \in PlainTask BY DEF PlainTask
  <2>2. arm \in Seq(PlainTask) BY <2>1
  <2> HIDE DEF arm
  <2>3. last \in Seq(PlainTask) BY <2>2, ShowTodo, ConcatProperties
  <2>4. s = RefreshScopeCombo \o rest BY <1>3 DEF OnInitDialog, arm
  <2> HIDE DEF last
  <2>5. rest \in Seq(PlainTask) BY <1>1, <2>3, ConcatProperties
  <2>6. \A p \in Rows : Asked(rest, p) BY <1>1, <2>3, AskedJoin
  <2> HIDE DEF rest
  <2>7. QED BY <2>4, <2>5, <2>6, ComboWellFormed
<1>4. QED BY <1>2, <1>3

-----------------------------------------------------------------------------
(* The coordinator's answers.                                              *)

LEMMA ClampRange ==
    ASSUME NEW value \in Int
    PROVE  /\ Clamp(value) \in Percent
           /\ value \in Percent => Clamp(value) = value
BY DEF Clamp, Percent

LEMMA ChannelOf ==
    ASSUME ViewOK, NEW i \in DOMAIN m_channels
    PROVE  m_channels[i] \in Channel
BY DEF ViewOK

LEMMA ValueRange ==
    ASSUME ViewOK, m_ready, NEW p
    PROVE  /\ GetValue(p, m_scope) \in Percent \cup {kValueMixed, kValueUnsupported}
           /\ SupportsParam(p, m_scope) =>
                 GetValue(p, m_scope) \in Percent \cup {kValueMixed}
<1> DEFINE shown == { m_channels[i].current : i \in MatchingIn(m_channels, p, m_scope) }
<1>1. shown \subseteq Percent BY ChannelOf DEF MatchingIn, Channel
<1>2. SupportsParam(p, m_scope) => shown # {} BY DEF SupportsParam
<1>3. GetValue(p, m_scope) =
        IF shown = {} THEN kValueUnsupported
        ELSE IF Cardinality(shown) = 1 THEN CHOOSE v \in shown : TRUE
        ELSE kValueMixed
  BY DEF GetValue, ValueIn
<1> HIDE DEF shown
<1>4. shown # {} => (CHOOSE v \in shown : TRUE) \in shown OBVIOUS
<1>5. QED BY <1>1, <1>2, <1>3, <1>4

\* Caching moves the values of the channels named, and nothing else.
LEMMA Cached ==
    ASSUME ViewOK, NEW target, Cache(target),
           \A i \in DOMAIN m_channels : i \in DOMAIN target => target[i] \in Percent
    PROVE  /\ ViewOK' /\ UNCHANGED <<stateVars, settingVars, workerVars>>
           /\ DOMAIN m_channels' = DOMAIN m_channels
           /\ \A i \in DOMAIN m_channels :
                /\ m_channels'[i].param = m_channels[i].param
                /\ m_channels'[i].monitorIndex = m_channels[i].monitorIndex
                /\ m_channels'[i].current =
                      IF i \in DOMAIN target THEN target[i] ELSE m_channels[i].current
<1>1. m_channels' = [i \in DOMAIN m_channels |->
                       IF i \in DOMAIN target
                       THEN [m_channels[i] EXCEPT !.current = target[i]]
                       ELSE m_channels[i]]
      /\ UNCHANGED <<stateVars, settingVars, workerVars>>
  BY DEF Cache
<1>2. \A i \in DOMAIN m_channels : m_channels[i] \in Channel BY ChannelOf
<1>3. DOMAIN m_channels = 1 .. Len(m_channels) /\ Len(m_channels) \in Nat
  BY SeqDomain DEF ViewOK
<1>4. \A i \in DOMAIN m_channels :
        /\ m_channels'[i] \in Channel
        /\ m_channels'[i].param = m_channels[i].param
        /\ m_channels'[i].monitorIndex = m_channels[i].monitorIndex
        /\ m_channels'[i].current =
              IF i \in DOMAIN target THEN target[i] ELSE m_channels[i].current
  BY <1>1, <1>2 DEF Channel
<1>5. DOMAIN m_channels' = DOMAIN m_channels BY <1>1
<1>6. m_channels' \in Seq(Channel) BY <1>1, <1>3, <1>4
<1>7. ViewOK' BY <1>1, <1>6 DEF ViewOK, stateVars, settingVars, workerVars
<1>8. QED BY <1>1, <1>4, <1>5, <1>7

LEMMA MatchingSame ==
    ASSUME NEW old, NEW new, DOMAIN new = DOMAIN old, NEW p, NEW scope,
           \A i \in DOMAIN old : /\ new[i].param = old[i].param
                                 /\ new[i].monitorIndex = old[i].monitorIndex
    PROVE  MatchingIn(new, p, scope) = MatchingIn(old, p, scope)
BY DEF MatchingIn

LEMMA AdjustAllCaches ==
    ASSUME ViewOK, NEW steps \in Steps, AdjustAll(steps)
    PROVE  ViewOK'
<1> DEFINE target == [i \in Scrolled |->
                        Clamp(m_channels[i].current + steps * m_scrollStep)]
<1>1. Cache(target) BY DEF AdjustAll
<1>2. ASSUME NEW i \in DOMAIN m_channels, i \in DOMAIN target
      PROVE  target[i] \in Percent
  <2>1. m_channels[i].current \in Int BY ChannelOf DEF Channel, Percent
  <2>2. steps \in Int /\ m_scrollStep \in Int BY DialogAssumption DEF ViewOK
  <2>3. m_channels[i].current + steps * m_scrollStep \in Int BY <2>1, <2>2
  <2>4. QED BY <1>2, <2>3, ClampRange
<1> HIDE DEF target
<1>3. QED BY <1>1, <1>2, Cached

LEMMA AdjustToCaches ==
    ASSUME ViewOK, NEW p, NEW value \in Percent, AdjustTo(p, value)
    PROVE  /\ ViewOK' /\ m_ready /\ UNCHANGED <<stateVars, settingVars, workerVars>>
           /\ DOMAIN m_channels' = DOMAIN m_channels
           /\ \A i \in DOMAIN m_channels :
                /\ m_channels'[i].param = m_channels[i].param
                /\ m_channels'[i].monitorIndex = m_channels[i].monitorIndex
                /\ m_channels'[i].current =
                      IF i \in MatchingIn(m_channels, p, m_scope) THEN value
                      ELSE m_channels[i].current
<1> DEFINE target == [i \in MatchingIn(m_channels, p, m_scope) |-> Clamp(value)]
<1>1. Cache(target) /\ m_ready BY DEF AdjustTo, Accepting
<1>2. Clamp(value) = value BY ClampRange DEF Percent
<1>3. \A i \in DOMAIN target : target[i] = value BY <1>2
<1>4. DOMAIN target = MatchingIn(m_channels, p, m_scope) OBVIOUS
<1> HIDE DEF target
<1>5. QED BY <1>1, <1>3, <1>4, Cached

-----------------------------------------------------------------------------
(* Types, and what a handler has still to do.                              *)

LEMMA SliderInRange ==
    ASSUME TypeOK, NEW param \in Rows,
           NEW pos \in SliderPositions \cup {row[param].pos}
    PROVE  pos \in Percent
BY DialogAssumption DEF TypeOK

\* The first task, and that it is one of those of its name.
LEMMA TaskHead ==
    ASSUME TodoOK, NEW name, Task(name)
    PROVE  /\ todo # <<>> /\ Head(todo) = todo[1] /\ todo[1][1] = name
           /\ name \in {"ask", "show value", "end drag"} => todo[1][2] \in Rows
<1>1. todo # <<>> /\ Head(todo)[1] = name BY DEF Task
<1>2. QED BY <1>1, HeadTask, TaskNames

LEMMA HeadIsRow ==
    ASSUME TodoOK, Task("end drag") PROVE Head(todo)[2] \in Rows
BY TaskHead

\* Asking a row is done, or leaves its value to be shown or its drag to be ended.
LEMMA AskLeaves ==
    ASSUME TodoOK, AskRow
    PROVE  /\ Task("ask") /\ todo # <<>> /\ Head(todo) = todo[1]
           /\ todo[1][1] = "ask" /\ Head(todo)[2] \in Rows
           /\ \/ Then(<<>>)
              \/ \E next \in TaskType :
                    /\ next[1] \in {"show value", "end drag"} /\ next[2] = Head(todo)[2]
                    /\ Leads(todo[1], next) /\ Then(<<next>>)
<1> DEFINE param == Head(todo)[2]
<1>1. Task("ask") BY DEF AskRow
<1>2. todo # <<>> /\ Head(todo) = todo[1] /\ todo[1][1] = "ask" /\ param \in Rows
  BY <1>1, TaskHead
<1>3. Then(<<>>) \/ \E name \in {"show value", "end drag"} : Then(<< <<name, param>> >>)
  BY DEF AskRow, GrayOut
<1> HIDE DEF param
<1>4. ASSUME NEW name \in {"show value", "end drag"}, Then(<< <<name, param>> >>)
      PROVE  \E next \in TaskType :
                /\ next[1] \in {"show value", "end drag"} /\ next[2] = param
                /\ Leads(todo[1], next) /\ Then(<<next>>)
  <2> DEFINE next == <<name, param>>
  <2>1. next \in TaskType BY <1>2, <1>4 DEF TaskType
  <2>2. next[1] = name /\ next[2] = param OBVIOUS
  <2>3. Then(<<next>>) BY <1>4
  <2> HIDE DEF next
  <2>4. Leads(todo[1], next) BY <1>2, <1>4, <2>2 DEF Leads
  <2>5. QED BY <1>4, <2>1, <2>2, <2>3, <2>4
<1>5. QED BY <1>1, <1>2, <1>3, <1>4 DEF param

LEMMA ViewStep == TypeInv /\ [Next]_vars => ViewOK'
<1> SUFFICES ASSUME TypeInv, [Next]_vars PROVE ViewOK' OBVIOUS
<1>1. ViewOK /\ TypeOK BY DEF TypeInv
<1>2. CASE UNCHANGED viewVars
  BY <1>1, <1>2 DEF ViewOK, viewVars, stateVars, settingVars, workerVars
<1>3. CASE Launch
  BY <1>1, <1>3 DEF Launch, ViewOK, TypeOK, workerVars
<1>4. CASE Open \/ DetectTick \/ MonitorsChanged \/ Hide \/ ResetList
             \/ ListMonitor \/ AskRow \/ ShowValue \/ Arm \/ ShowWindow
  BY <1>2, <1>4 DEF Open, DetectTick, MonitorsChanged, Hide, ResetList,
                    ListMonitor, AskRow, ShowValue, Arm, ShowWindow
<1>5. ASSUME NEW param \in Rows,
             NEW pos \in SliderPositions \cup {row[param].pos}, Slide(param, pos)
      PROVE  ViewOK'
  <2>1. pos \in Percent BY <1>1, SliderInRange
  <2>2. AdjustTo(param, pos) \/ UNCHANGED viewVars BY <1>5 DEF Slide
  <2>3. QED BY <1>1, <1>2, <2>1, <2>2, AdjustToCaches
<1>6. CASE SelectScope
  <2>1. PICK sel \in 0 .. entries : SetScope(sel - 1) BY <1>6 DEF SelectScope
  <2>2. sel - 1 \in Int BY <1>1, <2>1 DEF TypeOK
  <2>3. QED BY <1>1, <2>1, <2>2 DEF SetScope, ViewOK, stateVars, workerVars
<1>7. ASSUME NEW param, Toggle(param) PROVE ViewOK'
  BY <1>1, <1>7 DEF Toggle, SetParamEnabled, ViewOK, stateVars, workerVars
<1>8. ASSUME NEW steps \in Steps, Scroll(steps) PROVE ViewOK'
  BY <1>1, <1>2, <1>8, AdjustAllCaches DEF Scroll
<1>9. CASE DisplayChange
  BY <1>1, <1>9 DEF DisplayChange, RequestReenumerate, ViewOK, settingVars,
                    workerVars
<1>10. CASE SelectMonitor
  BY <1>1, <1>2, <1>10
  DEF SelectMonitor, ResetScope, SelectKept, SetScope, ViewOK, stateVars, workerVars
<1>11. CASE Take \/ Refresh
  BY <1>1, <1>11, DialogAssumption
  DEF Take, Refresh, ViewOK, stateVars, settingVars
<1>12. CASE Swap
  BY <1>1, <1>12, DialogAssumption DEF Swap, ViewOK, settingVars, Channel
<1>13. CASE EndDrag
  <2>1. PICK param \in Rows : AdjustTo(param, row[param].pos) \/ UNCHANGED viewVars
    BY <1>13, HeadIsRow DEF EndDrag, TypeInv
  <2>2. row[param].pos \in Percent BY <1>1, <2>1 DEF TypeOK
  <2>3. QED BY <1>1, <1>2, <2>1, <2>2, AdjustToCaches
<1>14. CASE UNCHANGED vars BY <1>2, <1>14 DEF vars
<1>15. QED
  BY <1>3, <1>4, <1>5, <1>6, <1>7, <1>8, <1>9, <1>10, <1>11, <1>12, <1>13, <1>14
  DEF Next, User, Handler, Worker, SwapAndPost

LEMMA TodoStep == TypeInv /\ [Next]_vars => TodoOK'
<1> SUFFICES ASSUME TypeInv, [Next]_vars PROVE TodoOK' OBVIOUS
<1>1. TodoOK BY DEF TypeInv
<1>2. CASE UNCHANGED todo BY <1>1, <1>2 DEF TodoOK
<1>3. CASE todo' \in {<<>>, RefreshRows, RefreshAndShow,
                      RefreshScopeCombo \o RefreshRows, OnInitDialog(RefreshAndShow)}
  <2>1. WellFormed(todo') BY <1>3, NewTodo, ShowTodo, ComboTodo
  <2>2. QED BY <2>1 DEF TodoOK
<1>4. CASE todo # <<>> /\ Then(<<>>) BY <1>1, <1>4, DropWellFormed
<1>5. CASE ListMonitor
  <2>1. CASE Then(<< <<"select">> >>)
    <3>1. todo # <<>> /\ todo[1][1] = "list" BY <1>1, <1>5, TaskHead DEF ListMonitor
    <3>2. <<"select">> \in TaskType BY DEF TaskType
    <3>3. Leads(todo[1], <<"select">>) BY <3>1 DEF Leads
    <3>4. QED BY <1>1, <2>1, <3>1, <3>2, <3>3, SwapWellFormed
  <2>2. QED BY <1>2, <1>5, <2>1 DEF ListMonitor
<1>6. CASE AskRow
  <2>1. todo # <<>> BY <1>1, <1>6, AskLeaves
  <2>2. ASSUME NEW next \in TaskType, Leads(todo[1], next), Then(<<next>>)
        PROVE  TodoOK'
    BY <1>1, <2>1, <2>2, SwapWellFormed
  <2>3. QED BY <1>1, <1>4, <1>6, <2>1, <2>2, AskLeaves
<1>7. CASE ResetList \/ SelectMonitor \/ EndDrag \/ ShowValue \/ Arm \/ ShowWindow
  BY <1>4, <1>7
  DEF ResetList, SelectMonitor, EndDrag, ShowValue, Arm, ShowWindow, Task
<1>8. CASE Launch \/ Hide \/ DisplayChange \/ UNCHANGED vars \/ Worker
  BY <1>2, <1>8 DEF Launch, Hide, DisplayChange, vars, dialogVars, Worker, SwapAndPost
<1>9. CASE Open \/ DetectTick \/ MonitorsChanged \/ SelectScope
  BY <1>3, <1>9 DEF Open, DetectTick, MonitorsChanged, SelectScope
<1>10. ASSUME NEW param, NEW pos, Slide(param, pos) PROVE TodoOK'
  BY <1>2, <1>10 DEF Slide
<1>11. ASSUME NEW param, Toggle(param) PROVE TodoOK'
  BY <1>2, <1>11 DEF Toggle, dialogVars
<1>12. ASSUME NEW steps, Scroll(steps) PROVE TodoOK'
  BY <1>3, <1>12 DEF Scroll
<1>13. QED
  BY <1>5, <1>6, <1>7, <1>8, <1>9, <1>10, <1>11, <1>12 DEF Next, User, Handler

LEMMA MadeStep == TypeInv /\ [Next]_vars => MadeInv'
<1> SUFFICES ASSUME TypeInv, [Next]_vars PROVE MadeInv' OBVIOUS
<1>1. MadeInv BY DEF TypeInv
<1>2. CASE Launch
  BY <1>1, <1>2 DEF Launch, MadeInv, dialogVars, scopeVars
<1>3. CASE Open
  BY <1>1, <1>3 DEF Open, Running, MadeInv, viewVars, stateVars
<1>4. CASE DetectTick
  BY <1>1, <1>4 DEF DetectTick, Running, MadeInv, viewVars, stateVars
<1>5. CASE MonitorsChanged
  BY <1>1, <1>5 DEF MonitorsChanged, Running, MadeInv, viewVars, stateVars, scopeVars
<1>6. ASSUME NEW param, NEW pos, Slide(param, pos) PROVE MadeInv'
  <2>1. m_started /\ m_started'
    BY <1>6 DEF Slide, Running, AdjustTo, Cache, viewVars, stateVars
  <2>2. QED BY <1>1, <1>6, <2>1 DEF Slide, MadeInv, scopeVars
<1>7. CASE SelectScope
  BY <1>1, <1>7 DEF SelectScope, Running, MadeInv, SetScope, stateVars
<1>8. CASE Hide
  BY <1>1, <1>8 DEF Hide, Running, MadeInv, viewVars, stateVars
<1>9. ASSUME NEW param, Toggle(param) PROVE MadeInv'
  BY <1>1, <1>9 DEF Toggle, Running, MadeInv, SetParamEnabled, dialogVars, stateVars,
                    scopeVars
<1>10. ASSUME NEW steps, Scroll(steps) PROVE MadeInv'
  <2>1. m_started /\ m_started'
    BY <1>10 DEF Scroll, Running, AdjustAll, Cache, viewVars, stateVars
  <2>2. QED BY <1>1, <1>10, <2>1 DEF Scroll, MadeInv, scopeVars
<1>11. CASE DisplayChange
  BY <1>1, <1>11 DEF DisplayChange, Running, MadeInv, RequestReenumerate, dialogVars,
                     scopeVars
<1>12. CASE Handler
  <2>1. todo # <<>> /\ UNCHANGED m_started
    BY <1>12 DEF Handler, ResetList, ListMonitor, SelectMonitor, AskRow, EndDrag,
                 AdjustTo, Cache, ShowValue, Arm, ShowWindow, Task, ResetScope,
                 SelectKept, SetScope, viewVars, stateVars
  <2>2. dialog # "none" /\ m_started BY <1>1, <2>1 DEF MadeInv
  <2>3. dialog' # "none"
    BY <1>12, <2>2 DEF Handler, ResetList, ListMonitor, SelectMonitor, AskRow,
                       EndDrag, ShowValue, Arm, ShowWindow
  <2>4. QED BY <2>1, <2>2, <2>3 DEF MadeInv
<1>13. CASE Worker
  <2>1. UNCHANGED <<todo, dialog, entries, selected, detectTimer, m_started>>
    BY <1>13 DEF Worker, SwapAndPost, Swap, Take, Refresh, dialogVars, scopeVars,
                 stateVars
  <2>2. QED BY <1>1, <2>1 DEF MadeInv
<1>14. CASE UNCHANGED vars
  BY <1>1, <1>14 DEF vars, viewVars, stateVars, dialogVars, scopeVars, MadeInv
<1>15. QED
  BY <1>2, <1>3, <1>4, <1>5, <1>6, <1>7, <1>8, <1>9, <1>10, <1>11, <1>12, <1>13,
     <1>14
  DEF Next, User

RowType == [text : Texts, pos : Percent, enabled : BOOLEAN]

LEMMA TypeStep == TypeInv /\ [Next]_vars => TypeOK'
<1> SUFFICES ASSUME TypeInv, [Next]_vars PROVE TypeOK' OBVIOUS
<1>1. TypeOK /\ TodoOK /\ ViewOK BY DEF TypeInv
<1> DEFINE ScopeTypes == /\ entries \in Nat /\ selected \in -1 .. entries
                         /\ previous \in Int /\ savedScope \in Int
           RowTypes == row \in [Rows -> RowType] /\ m_dragging \in [Rows -> BOOLEAN]
           OtherTypes == /\ dialog \in {"none", "hidden", "shown"}
                         /\ detectTimer \in BOOLEAN /\ posted \in 0 .. MaxPosted
<1>2. ScopeTypes /\ RowTypes /\ OtherTypes /\ MaxPosted \in Nat \ {0}
  BY <1>1, DialogAssumption DEF TypeOK, RowType
<1>3. ScopeTypes'
  <2>1. CASE UNCHANGED scopeVars BY <1>2, <2>1 DEF scopeVars
  <2>2. CASE SelectScope BY <1>2, <2>2 DEF SelectScope
  <2>3. CASE ResetList BY <1>2, <2>3 DEF ResetList
  <2>4. CASE ListMonitor BY <1>2, <2>4 DEF ListMonitor
  <2>5. CASE SelectMonitor
    <3>1. m_scope \in Int BY <1>1 DEF ViewOK
    <3>2. Kept \in Int BY <1>2, <3>1 DEF Kept
    <3>3. QED
      BY <1>2, <2>5, <3>2 DEF SelectMonitor, ResetScope, SelectKept
  <2>6. QED
    BY <2>1, <2>2, <2>3, <2>4, <2>5
    DEF Next, User, Handler, Worker, SwapAndPost, Launch, Open, DetectTick,
        MonitorsChanged, Slide, Toggle, Hide, Scroll, DisplayChange, AskRow,
        EndDrag, ShowValue, Arm, ShowWindow, dialogVars, vars
<1>4. RowTypes'
  <2>1. CASE UNCHANGED rowVars BY <1>2, <2>1 DEF rowVars
  <2>2. ASSUME NEW param \in Rows,
               NEW pos \in SliderPositions \cup {row[param].pos}, Slide(param, pos)
        PROVE  RowTypes'
    <3>1. pos \in Percent BY <1>1, SliderInRange
    <3>2. "number" \in Texts BY DEF Texts
    <3>3. row' = [row EXCEPT ![param].pos = pos, ![param].text = "number"]
      BY <2>2 DEF Slide
    <3>4. row' \in [Rows -> RowType] BY <1>2, <3>1, <3>2, <3>3 DEF RowType
    <3>5. m_dragging' \in [Rows -> BOOLEAN] BY <1>2, <2>2 DEF Slide
    <3>6. QED BY <3>4, <3>5
  <2>3. CASE AskRow
    <3>1. Head(todo)[2] \in Rows BY <1>1, <2>3, TaskHead DEF AskRow
    <3>2. "detecting..." \in Texts /\ "not supported on this monitor" \in Texts
      BY DEF Texts
    <3> DEFINE param == Head(todo)[2]
    <3> HIDE DEF param
    <3>3. \/ \E reason \in Texts : GrayOut(param, reason)
          \/ row' = [row EXCEPT ![param].enabled = TRUE] /\ UNCHANGED m_dragging
      BY <2>3, <3>2 DEF AskRow, param
    <3>4. param \in Rows BY <3>1 DEF param
    <3>5. CASE row' = [row EXCEPT ![param].enabled = TRUE] /\ UNCHANGED m_dragging
      BY <1>2, <3>4, <3>5 DEF RowType
    <3>6. ASSUME NEW reason \in Texts, GrayOut(param, reason) PROVE RowTypes'
      BY <1>2, <3>4, <3>6 DEF GrayOut, RowType
    <3>7. QED BY <3>3, <3>5, <3>6
  <2>4. CASE ShowValue
    <3> DEFINE param == Head(todo)[2]
    <3>1. param \in Rows BY <1>1, <2>4, TaskHead DEF ShowValue
    <3>2. Position(GetValue(param, m_scope)) \in Percent
      <4>1. GetValue(param, m_scope)
              \in Percent \cup {kValueMixed, kValueUnsupported}
        BY <1>1, ValueRange DEF GetValue
      <4>2. QED BY <4>1 DEF Position, Percent, kValueMixed, kValueUnsupported,
                            kNeutralSliderPos
    <3>3. row' = [row EXCEPT
                    ![param].pos = Position(GetValue(param, m_scope)),
                    ![param].text = IF GetValue(param, m_scope) = kValueMixed
                                    THEN "varies" ELSE "number"]
          /\ UNCHANGED m_dragging
      BY <2>4 DEF ShowValue
    <3>4. "varies" \in Texts /\ "number" \in Texts BY DEF Texts
    <3> HIDE DEF param
    <3>5. QED BY <1>2, <3>1, <3>2, <3>3, <3>4 DEF RowType
  <2>5. QED
    BY <2>1, <2>2, <2>3, <2>4
    DEF Next, User, Handler, Worker, SwapAndPost, Launch, Open, DetectTick,
        MonitorsChanged, SelectScope, Toggle, Hide, Scroll, DisplayChange,
        ResetList, ListMonitor, SelectMonitor, EndDrag, Arm, ShowWindow, dialogVars,
        vars
<1>5. OtherTypes'
  <2>1. CASE UNCHANGED <<dialog, detectTimer, posted>> BY <1>2, <2>1
  <2>2. CASE Open \/ Hide \/ ShowWindow BY <1>2, <2>2 DEF Open, Hide, ShowWindow
  <2>3. CASE DetectTick \/ Arm
    BY <1>1, <1>2, <2>3 DEF DetectTick, Arm, Ready, ViewOK
  <2>4. CASE MonitorsChanged BY <1>2, <2>4 DEF MonitorsChanged
  <2>5. CASE SwapAndPost BY <1>2, <2>5 DEF SwapAndPost
  <2>6. QED
    BY <2>1, <2>2, <2>3, <2>4, <2>5
    DEF Next, User, Handler, Worker, Launch, Slide, SelectScope, Toggle, Scroll,
        DisplayChange, ResetList, ListMonitor, SelectMonitor, AskRow, EndDrag,
        ShowValue, dialogVars, vars
<1>6. QED BY <1>3, <1>4, <1>5 DEF TypeOK, RowType

LEMMA TypeInit == Init => TypeInv
<1> SUFFICES ASSUME Init PROVE TypeInv OBVIOUS
<1>1. ViewOK
  <2>1. <<>> \in Seq(Channel) OBVIOUS
  <2>2. kDefaultScrollStep \in Int BY DialogAssumption
  <2>3. m_started \in BOOLEAN /\ m_ready \in BOOLEAN
    BY Zenon DEF Init, ViewInit
  <2>4. /\ m_channels = <<>> /\ m_scope = -1 /\ m_scrollStep = kDefaultScrollStep
        /\ listed = 0 /\ stage = "idle"
    BY Zenon DEF Init, ViewInit
  <2>5. QED BY <2>1, <2>2, <2>3, <2>4 DEF ViewOK
<1>2. TypeOK
  <2>1. savedScope \in Int /\ MaxPosted \in Nat BY DialogAssumption DEF Init
  <2>2. [text |-> "", pos |-> 0, enabled |-> TRUE]
          \in [text : Texts, pos : Percent, enabled : BOOLEAN]
    BY DEF Texts, Percent
  <2>3. row \in [Rows -> [text : Texts, pos : Percent, enabled : BOOLEAN]]
    BY <2>2 DEF Init
  <2>4. detectTimer \in BOOLEAN /\ m_dragging \in [Rows -> BOOLEAN]
    BY DEF Init
  <2>5. dialog = "none" /\ entries = 0 /\ selected = -1 /\ previous = -1 /\ posted = 0
    BY Zenon DEF Init
  <2>6. QED BY <2>1, <2>3, <2>4, <2>5 DEF TypeOK
<1>3. TodoOK BY NewTodo DEF Init, TodoOK
<1>4. MadeInv BY DEF Init, ViewInit, MadeInv
<1>5. QED BY <1>1, <1>2, <1>3, <1>4 DEF TypeInv

LEMMA TypeSafe == Spec => []TypeInv
<1>1. TypeInv /\ [Next]_vars => TypeInv'
  BY ViewStep, TypeStep, TodoStep, MadeStep DEF TypeInv
<1>2. QED BY <1>1, TypeInit, PTL DEF Spec

(* Whatever is enumerated, slid, scrolled and chosen, the window's state   *)
(* stays of its type: above all, no answer of the coordinator that is no   *)
(* percentage reaches a trackbar, and the selection stays in the list      *)
(* (SettingsDialog.cpp:425-470, 528-547).                                  *)
THEOREM DialogTypeCorrect == Spec => []TypeOK
<1>1. TypeInv => TypeOK BY DEF TypeInv
<1>2. QED BY <1>1, TypeSafe, PTL

-----------------------------------------------------------------------------
(* The scope list.                                                         *)

LEMMA HeadOf ==
    ASSUME NEW s \in Seq(TaskType), s # <<>> PROVE Head(s) = s[1]
OBVIOUS

LEMMA TaskNow ==
    ASSUME TodoOK, NEW name
    PROVE  Task(name) <=> todo # <<>> /\ todo[1][1] = name
BY HeadOf DEF TodoOK, WellFormed, Task

LEMMA TaskNext ==
    ASSUME TodoOK', NEW name
    PROVE  Task(name)' <=> todo' # <<>> /\ todo'[1][1] = name
BY HeadOf DEF TodoOK, WellFormed, Task

\* A handler begins with the reset of the list, or with none of its steps.
Begun ==
    todo' \in {<<>>, RefreshRows, RefreshAndShow, RefreshScopeCombo \o RefreshRows,
               OnInitDialog(RefreshAndShow)}

LEMMA BegunPhase ==
    ASSUME TodoOK', Begun
    PROVE  /\ ~Task("list")' /\ ~Task("select")'
           /\ Task("reset")' \/ todo' \in {<<>>, RefreshRows, RefreshAndShow}
           /\ todo' \notin {<<>>} => \A p \in Rows : Asked(todo', p)
<1>1. CASE todo' \in {<<>>, RefreshRows, RefreshAndShow}
  <2>1. todo' # <<>> => todo'[1][1] \in Plain BY <1>1, NewTodo, ShowTodo
  <2>2. todo' # <<>> => \A p \in Rows : Asked(todo', p) BY <1>1, NewTodo, ShowTodo
  <2>3. QED BY <1>1, <2>1, <2>2, TaskNext DEF Plain
<1>2. CASE todo' \in {RefreshScopeCombo \o RefreshRows, OnInitDialog(RefreshAndShow)}
  <2>1. todo' # <<>> /\ todo'[1][1] = "reset" /\ \A p \in Rows : Asked(todo', p)
    BY <1>2, ComboTodo
  <2>2. QED BY <2>1, TaskNext
<1>3. QED BY <1>1, <1>2 DEF Begun

\* The steps that touch neither the scope nor the list begin or go on.
LEMMA DropPhase ==
    ASSUME TodoOK, NEW name, Task(name), Then(<<>>)
    PROVE  IF name = "reset" THEN Task("list")'
           ELSE ~Task("reset")' /\ ~Task("list")' /\ ~Task("select")'
<1>1. todo # <<>> /\ todo[1][1] = name BY TaskNow
<1>2. /\ TodoOK'
      /\ todo' # <<>> => IF name = "reset" THEN todo'[1][1] = "list"
                         ELSE todo'[1][1] \in Plain
      /\ name = "reset" => todo' # <<>>
  BY <1>1, DropWellFormed
<1>3. QED BY <1>2, TaskNext DEF Plain

\* Asking a row leads to its value or the end of its drag, or to the next task.
LEMMA AskPhase ==
    ASSUME TodoOK, AskRow
    PROVE  ~Task("reset")' /\ ~Task("list")' /\ ~Task("select")'
<1>1. todo # <<>> /\ todo[1][1] = "ask" BY AskLeaves
<1>2. CASE Then(<<>>)
  <2>1. TodoOK' /\ (todo' # <<>> => todo'[1][1] \in Plain)
    BY <1>1, <1>2, DropWellFormed
  <2>2. QED BY <2>1, TaskNext DEF Plain
<1>3. ASSUME NEW next \in TaskType, next[1] \in {"show value", "end drag"},
             Leads(todo[1], next), Then(<<next>>)
      PROVE  ~Task("reset")' /\ ~Task("list")' /\ ~Task("select")'
  <2>1. TodoOK' /\ todo' # <<>> /\ todo'[1] = next
    BY <1>1, <1>3, SwapWellFormed
  <2>2. \A name : Task(name)' => name = next[1] BY <2>1, TaskNext
  <2>3. QED BY <1>3, <2>2
<1>4. QED BY <1>2, <1>3, AskLeaves

LEMMA ListPhase ==
    ASSUME TodoOK, ListMonitor
    PROVE  \/ UNCHANGED todo
           \/ UNCHANGED entries /\ Task("select")' /\ ~Task("reset")' /\ ~Task("list")'
                /\ \E seen \in SeenMonitors : ~(entries < seen)
<1>1. CASE Then(<< <<"select">> >>)
  <2>1. todo # <<>> /\ todo[1][1] = "list" BY TaskHead DEF ListMonitor
  <2>2. <<"select">> \in TaskType BY DEF TaskType
  <2>3. Leads(todo[1], <<"select">>) BY <2>1 DEF Leads
  <2>4. TodoOK' /\ todo' # <<>> /\ todo'[1] = <<"select">>
    BY <1>1, <2>1, <2>2, <2>3, SwapWellFormed
  <2>5. Task("select")' /\ ~Task("reset")' /\ ~Task("list")' BY <2>4, TaskNext
  <2>6. QED BY <1>1, <2>5 DEF ListMonitor
<1>2. QED BY <1>1 DEF ListMonitor

\* Where the user's handlers leave the scope alone.
SameScope ==
    UNCHANGED <<m_started, m_scope, savedScope, entries, selected, previous>>

LEMMA OneTask ==
    ASSUME NEW name, Task(name), NEW other, other # name PROVE ~Task(other)
BY DEF Task

\* The steps of a handler that have to do with the rows and the window.
RowTask == AskRow \/ EndDrag \/ ShowValue \/ Arm \/ ShowWindow

LEMMA RowTaskPhase ==
    ASSUME TodoOK, RowTask
    PROVE  /\ ~Task("reset") /\ ~Task("list") /\ ~Task("select")
           /\ ~Task("reset")' /\ ~Task("list")' /\ ~Task("select")'
           /\ SameScope
<1>1. SameScope
  BY DEF RowTask, AskRow, EndDrag, AdjustTo, Cache, ShowValue, Arm, ShowWindow,
         SameScope, viewVars, stateVars, settingVars, scopeVars
<1>2. CASE AskRow
  BY <1>1, <1>2, AskPhase, OneTask DEF AskRow
<1>3. ASSUME NEW name \in {"end drag", "show value", "arm", "show"}, Task(name),
             Then(<<>>)
      PROVE  /\ ~Task("reset") /\ ~Task("list") /\ ~Task("select")
             /\ ~Task("reset")' /\ ~Task("list")' /\ ~Task("select")'
  <2>1. name # "reset" /\ name # "list" /\ name # "select" BY <1>3
  <2>2. ~Task("reset") /\ ~Task("list") /\ ~Task("select") BY <1>3, <2>1, OneTask
  <2>3. QED BY <1>3, <2>1, <2>2, DropPhase
<1>4. CASE EndDrag \/ ShowValue \/ Arm \/ ShowWindow
  BY <1>1, <1>3, <1>4 DEF EndDrag, ShowValue, Arm, ShowWindow
<1>5. QED BY <1>2, <1>4 DEF RowTask

\* Every other step that leaves the scope alone begins nothing, or a handler.
LEMMA SameScopeSteps ==
    ASSUME TypeInv, [Next]_vars
    PROVE  \/ Launch \/ SelectScope \/ ResetList \/ ListMonitor \/ SelectMonitor
           \/ RowTask
           \/ SameScope /\ UNCHANGED todo
           \/ SameScope /\ todo = <<>> /\ Begun
<1>1. CASE Open \/ DetectTick \/ MonitorsChanged
  BY <1>1 DEF Open, DetectTick, MonitorsChanged, Running, Idle, SameScope, Begun,
              scopeVars, viewVars, stateVars, settingVars
<1>2. ASSUME NEW param, NEW pos, Slide(param, pos)
      PROVE  SameScope /\ UNCHANGED todo
  BY <1>2 DEF Slide, AdjustTo, Cache, SameScope, scopeVars, viewVars, stateVars,
              settingVars
<1>3. ASSUME NEW param, Toggle(param) PROVE SameScope /\ UNCHANGED todo
  BY <1>3 DEF Toggle, SetParamEnabled, SameScope, dialogVars, scopeVars, stateVars
<1>4. ASSUME NEW steps, Scroll(steps) PROVE SameScope /\ todo = <<>> /\ Begun
  BY <1>4 DEF Scroll, AdjustAll, Cache, Running, Idle, SameScope, Begun, scopeVars,
              viewVars, stateVars, settingVars
<1>5. CASE Hide \/ DisplayChange
  BY <1>5 DEF Hide, DisplayChange, RequestReenumerate, SameScope, dialogVars,
              scopeVars, viewVars, stateVars, settingVars
<1>6. CASE Worker
  BY <1>6 DEF Worker, Take, Refresh, SwapAndPost, Swap, SameScope, dialogVars,
              scopeVars, stateVars, settingVars
<1>7. CASE UNCHANGED vars
  BY <1>7 DEF vars, SameScope, dialogVars, scopeVars, viewVars, stateVars, settingVars
<1>8. QED
  BY <1>1, <1>2, <1>3, <1>4, <1>5, <1>6, <1>7 DEF Next, User, Handler, RowTask

LEMMA SyncStep == TypeInv /\ SyncInv /\ [Next]_vars => SyncInv'
<1> SUFFICES ASSUME TypeInv, SyncInv, [Next]_vars PROVE SyncInv' OBVIOUS
<1>1. /\ TypeOK /\ TodoOK /\ ViewOK /\ MadeInv /\ TypeOK' /\ TodoOK' /\ ViewOK'
  BY TypeStep, TodoStep, ViewStep DEF TypeInv
<1>2. CASE SameScope /\ UNCHANGED todo
  BY <1>2 DEF SameScope, SyncInv, InSync, Entry, Task
<1>3. CASE SameScope /\ todo = <<>> /\ Begun
  <2>1. InSync /\ (m_started => savedScope = m_scope) BY <1>3 DEF SyncInv, Task
  <2>2. ~Task("list")' /\ ~Task("select")' BY <1>1, <1>3, BegunPhase
  <2>3. QED BY <1>3, <2>1, <2>2 DEF SameScope, SyncInv, InSync, Entry
<1>4. CASE Launch
  <2>1. dialog = "none" /\ UNCHANGED <<todo, entries, selected, savedScope>>
    BY <1>1, <1>4 DEF Launch, MadeInv, dialogVars, scopeVars
  <2>2. todo = <<>> /\ entries = 0 /\ selected = -1 BY <1>1, <2>1 DEF MadeInv
  <2>3. m_scope' = savedScope BY <1>4 DEF Launch
  <2>4. ~Task("list")' /\ ~Task("select")' BY <2>1, <2>2 DEF Task
  <2>5. QED BY <2>1, <2>2, <2>3, <2>4 DEF SyncInv, InSync
<1>5. CASE SelectScope
  <2>1. PICK sel \in 0 .. entries :
          selected' = sel /\ m_scope' = sel - 1 /\ savedScope' = sel - 1
    BY <1>5 DEF SelectScope, SetScope
  <2>2. ~Task("list")' /\ ~Task("select")'
    BY <1>1, <1>5, BegunPhase DEF SelectScope, Begun
  <2>3. InSync' BY <1>1, <2>1 DEF InSync, Entry, TypeOK
  <2>4. QED BY <2>1, <2>2, <2>3 DEF SyncInv
<1>6. CASE ResetList
  <2>1. Task("reset") /\ Then(<<>>) /\ previous' = selected /\ selected' = -1
        /\ UNCHANGED <<m_started, m_scope, savedScope>>
    BY <1>6 DEF ResetList, viewVars, stateVars, settingVars
  <2>2. ~Task("list") /\ ~Task("select") BY <2>1, OneTask
  <2>3. Task("list")' BY <1>1, <2>1, DropPhase
  <2>4. InSync /\ (m_started => savedScope = m_scope) BY <2>2 DEF SyncInv
  <2>5. previous' \in {-1, Entry(m_scope)} BY <2>1, <2>4 DEF InSync
  <2>6. QED BY <2>1, <2>3, <2>4, <2>5 DEF SyncInv, Entry
<1>7. CASE ListMonitor
  <2>1. Task("list")
        /\ UNCHANGED <<m_started, m_scope, savedScope, selected, previous>>
    BY <1>7 DEF ListMonitor, viewVars, stateVars, settingVars
  <2>2. Task("list")' \/ Task("select")'
    BY <1>1, <1>7, <2>1, ListPhase DEF Task
  <2>3. QED BY <2>1, <2>2 DEF SyncInv, Entry
<1>8. CASE SelectMonitor
  <2>1. Task("select") /\ Then(<<>>) /\ UNCHANGED <<entries, m_started>>
        /\ (IF PastTheEnd THEN ResetScope ELSE SelectKept)
    BY <1>8 DEF SelectMonitor, ResetScope, SelectKept, SetScope, viewVars, stateVars
  <2>2. ~Task("list")' /\ ~Task("select")' BY <1>1, <2>1, DropPhase
  <2>3. selected = -1 /\ previous \in {-1, Entry(m_scope)}
        /\ (m_started => savedScope = m_scope)
    BY <2>1 DEF SyncInv
  <2>4. CASE PastTheEnd
    BY <2>1, <2>2, <2>3, <2>4 DEF ResetScope, SetScope, SyncInv, InSync, Entry
  <2>5. CASE ~PastTheEnd
    <3>1. m_scope \in Int /\ entries \in Nat BY <1>1 DEF ViewOK, TypeOK
    <3>2. UNCHANGED <<m_scope, savedScope>>
          /\ selected' = IF Kept < 0 THEN 0 ELSE IF Kept < entries THEN Kept + 1 ELSE -1
      BY <2>1, <2>5 DEF SelectKept, viewVars, settingVars
    <3>3. IF m_scope < 0 THEN Kept < 0 ELSE Kept = m_scope
      BY <2>3, <3>1 DEF Kept, Entry
    <3>4. Kept \in Int BY <1>1, <3>1 DEF Kept, TypeOK
    <3>5. entries = 0 \/ Kept < entries BY <2>5, <3>1, <3>4 DEF PastTheEnd
    <3>6. InSync' BY <2>1, <3>1, <3>2, <3>3, <3>4, <3>5 DEF InSync, Entry
    <3>7. QED BY <2>1, <2>2, <2>3, <3>2, <3>6 DEF SyncInv
  <2>6. QED BY <2>4, <2>5
<1>9. CASE RowTask
  <2>1. /\ ~Task("list") /\ ~Task("select") /\ ~Task("list")' /\ ~Task("select")'
        /\ SameScope
    BY <1>1, <1>9, RowTaskPhase
  <2>2. QED BY <2>1 DEF SameScope, SyncInv, InSync, Entry
<1>10. QED
  BY <1>2, <1>3, <1>4, <1>5, <1>6, <1>7, <1>8, <1>9, SameScopeSteps

\* Outside the worker, the first window and a posted message, the list and
\* Monitors() stand as they were.
Steady ==
    /\ UNCHANGED <<listed, stage, posted>>
    /\ dialog' # "none" => dialog # "none"

LEMMA SteadySteps ==
    ASSUME TypeInv, [Next]_vars, posted' = 0, stage' = "idle", dialog' # "none",
           ~Task("reset")'
    PROVE  Steady
<1>1. TodoOK /\ MadeInv /\ TypeOK /\ TodoOK' BY TodoStep DEF TypeInv
<1>2. CASE Worker
  <2>1. posted \in Nat BY <1>1, DialogAssumption DEF TypeOK
  <2>2. QED BY <1>2, <2>1 DEF Worker, Take, Refresh, SwapAndPost
<1>3. CASE Open
  <2>1. dialog # "none"
    <3> SUFFICES ASSUME dialog = "none" PROVE FALSE OBVIOUS
    <3>1. todo' = OnInitDialog(RefreshAndShow) BY <1>3 DEF Open
    <3>2. todo' # <<>> /\ todo'[1][1] = "reset" BY <3>1, ComboTodo
    <3>3. QED BY <1>1, <3>2, TaskNext
  <2>2. QED BY <1>3, <2>1 DEF Open, Steady, viewVars, workerVars
<1>4. CASE MonitorsChanged
  <2>1. dialog # "none" BY <1>4 DEF MonitorsChanged
  <2>2. todo' = RefreshScopeCombo \o RefreshRows BY <1>4, <2>1 DEF MonitorsChanged
  <2>3. todo' # <<>> /\ todo'[1][1] = "reset" BY <2>2, ComboTodo
  <2>4. QED BY <1>1, <2>3, TaskNext
<1>5. CASE Launch BY <1>1, <1>5 DEF Launch, MadeInv, dialogVars
<1>6. CASE DetectTick \/ Hide
  BY <1>6 DEF DetectTick, Hide, Steady, viewVars, workerVars
<1>7. CASE SelectScope
  BY <1>7 DEF SelectScope, SetScope, Steady, workerVars
<1>8. ASSUME NEW param, NEW pos, Slide(param, pos) PROVE Steady
  BY <1>8 DEF Slide, AdjustTo, Cache, Steady, viewVars, workerVars
<1>9. ASSUME NEW param, Toggle(param) PROVE Steady
  BY <1>9 DEF Toggle, SetParamEnabled, Steady, dialogVars, workerVars
<1>10. ASSUME NEW steps, Scroll(steps) PROVE Steady
  BY <1>10 DEF Scroll, AdjustAll, Cache, Steady, viewVars, workerVars
<1>11. CASE DisplayChange
  BY <1>11 DEF DisplayChange, RequestReenumerate, Steady, dialogVars, workerVars
<1>12. CASE Handler
  <2>1. todo # <<>> BY <1>12
    DEF Handler, ResetList, ListMonitor, SelectMonitor, AskRow, EndDrag, ShowValue,
        Arm, ShowWindow, Task
  <2>2. dialog # "none" BY <1>1, <2>1 DEF MadeInv
  <2>3. UNCHANGED <<listed, stage, posted>> BY <1>12
    DEF Handler, ResetList, ListMonitor, SelectMonitor, AskRow, EndDrag, AdjustTo,
        Cache, ShowValue, Arm, ShowWindow, ResetScope, SelectKept, SetScope, viewVars,
        workerVars
  <2>4. QED BY <2>2, <2>3 DEF Steady
<1>13. CASE UNCHANGED vars
  BY <1>13 DEF vars, viewVars, workerVars, dialogVars, Steady
<1>14. QED
  BY <1>2, <1>3, <1>4, <1>5, <1>6, <1>7, <1>8, <1>9, <1>10, <1>11, <1>12, <1>13
  DEF Next, User

LEMMA WalkStep == ScopeInv /\ [Next]_vars => WalkInv'
<1> SUFFICES ASSUME ScopeInv, [Next]_vars, posted' = 0, stage' = "idle",
                    dialog' # "none"
             PROVE  /\ Task("list")' => entries' <= listed'
                    /\ Task("select")' => entries' = listed'
                    /\ ~Task("reset")' /\ ~Task("list")' /\ ~Task("select")' =>
                          entries' = listed' /\ (m_scope' < listed' \/ listed' = 0)
  BY DEF WalkInv
<1> DEFINE Goal == /\ Task("list")' => entries' <= listed'
                   /\ Task("select")' => entries' = listed'
                   /\ ~Task("reset")' /\ ~Task("list")' /\ ~Task("select")' =>
                         entries' = listed' /\ (m_scope' < listed' \/ listed' = 0)
<1>1. TypeInv /\ SyncInv /\ WalkInv BY DEF ScopeInv
<1>2. TypeOK /\ TodoOK /\ ViewOK /\ MadeInv /\ TodoOK'
  BY <1>1, TodoStep DEF TypeInv
<1>3. CASE Task("reset")'
  BY <1>3, OneTask DEF Task
<1>4. CASE ~Task("reset")'
  <2>1. Steady BY <1>1, <1>4, SteadySteps
  <2>2. /\ listed' = listed /\ posted = 0 /\ stage = "idle" /\ dialog # "none"
        /\ listed \in Nat /\ m_scope \in Int /\ entries \in Nat
    BY <1>2, <2>1 DEF Steady, ViewOK, TypeOK
  <2>3. /\ Task("list") => entries <= listed
        /\ Task("select") => entries = listed
        /\ ~Task("reset") /\ ~Task("list") /\ ~Task("select") =>
              entries = listed /\ (m_scope < listed \/ listed = 0)
    BY <1>1, <2>2 DEF WalkInv
  <2>4. CASE SameScope /\ UNCHANGED todo
    BY <2>2, <2>3, <2>4 DEF SameScope, Task
  <2>5. CASE SameScope /\ todo = <<>> /\ Begun
    <3>1. entries = listed /\ (m_scope < listed \/ listed = 0)
      BY <2>3, <2>5 DEF Task
    <3>2. ~Task("list")' /\ ~Task("select")' BY <1>2, <2>5, BegunPhase
    <3>3. QED BY <2>2, <2>5, <3>1, <3>2 DEF SameScope
  <2>6. CASE Launch
    BY <1>2, <2>2, <2>6 DEF Launch, MadeInv
  <2>7. CASE SelectScope
    <3>1. PICK sel \in 0 .. entries : m_scope' = sel - 1 /\ UNCHANGED entries
      BY <2>7 DEF SelectScope, SetScope
    <3>2. todo = <<>> BY <2>7 DEF SelectScope, Running, Idle
    <3>3. entries = listed BY <2>3, <3>2 DEF Task
    <3>4. ~Task("list")' /\ ~Task("select")'
      BY <1>2, <2>7, BegunPhase DEF SelectScope, Begun
    <3>5. QED BY <2>2, <3>1, <3>3, <3>4
  <2>8. CASE ResetList
    <3>1. Task("list")' BY <1>2, <2>8, DropPhase DEF ResetList
    <3>2. ~Task("select")' BY <3>1 DEF Task
    <3>3. entries' = 0 BY <2>8 DEF ResetList
    <3>4. QED BY <2>2, <3>1, <3>2, <3>3
  <2>9. CASE ListMonitor
    <3>1. Task("list") /\ SeenMonitors = {listed}
      BY <2>2, <2>9 DEF ListMonitor, SeenMonitors
    <3>2. entries <= listed BY <2>3, <3>1
    <3>3. CASE UNCHANGED todo
      <4>1. Task("list")' /\ ~Task("select")' BY <3>1, <3>3 DEF Task
      <4>2. \/ entries' = entries + 1 /\ entries < listed
            \/ Then(<< <<"select">> >>)
        BY <2>9, <3>1 DEF ListMonitor
      <4>3. CASE Then(<< <<"select">> >>)
        <5>1. todo # <<>> /\ todo[1][1] = "list" /\ todo \in Seq(TaskType)
          BY <1>2, <3>1, TaskHead DEF TodoOK, WellFormed
        <5>2. <<"select">> \in TaskType BY DEF TaskType
        <5>3. todo'[1] = <<"select">> BY <1>2, <4>3, <5>1, <5>2, SwapHead
        <5>4. QED BY <3>3, <5>1, <5>3
      <4>4. QED BY <2>2, <4>1, <4>2, <4>3
    <3>4. CASE UNCHANGED entries /\ Task("select")' /\ ~Task("list")'
               /\ \E seen \in SeenMonitors : ~(entries < seen)
      BY <2>2, <3>1, <3>2, <3>4
    <3>5. QED BY <1>2, <2>9, <3>3, <3>4, ListPhase
  <2>10. CASE SelectMonitor
    <3>1. Task("select") /\ Then(<<>>) /\ UNCHANGED entries
          /\ (IF PastTheEnd THEN ResetScope ELSE SelectKept)
      BY <2>10 DEF SelectMonitor
    <3>2. ~Task("list")' /\ ~Task("select")' BY <1>2, <3>1, DropPhase
    <3>3. entries = listed BY <2>3, <3>1
    <3>4. CASE PastTheEnd
      BY <2>2, <3>1, <3>2, <3>3, <3>4 DEF ResetScope, SetScope
    <3>5. CASE ~PastTheEnd
      <4>1. m_scope' = m_scope BY <3>1, <3>5 DEF SelectKept, viewVars, settingVars
      <4>2. previous \in {-1, Entry(m_scope)} BY <1>1, <3>1 DEF SyncInv
      <4>3. IF m_scope < 0 THEN Kept < 0 ELSE Kept = m_scope
        BY <2>2, <4>2 DEF Kept, Entry
      <4>4. m_scope < listed \/ listed = 0
        BY <2>2, <3>3, <3>5, <4>3 DEF PastTheEnd
      <4>5. QED BY <2>2, <3>1, <3>2, <3>3, <4>1, <4>4
    <3>6. QED BY <3>4, <3>5
  <2>11. CASE RowTask
    <3>1. /\ ~Task("reset") /\ ~Task("list") /\ ~Task("select")
          /\ ~Task("list")' /\ ~Task("select")' /\ SameScope
      BY <1>2, <2>11, RowTaskPhase
    <3>2. QED BY <2>2, <2>3, <3>1 DEF SameScope
  <2>12. QED
    BY <1>1, <2>4, <2>5, <2>6, <2>7, <2>8, <2>9, <2>10, <2>11, SameScopeSteps
<1>5. QED BY <1>3, <1>4

LEMMA ScopeInit == Init => ScopeInv
<1> SUFFICES ASSUME Init PROVE ScopeInv OBVIOUS
<1>1. TypeInv BY TypeInit
<1>2. selected = -1 /\ entries = 0 /\ todo = <<>> /\ dialog = "none"
      /\ m_started = FALSE
  BY Zenon DEF Init, ViewInit
<1>3. SyncInv BY <1>2 DEF SyncInv, InSync, Task
<1>4. WalkInv BY <1>2 DEF WalkInv
<1>5. QED BY <1>1, <1>3, <1>4 DEF ScopeInv

LEMMA ScopeSafe == Spec => []ScopeInv
<1>1. TypeInv /\ [Next]_vars => TypeInv'
  BY ViewStep, TypeStep, TodoStep, MadeStep DEF TypeInv
<1>2. ScopeInv /\ [Next]_vars => ScopeInv'
  BY <1>1, SyncStep, WalkStep DEF ScopeInv
<1>3. QED BY <1>2, ScopeInit, PTL DEF Spec

(* The list, the coordinator and the settings file agree on the scope      *)
(* whenever no handler is at work, whichever of them a handler starts from *)
(* and however a file was edited (SettingsDialog.cpp:310-321, 455-470).    *)
THEOREM ScopeStaysInSync == Spec => []ScopeInSync
<1>1. ScopeInv => ScopeInSync
  <2> SUFFICES ASSUME ScopeInv PROVE ScopeInSync OBVIOUS
  <2>1. SyncInv BY DEF ScopeInv
  <2>2. Idle => ~Task("list") /\ ~Task("select") BY DEF Idle, Task
  <2>3. QED BY <2>1, <2>2 DEF SyncInv, InSync, Entry, ScopeInSync, Running
<1>2. QED BY <1>1, ScopeSafe, PTL

(* When the dust of a hot-plug settles the list has one entry per monitor  *)
(* and the scope names one of them, however often the walk of the list ran *)
(* into a refresh (SettingsDialog.cpp:425-470, App.cpp:313-326).           *)
THEOREM ScopeAlwaysNamesMonitor == Spec => []ScopeNamesMonitor
<1>1. ScopeInv => ScopeNamesMonitor
  <2> SUFFICES ASSUME ScopeInv, Quiescent
               PROVE  entries = listed /\ (m_scope < listed \/ listed = 0)
    BY DEF ScopeNamesMonitor
  <2>1. WalkInv BY DEF ScopeInv
  <2>2. ~Task("reset") /\ ~Task("list") /\ ~Task("select")
    BY DEF Quiescent, Idle, Task
  <2>3. QED BY <2>1, <2>2 DEF WalkInv, Quiescent
<1>2. QED BY <1>1, ScopeSafe, PTL

-----------------------------------------------------------------------------
(* The rows.                                                               *)

LEMMA BegunAsks ==
    ASSUME NEW s,
           s \in {RefreshRows, RefreshAndShow, RefreshScopeCombo \o RefreshRows,
                  OnInitDialog(RefreshAndShow)},
           NEW p \in Rows
    PROVE  Asked(s, p)
<1>1. CASE s \in {RefreshRows, RefreshAndShow} BY <1>1, NewTodo, ShowTodo
<1>2. CASE s \in {RefreshScopeCombo \o RefreshRows, OnInitDialog(RefreshAndShow)}
  BY <1>2, ComboTodo
<1>3. QED BY <1>1, <1>2

LEMMA PlainHead ==
    ASSUME TodoOK', todo' # <<>> => todo'[1][1] \in Plain
    PROVE  ~Task("show value")' /\ ~Task("end drag")'
<1>1. ASSUME NEW name, name \notin Plain PROVE ~Task(name)' BY <1>1, TaskNext
<1>2. QED BY <1>1 DEF Plain

\* Only asking a row leaves a drag to be ended.
LEMMA EndDragIsNew ==
    ASSUME TypeInv, [Next]_vars, ~AskRow, Task("end drag")'
    PROVE  UNCHANGED todo
<1>1. TodoOK /\ TodoOK' BY TodoStep DEF TypeInv
<1>2. ~Begun
  <2> SUFFICES ASSUME Begun PROVE FALSE OBVIOUS
  <2>1. todo' # <<>> /\ todo'[1][1] = "end drag" BY <1>1, TaskNext
  <2>2. todo'[1][1] \in Plain \cup {"reset"}
    BY <2>1, NewTodo, ShowTodo, ComboTodo DEF Begun
  <2>3. QED BY <2>1, <2>2 DEF Plain
<1>3. ~(todo # <<>> /\ Then(<<>>))
  <2> SUFFICES ASSUME todo # <<>>, Then(<<>>) PROVE FALSE OBVIOUS
  <2>1. todo' # <<>> /\ todo'[1][1] = "end drag" BY <1>1, TaskNext
  <2>2. todo'[1][1] \in Plain \cup {"list"} BY <1>1, <2>1, DropWellFormed
  <2>3. QED BY <2>1, <2>2 DEF Plain
<1>4. CASE ListMonitor
  <2>1. Task("select")' => FALSE BY DEF Task
  <2>2. QED BY <1>1, <1>4, <2>1, ListPhase
<1>5. CASE ResetList \/ SelectMonitor \/ EndDrag \/ ShowValue \/ Arm \/ ShowWindow
  BY <1>3, <1>5 DEF ResetList, SelectMonitor, EndDrag, ShowValue, Arm, ShowWindow, Task
<1>6. CASE Launch \/ SelectScope
  BY <1>2, <1>6 DEF Launch, SelectScope, Begun, dialogVars
<1>7. QED
  BY <1>2, <1>4, <1>5, <1>6, SameScopeSteps DEF RowTask

LEMMA GrayStep == TypeInv /\ GrayInv /\ [Next]_vars => GrayInv'
<1> SUFFICES ASSUME TypeInv, GrayInv, [Next]_vars PROVE GrayInv' OBVIOUS
<1>1. TypeOK /\ TodoOK /\ posted \in Nat
  <2>1. TypeOK /\ TodoOK BY DEF TypeInv
  <2>2. posted \in Nat BY <2>1, DialogAssumption DEF TypeOK
  <2>3. QED BY <2>1, <2>2
<1>2. ASSUME AskRow, Task("end drag")'
      PROVE  ~SupportsParam(Head(todo)[2], m_scope)'
  <2> DEFINE param == Head(todo)[2]
  <2>1. todo # <<>> /\ UNCHANGED <<m_ready, m_channels, m_scope>>
    BY <1>1, <1>2, AskLeaves DEF AskRow, viewVars, stateVars, settingVars
  <2>2. ~Then(<<>>)
    <3> SUFFICES ASSUME Then(<<>>) PROVE FALSE OBVIOUS
    <3>1. TodoOK' /\ (todo' # <<>> => todo'[1][1] \in Plain)
      BY <1>1, <1>2, <2>1, AskLeaves, DropWellFormed
    <3>2. QED BY <1>2, <3>1, PlainHead
  <2>3. PICK next \in TaskType :
           next[2] = param /\ Leads(todo[1], next) /\ Then(<<next>>)
    BY <1>1, <1>2, <2>2, AskLeaves
  <2>4. TodoOK' /\ todo' # <<>> /\ todo'[1] = next
    BY <1>1, <2>1, <2>3, SwapWellFormed
  <2>5. Head(todo') = next BY <2>4, HeadOf DEF TodoOK, WellFormed
  <2>6. next[1] = "end drag" BY <1>2, <2>4, TaskNext
  <2>7. ~SupportsParam(param, m_scope)
    <3> SUFFICES ASSUME SupportsParam(param, m_scope) PROVE FALSE OBVIOUS
    <3>1. Then(IF m_dragging[param] THEN <<>> ELSE << <<"show value", param>> >>)
      BY <1>2 DEF AskRow, Ready, SupportsParam
    <3> DEFINE value == <<"show value", param>>
    <3>2. Then(<<value>>) BY <2>2, <3>1
    <3>3. value \in TaskType /\ value[1] = "show value"
      BY <1>1, <1>2, AskLeaves DEF TaskType
    <3> HIDE DEF value
    <3>4. todo'[1] = value BY <1>1, <2>1, <3>2, <3>3, SwapHead
    <3>5. QED BY <2>4, <2>6, <3>3, <3>4
  <2>8. Head(todo')[2] = param BY <2>3, <2>5
  <2> HIDE DEF param
  <2>9. QED BY <2>1, <2>7, <2>8 DEF SupportsParam
<1>3. ASSUME ~AskRow, posted' = 0, Task("end drag")'
      PROVE  ~SupportsParam(Head(todo)[2], m_scope)'
  <2>1. UNCHANGED todo BY <1>3, EndDragIsNew
  <2>2. Task("end drag") BY <1>3, <2>1 DEF Task
  <2>3. todo # <<>> BY <2>2 DEF Task
  <2>4. CASE Worker
    <3>1. UNCHANGED <<m_ready, m_channels, m_scope, posted>>
      <4>1. posted' = 0 BY <1>3
      <4>2. ~SwapAndPost BY <1>1, <4>1 DEF SwapAndPost
      <4>3. QED
        BY <2>4, <4>2 DEF Worker, Take, Refresh, dialogVars, stateVars, settingVars
    <3>2. posted = 0 BY <1>3, <3>1
    <3>3. QED BY <2>1, <2>2, <3>1, <3>2 DEF GrayInv, SupportsParam
  <2>5. CASE UNCHANGED vars
    BY <1>3, <2>1, <2>2, <2>5
    DEF GrayInv, SupportsParam, vars, viewVars, dialogVars, stateVars, settingVars
  <2>6. CASE Handler
    <3>1. ~Then(<<>>)
      <4> SUFFICES ASSUME Then(<<>>) PROVE FALSE OBVIOUS
      <4> DEFINE length == Len(todo)
      <4>1. length' = length - 1 /\ length \in Nat
        BY <1>1, <2>3, DropHead, HeadTask
      <4>2. length' = length BY <2>1
      <4> HIDE DEF length
      <4>3. QED BY <4>1, <4>2
    <3>2. ~Task("list") BY <2>2, OneTask
    <3>3. QED
      BY <1>3, <2>6, <3>1, <3>2
      DEF Handler, ResetList, ListMonitor, SelectMonitor, EndDrag, ShowValue, Arm,
          ShowWindow
  <2>7. CASE User \/ Launch \/ DetectTick \/ MonitorsChanged
    BY <2>3, <2>7
    DEF User, Launch, DetectTick, MonitorsChanged, Open, SelectScope, Hide,
        DisplayChange, Slide, Toggle, Scroll, Running, Idle
  <2>8. QED BY <2>4, <2>5, <2>6, <2>7 DEF Next
<1>4. QED BY <1>2, <1>3 DEF GrayInv

\* With nothing posted, the end of a drag is written nowhere.
LEMMA EndDragWritesNothing ==
    ASSUME TypeInv, GrayInv, posted = 0, EndDrag
    PROVE  UNCHANGED <<m_ready, m_channels, m_scope>>
<1> DEFINE param == Head(todo)[2]
           value == row[param].pos
<1>1. ViewOK /\ TypeOK /\ param \in Rows BY HeadIsRow DEF TypeInv, EndDrag
<1>2. ~SupportsParam(param, m_scope) BY DEF EndDrag, GrayInv
<1>3. CASE UNCHANGED viewVars BY <1>3 DEF viewVars, stateVars, settingVars
<1>4. CASE m_ready /\ AdjustTo(param, value)
  <2>1. value \in Percent BY <1>1 DEF TypeOK
  <2>2. MatchingIn(m_channels, param, m_scope) = {} BY <1>2, <1>4 DEF SupportsParam
  <2>3. m_channels' = [i \in DOMAIN m_channels |-> m_channels[i]]
        /\ UNCHANGED <<stateVars, settingVars>>
    BY <1>4, <2>2 DEF AdjustTo, Cache
  <2>4. m_channels' = m_channels BY <1>1, <2>3 DEF ViewOK
  <2>5. QED BY <2>3, <2>4 DEF stateVars, settingVars
<1>5. QED BY <1>3, <1>4 DEF EndDrag, Accepting

\* What a row shows stays true while nothing it depends on changes.
LEMMA GoodSame ==
    ASSUME NEW p, Good(p), ~AtValue(p), ~AtValue(p)',
           UNCHANGED <<m_ready, m_channels, m_scope>>,
           row'[p] = row[p], m_dragging'[p] = m_dragging[p]
    PROVE  Good(p)'
BY DEF Good, Answered, Truthful, Ready, SupportsParam, GetValue

\* A slider makes its own row true, and leaves the others as they are.
LEMMA SlideAnswer ==
    ASSUME ViewOK, NEW param, NEW pos \in Percent, AdjustTo(param, pos),
           SupportsParam(param, m_scope)
    PROVE  /\ m_ready' /\ SupportsParam(param, m_scope)'
           /\ GetValue(param, m_scope)' = pos
<1> DEFINE same == MatchingIn(m_channels, param, m_scope)
           shown == { m_channels'[i].current : i \in same }
<1>1. /\ m_ready /\ UNCHANGED <<stateVars, settingVars, workerVars>>
      /\ DOMAIN m_channels' = DOMAIN m_channels
      /\ \A i \in DOMAIN m_channels :
           /\ m_channels'[i].param = m_channels[i].param
           /\ m_channels'[i].monitorIndex = m_channels[i].monitorIndex
           /\ m_channels'[i].current = IF i \in same THEN pos
                                       ELSE m_channels[i].current
  BY AdjustToCaches
<1>2. m_ready' /\ m_scope' = m_scope BY <1>1 DEF stateVars, settingVars
<1>3. MatchingIn(m_channels', param, m_scope) = same
  BY <1>1, MatchingSame
<1>4. same # {} /\ same \subseteq DOMAIN m_channels
  BY DEF SupportsParam, MatchingIn
<1>5. \A i \in same : m_channels'[i].current = pos BY <1>1, <1>4
<1>6. ValueIn(m_channels', param, m_scope) =
        IF shown = {} THEN kValueUnsupported
        ELSE IF Cardinality(shown) = 1 THEN CHOOSE v \in shown : TRUE
        ELSE kValueMixed
  BY <1>3 DEF ValueIn
<1> HIDE DEF same
<1>7. shown = {pos} BY <1>4, <1>5
<1> HIDE DEF shown
<1>8. Cardinality({pos}) = 1 BY FS_Singleton
<1>9. ValueIn(m_channels', param, m_scope) = pos BY <1>6, <1>7, <1>8
<1>10. GetValue(param, m_scope)' = ValueIn(m_channels', param, m_scope)
  BY <1>2 DEF GetValue, ValueIn, MatchingIn
<1>11. SupportsParam(param, m_scope)'
  BY <1>2, <1>3, <1>4 DEF SupportsParam, MatchingIn
<1>12. QED BY <1>2, <1>9, <1>10, <1>11

LEMMA SlideOthers ==
    ASSUME ViewOK, NEW param, NEW pos \in Percent, AdjustTo(param, pos), NEW p,
           p # param
    PROVE  /\ Ready' = Ready /\ SupportsParam(p, m_scope)' = SupportsParam(p, m_scope)
           /\ GetValue(p, m_scope)' = GetValue(p, m_scope)
<1> DEFINE moved == MatchingIn(m_channels, param, m_scope)
           same == MatchingIn(m_channels, p, m_scope)
<1>1. /\ UNCHANGED <<stateVars, settingVars, workerVars>>
      /\ DOMAIN m_channels' = DOMAIN m_channels
      /\ \A i \in DOMAIN m_channels :
           /\ m_channels'[i].param = m_channels[i].param
           /\ m_channels'[i].monitorIndex = m_channels[i].monitorIndex
           /\ m_channels'[i].current = IF i \in moved THEN pos
                                       ELSE m_channels[i].current
  BY AdjustToCaches
<1>2. m_ready' = m_ready /\ m_scope' = m_scope BY <1>1 DEF stateVars, settingVars
<1>3. MatchingIn(m_channels', p, m_scope) = same BY <1>1, MatchingSame
<1>4. \A i \in same : i \in DOMAIN m_channels /\ i \notin moved BY DEF MatchingIn
<1>5. \A i \in same : m_channels'[i].current = m_channels[i].current
  BY <1>1, <1>4
<1>6. { m_channels'[i].current : i \in same } = { m_channels[i].current : i \in same }
  BY <1>5
<1>7. ValueIn(m_channels', p, m_scope) = ValueIn(m_channels, p, m_scope)
  BY <1>3, <1>6 DEF ValueIn
<1>8. GetValue(p, m_scope)' = GetValue(p, m_scope)
  BY <1>2, <1>7 DEF GetValue, ValueIn, MatchingIn
<1>9. SupportsParam(p, m_scope)' = SupportsParam(p, m_scope)
  BY <1>2, <1>3 DEF SupportsParam, MatchingIn
<1>10. QED BY <1>2, <1>8, <1>9 DEF Ready

\* Due rows: those of a window that is shown, or about to be.
Due == posted = 0 /\ (dialog = "shown" \/ Shows(todo))

LEMMA SlideTruth ==
    ASSUME TypeInv, TruthInv, Due', NEW param \in Rows,
           NEW pos \in SliderPositions \cup {row[param].pos}, Slide(param, pos),
           NEW p \in Rows
    PROVE  Good(p)'
<1>1. TypeOK /\ ViewOK /\ todo = <<>> /\ UNCHANGED <<todo, dialog, posted>>
  BY DEF TypeInv, Slide, Running, Idle
<1>2. pos \in Percent BY <1>1, SliderInRange
<1>3. \A q \in Rows : Good(q) /\ ~AtValue(q) /\ ~AtValue(q)'
  BY <1>1 DEF Due, Shows, TruthInv, AtValue, Task, Asked
<1>4. /\ row' = [row EXCEPT ![param].pos = pos, ![param].text = "number"]
      /\ m_dragging' = [m_dragging EXCEPT ![param] = m_dragging'[param]]
      /\ m_dragging'[param] \in BOOLEAN
      /\ row[param].enabled \/ m_dragging[param]
  BY <1>1 DEF Slide, TypeOK
<1>5. m_ready /\ SupportsParam(param, m_scope) /\ row[param].enabled
  BY <1>3, <1>4 DEF Good, Answered, Truthful, Ready
<1>6. AdjustTo(param, pos) BY <1>5 DEF Slide, Running, Accepting
<1>7. CASE p = param
  <2>1. m_ready' /\ SupportsParam(p, m_scope)' /\ GetValue(p, m_scope)' = pos
    BY <1>1, <1>2, <1>5, <1>6, <1>7, SlideAnswer
  <2>2. row'[p].enabled /\ row'[p].pos = pos /\ row'[p].text = "number"
    BY <1>1, <1>4, <1>5, <1>7 DEF TypeOK
  <2>3. pos # kValueMixed BY <1>2 DEF Percent, kValueMixed
  <2>4. Answered(p)' BY <2>1, <2>2 DEF Answered
  <2>5. Truthful(p)' BY <2>1, <2>2, <2>3 DEF Truthful, Ready
  <2>6. QED BY <2>4, <2>5 DEF Good
<1>8. CASE p # param
  <2>1. row'[p] = row[p] /\ m_dragging'[p] = m_dragging[p]
    BY <1>1, <1>4, <1>8 DEF TypeOK
  <2>2. /\ Ready' = Ready /\ SupportsParam(p, m_scope)' = SupportsParam(p, m_scope)
        /\ GetValue(p, m_scope)' = GetValue(p, m_scope)
    BY <1>1, <1>2, <1>6, <1>8, SlideOthers
  <2>3. QED BY <1>3, <2>1, <2>2 DEF Good, Answered, Truthful, Ready
<1>9. QED BY <1>7, <1>8

\* A handler's steps keep what is asked asked, and what is good good.
LEMMA HandlerTruth ==
    ASSUME TypeInv, GrayInv, TruthInv, Due', Handler, NEW p \in Rows
    PROVE  Asked(todo', p) \/ Good(p)'
<1>1. TypeOK /\ TodoOK /\ ViewOK BY DEF TypeInv
<1>2. CASE ResetList \/ SelectMonitor
  <2>1. Then(<<>>) /\ (Task("reset") \/ Task("select"))
    BY <1>2 DEF ResetList, SelectMonitor
  <2>2. todo # <<>> /\ todo[1][1] \in Combo /\ todo[1][1] # "ask"
    BY <1>1, <2>1, TaskNow DEF Combo
  <2>3. Asked(todo, p) BY <1>1, <2>2 DEF TodoOK, WellFormed
  <2>4. QED BY <1>1, <2>1, <2>2, <2>3, DropWellFormed
<1>3. CASE ListMonitor
  <2>1. todo # <<>> /\ todo[1][1] = "list" BY <1>1, <1>3, TaskNow DEF ListMonitor
  <2>2. Asked(todo, p) BY <1>1, <2>1 DEF TodoOK, WellFormed, Combo
  <2>3. CASE UNCHANGED todo BY <2>2, <2>3 DEF Asked
  <2>4. CASE Then(<< <<"select">> >>)
    <3>1. <<"select">> \in TaskType BY DEF TaskType
    <3>2. Leads(todo[1], <<"select">>) BY <2>1 DEF Leads
    <3>3. QED BY <1>1, <2>1, <2>2, <2>4, <3>1, <3>2, SwapWellFormed
  <2>5. QED BY <1>3, <2>3, <2>4 DEF ListMonitor
<1>4. CASE RowTask
  <2>1. /\ todo # <<>> /\ Head(todo) = todo[1]
        /\ posted = 0 /\ UNCHANGED <<m_ready, m_channels, m_scope>>
    <3>1. todo # <<>> /\ posted = 0
      BY <1>4 DEF RowTask, AskRow, EndDrag, ShowValue, Arm, ShowWindow, Due, Task
    <3>2. ~EndDrag => UNCHANGED <<m_ready, m_channels, m_scope>>
      BY <1>4 DEF RowTask, AskRow, ShowValue, Arm, ShowWindow, viewVars, stateVars,
                  settingVars
    <3>3. QED BY <1>1, <3>1, <3>2, HeadTask, EndDragWritesNothing
  <2>2. Asked(todo, p) \/ Good(p)
    <3>1. dialog = "shown" \/ Shows(todo)
      <4>1. CASE ShowWindow
        <5>1. 1 \in DOMAIN todo /\ todo[1][1] = "show"
          BY <1>1, <4>1, TaskNow, HeadTask DEF ShowWindow
        <5>2. QED BY <5>1 DEF Shows
      <4>2. CASE ~ShowWindow
        <5>1. UNCHANGED dialog 
          BY <1>4, <4>2 DEF RowTask, AskRow, EndDrag, ShowValue, Arm
        <5>2. Shows(todo') => Shows(todo)
          <6>1. CASE Then(<<>>) BY <1>1, <2>1, <6>1, DropWellFormed
          <6>2. ASSUME NEW next \in TaskType, Leads(todo[1], next), Then(<<next>>)
                PROVE  Shows(todo') => Shows(todo)
            BY <1>1, <2>1, <6>2, SwapWellFormed
          <6>3. QED
            BY <1>1, <1>4, <4>2, <6>1, <6>2, AskLeaves
            DEF RowTask, EndDrag, ShowValue, Arm
        <5>3. QED BY <5>1, <5>2 DEF Due
      <4>3. QED BY <4>1, <4>2
    <3>2. QED BY <2>1, <3>1 DEF TruthInv
  <2>3. CASE EndDrag \/ Arm \/ ShowWindow
    <3>1. PICK name \in {"end drag", "arm", "show"} : Task(name) /\ Then(<<>>)
      BY <2>3 DEF EndDrag, Arm, ShowWindow
    <3>2. todo[1][1] \in {"end drag", "arm", "show"} BY <1>1, <3>1, TaskNow
    <3>3. Asked(todo, p) => Asked(todo', p)
      BY <1>1, <2>1, <3>1, <3>2, DropWellFormed
    <3>4. TodoOK' /\ (todo' # <<>> => todo'[1][1] \in Plain)
      BY <1>1, <2>1, <3>1, <3>2, DropWellFormed
    <3>5. ~Task("show value")' BY <3>4, PlainHead
    <3>6. ~Task("show value") BY <3>1 DEF Task
    <3>7. row'[p] = row[p] /\ m_dragging'[p] = m_dragging[p]
      BY <2>3 DEF EndDrag, Arm, ShowWindow, rowVars
    <3>8. QED BY <2>1, <2>2, <3>3, <3>5, <3>6, <3>7, GoodSame DEF AtValue
  <2>4. CASE AskRow
    <3> DEFINE param == Head(todo)[2]
    <3>1. todo[1][1] = "ask" /\ todo[1][2] = param /\ param \in Rows
      BY <1>1, <2>1, <2>4, AskLeaves
    <3>2. ~Task("show value") BY <2>4, OneTask DEF AskRow
    <3>3. ASSUME Then(<<>>) PROVE ~Task("show value")'
      <4>1. TodoOK' /\ (todo' # <<>> => todo'[1][1] \in Plain)
        BY <1>1, <2>1, <3>1, <3>3, DropWellFormed
      <4>2. QED BY <4>1, PlainHead
    <3>4. ASSUME NEW next \in TaskType, next[2] = param, Leads(todo[1], next),
                 Then(<<next>>)
          PROVE  /\ next[1] = "show value" => Task("show value")'
                 /\ next[1] # "show value" => ~Task("show value")'
                 /\ Head(todo)'[2] = param
      <4>1. TodoOK' /\ todo' # <<>> /\ todo'[1] = next
        BY <1>1, <2>1, <3>4, SwapWellFormed
      <4>2. Head(todo') = next BY <4>1, HeadOf DEF TodoOK, WellFormed
      <4>3. QED BY <3>4, <4>1, <4>2, TaskNext
    <3>5. Task("show value")' => Head(todo)'[2] = param
      BY <1>1, <2>4, <3>3, <3>4, AskLeaves
    <3>6. CASE p # param
      <4>1. Asked(todo, p) => Asked(todo', p)
        <5>1. CASE Then(<<>>) BY <1>1, <2>1, <3>1, <3>6, <5>1, DropWellFormed
        <5>2. ASSUME NEW next \in TaskType, Leads(todo[1], next), Then(<<next>>)
              PROVE  Asked(todo, p) => Asked(todo', p)
          BY <1>1, <2>1, <3>1, <3>6, <5>2, SwapWellFormed
        <5>3. QED BY <1>1, <2>4, <5>1, <5>2, AskLeaves
      <4>2. ~AtValue(p) /\ ~AtValue(p)' BY <3>2, <3>5, <3>6 DEF AtValue
      <4>3. row'[p] = row[p] /\ m_dragging'[p] = m_dragging[p]
        BY <1>1, <2>4, <3>1, <3>6 DEF AskRow, GrayOut, TypeOK
      <4>4. QED BY <2>1, <2>2, <4>1, <4>2, <4>3, GoodSame
    <3>7. CASE p = param
      <4> DEFINE supported == SupportsParam(p, m_scope)
      <4>1. CASE ~(m_ready /\ supported)
        <5>1. PICK reason : GrayOut(p, reason)
                 /\ reason = IF m_ready THEN "not supported on this monitor"
                             ELSE "detecting..."
          BY <2>4, <3>7, <4>1 DEF AskRow, Ready
        <5>2. /\ row'[p].text = reason /\ ~row'[p].enabled /\ ~m_dragging'[p]
              /\ Then(IF m_dragging[p] THEN << <<"end drag", p>> >> ELSE <<>>)
          BY <1>1, <5>1 DEF GrayOut, TypeOK
        <5>3. ~AtValue(p)'
          <6> DEFINE next == <<"end drag", p>>
          <6>1. next \in TaskType /\ next[1] = "end drag" /\ next[2] = p
            BY DEF TaskType
          <6>2. Then(<<>>) \/ Then(<<next>>) BY <5>2
          <6> HIDE DEF next
          <6>3. Leads(todo[1], next) BY <3>1, <6>1 DEF Leads
          <6>4. ~Task("show value")' BY <3>3, <3>4, <3>7, <6>1, <6>2, <6>3
          <6>5. QED BY <6>4 DEF AtValue
        <5>4. Truthful(p)'
          BY <2>1, <4>1, <5>1, <5>2 DEF Truthful, Ready, SupportsParam
        <5>5. QED BY <5>2, <5>3, <5>4 DEF Good
      <4>2. CASE m_ready /\ supported
        <5>1. /\ row' = [row EXCEPT ![p].enabled = TRUE] /\ UNCHANGED m_dragging
              /\ Then(IF m_dragging[p] THEN <<>> ELSE << <<"show value", p>> >>)
          BY <2>4, <3>7, <4>2 DEF AskRow, Ready
        <5>2. Answered(p)'
          BY <1>1, <2>1, <4>2, <5>1 DEF Answered, SupportsParam, TypeOK
        <5>3. m_dragging'[p] \/ AtValue(p)'
          <6> DEFINE next == <<"show value", p>>
          <6>1. next \in TaskType /\ next[1] = "show value" /\ next[2] = p
            BY DEF TaskType
          <6>2. m_dragging'[p] \/ Then(<<next>>) BY <5>1
          <6> HIDE DEF next
          <6>3. Leads(todo[1], next) BY <3>1, <6>1 DEF Leads
          <6>4. Then(<<next>>) => Task("show value")' /\ Head(todo)'[2] = p
            BY <3>4, <3>7, <6>1, <6>3
          <6>5. QED BY <6>2, <6>4 DEF AtValue
        <5>4. QED BY <5>2, <5>3 DEF Good
      <4>3. QED BY <4>1, <4>2
    <3>8. QED BY <3>6, <3>7
  <2>5. CASE ShowValue
    <3> DEFINE param == Head(todo)[2]
               value == GetValue(param, m_scope)
    <3>1. /\ todo[1][1] = "show value" /\ param \in Rows /\ Task("show value")
          /\ Then(<<>>)
      BY <1>1, <2>1, <2>5, TaskHead DEF ShowValue
    <3>2. Asked(todo, p) => Asked(todo', p)
      BY <1>1, <2>1, <3>1, DropWellFormed
    <3>3. ~AtValue(p)'
      <4>1. TodoOK' /\ (todo' # <<>> => todo'[1][1] \in Plain)
        BY <1>1, <2>1, <3>1, DropWellFormed
      <4>2. QED BY <4>1, PlainHead DEF AtValue
    <3>4. /\ row' = [row EXCEPT
                       ![param].pos = Position(value),
                       ![param].text = IF value = kValueMixed THEN "varies"
                                       ELSE "number"]
          /\ UNCHANGED m_dragging
      BY <2>5 DEF ShowValue
    <3>5. CASE p # param
      <4>1. row'[p] = row[p] /\ m_dragging'[p] = m_dragging[p]
        BY <1>1, <3>1, <3>4, <3>5 DEF TypeOK
      <4>2. ~AtValue(p) BY <3>5 DEF AtValue
      <4>3. QED BY <2>1, <2>2, <3>2, <3>3, <4>1, <4>2, GoodSame
    <3>6. CASE p = param /\ Good(p)
      <4>1. Answered(p) BY <3>1, <3>6 DEF Good, AtValue
      <4>2. value \in Percent \cup {kValueMixed}
        BY <1>1, <3>6, <4>1, ValueRange DEF Answered
      <4>3. row'[p].enabled /\ row'[p].pos = Position(value)
            /\ row'[p].text = IF value = kValueMixed THEN "varies" ELSE "number"
        BY <1>1, <3>4, <3>6, <4>1 DEF TypeOK, Answered
      <4>4. GetValue(p, m_scope)' = GetValue(p, m_scope)
        BY <2>1 DEF GetValue, ValueIn, MatchingIn
      <4>5. m_ready' /\ SupportsParam(p, m_scope)'
        BY <2>1, <4>1 DEF Answered, SupportsParam
      <4>6. Answered(p)' BY <4>3, <4>5 DEF Answered
      <4>7. value = GetValue(p, m_scope) BY <3>6
      <4>8. Position(value) = IF value = kValueMixed THEN kNeutralSliderPos ELSE value
        BY <4>2 DEF Position, Percent, kValueMixed
      <4> HIDE DEF value
      <4>9. Truthful(p)'
        BY <4>3, <4>4, <4>5, <4>7, <4>8 DEF Truthful, Ready
      <4>10. QED BY <4>6, <4>9 DEF Good
    <3>7. QED BY <2>2, <3>2, <3>5, <3>6
  <2>6. QED BY <1>4, <2>3, <2>4, <2>5 DEF RowTask
<1>5. QED BY <1>2, <1>3, <1>4 DEF Handler, RowTask

LEMMA TruthStep == TypeInv /\ GrayInv /\ TruthInv /\ [Next]_vars => TruthInv'
<1> SUFFICES ASSUME TypeInv, GrayInv, TruthInv, [Next]_vars, Due', NEW p \in Rows
             PROVE  Asked(todo', p) \/ Good(p)'
  BY DEF TruthInv, Due, Good, AtValue, Answered, Truthful
<1>1. /\ TypeOK /\ MadeInv /\ posted \in Nat
  BY DialogAssumption DEF TypeInv, TypeOK
<1>2. CASE UNCHANGED <<m_ready, m_channels, m_scope, rowVars, posted, todo, dialog>>
  <2>1. Asked(todo, p) \/ Good(p) BY <1>2 DEF Due, Shows, TruthInv
  <2>2. CASE Asked(todo, p) BY <1>2, <2>2 DEF Asked
  <2>3. CASE Good(p)
    BY <1>2, <2>3 DEF Good, AtValue, Task, Answered, Truthful, Ready, SupportsParam,
                      GetValue, rowVars
  <2>4. QED BY <2>1, <2>2, <2>3
<1>3. CASE todo' \in {RefreshRows, RefreshAndShow, RefreshScopeCombo \o RefreshRows,
                      OnInitDialog(RefreshAndShow)}
  BY <1>3, BegunAsks
<1>4. CASE todo' = <<>> /\ dialog' # "shown"
  BY <1>4 DEF Due, Shows
<1>5. CASE Launch
  <2>1. todo' = <<>> /\ dialog' = "none"
    BY <1>1, <1>5 DEF Launch, MadeInv, Idle, dialogVars
  <2>2. QED BY <1>4, <2>1
<1>6. CASE Open \/ DetectTick \/ SelectScope
  BY <1>3, <1>6 DEF Open, DetectTick, SelectScope
<1>7. CASE MonitorsChanged
  BY <1>3, <1>4, <1>7 DEF MonitorsChanged
<1>8. CASE Hide
  BY <1>4, <1>8 DEF Hide, Running, Idle
<1>9. ASSUME NEW steps, Scroll(steps) PROVE Asked(todo', p) \/ Good(p)'
  BY <1>3, <1>4, <1>9 DEF Scroll
<1>10. ASSUME NEW param \in Rows,
              NEW pos \in SliderPositions \cup {row[param].pos}, Slide(param, pos)
       PROVE  Asked(todo', p) \/ Good(p)'
  BY <1>10, SlideTruth
<1>11. ASSUME NEW param, Toggle(param) PROVE Asked(todo', p) \/ Good(p)'
  BY <1>2, <1>11 DEF Toggle, SetParamEnabled, dialogVars, stateVars
<1>12. CASE DisplayChange
  BY <1>2, <1>12 DEF DisplayChange, RequestReenumerate, dialogVars, settingVars
<1>13. CASE Handler BY <1>13, HandlerTruth
<1>14. CASE SwapAndPost
  BY <1>1, <1>14 DEF SwapAndPost, Due
<1>15. CASE (Take \/ Refresh) /\ UNCHANGED dialogVars
  BY <1>2, <1>15 DEF Take, Refresh, dialogVars, stateVars, settingVars
<1>16. CASE UNCHANGED vars
  BY <1>2, <1>16 DEF vars, viewVars, dialogVars, stateVars, settingVars
<1>17. QED
  BY <1>5, <1>6, <1>7, <1>8, <1>9, <1>10, <1>11, <1>12, <1>13, <1>14, <1>15, <1>16
  DEF Next, User, Worker

(* A row the user sees and is not dragging shows what the coordinator says *)
(* of it in the scope in force once every message is handled, whatever was *)
(* enumerated, scrolled, slid or hidden in the middle of a refresh         *)
(* (SettingsDialog.cpp:134-157, 184-203, 473-547).                         *)
THEOREM RowsAlwaysTellTheTruth == Spec => []RowsTellTheTruth
<1>1. Init => TypeInv /\ GrayInv /\ TruthInv
  <2>1. Init => dialog = "none" /\ todo = <<>> BY Zenon DEF Init
  <2>2. Init => TruthInv BY <2>1 DEF TruthInv, Shows
  <2>3. Init => GrayInv BY <2>1 DEF GrayInv, Task
  <2>4. QED BY <2>2, <2>3, TypeInit
<1>2. TypeInv /\ [Next]_vars => TypeInv'
  BY ViewStep, TypeStep, TodoStep, MadeStep DEF TypeInv
<1>3. TypeInv /\ GrayInv /\ TruthInv /\ [Next]_vars =>
        (TypeInv /\ GrayInv /\ TruthInv)'
  BY <1>2, GrayStep, TruthStep
<1>4. TypeInv /\ TruthInv => RowsTellTheTruth
  <2> SUFFICES ASSUME TypeInv, TruthInv, dialog = "shown", Idle, posted = 0,
                      NEW p \in Rows, ~m_dragging[p]
               PROVE  Truthful(p)
    BY DEF RowsTellTheTruth
  <2>1. ~Asked(todo, p) /\ ~AtValue(p) BY DEF Idle, Asked, AtValue, Task
  <2>2. QED BY <2>1 DEF TruthInv, Good
<1>5. QED BY <1>1, <1>3, <1>4, PTL DEF Spec
=============================================================================
