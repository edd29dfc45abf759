------------------------- MODULE ThemeToggle_proofs -------------------------
(***************************************************************************)
(* Proofs about a page at rest, however its clicks, the changes of the      *)
(* system's theme, the calls and their answers have overlapped: its theme   *)
(* is the one that is stored, the one that is drawn and, in auto mode, the  *)
(* system's.                                                                *)
(*                                                                         *)
(* At rest all three hold because of what was under way before: the last    *)
(* write on its way to the storage carries the theme the page is in, the    *)
(* last report on its way to the page the theme the system is in, and       *)
(* whoever has changed the theme without drawing it still waits for an      *)
(* answer that does.                                                        *)
(***************************************************************************)
EXTENDS ThemeService_proofs

-----------------------------------------------------------------------------
(* The invariant *)

(* No toggle has overlapped Init and no call has failed, not even one whose *)
(* failure is still on its way.                                             *)
Undisturbed ==
  /\ ~disturbed
  /\ \A i \in DOMAIN answers : answers[i].value # "error"

(* What the page is to find in the storage.                                 *)
Chosen == IF isAutoMode THEN Null ELSE ToText(isDarkMode)

Write(m) == m.op \in {"setItem", "removeItem"}

NoWrite(queue) == \A i \in DOMAIN queue : ~Write(queue[i])

(* The last write of a queue is this one.                                   *)
LastWrite(queue, value) ==
  \A i \in DOMAIN queue :
    Write(queue[i]) /\ (\A j \in DOMAIN queue : j > i => ~Write(queue[j]))
      => queue[i].value = value

NoReport(queue) == \A i \in DOMAIN queue : queue[i].op # "report"

(* Whatever is said of the system's theme, and not taken back by a later    *)
(* report, is true.                                                         *)
Told(queue, system) ==
  \A i \in DOMAIN queue :
    /\ queue[i].op \in {"system", "report"}
    /\ \A j \in DOMAIN queue : j > i => queue[j].op # "report"
    => queue[i].value = ToText(system)

(* What travels after Init has decided.                                     *)
LateCall ==
  {m \in Request :
     /\ ~m.import
     /\ \/ m.by = "toggle" /\ m.op \in {"system", "setItem", "removeItem"}
        \/ m.by = "init" /\ m.op = "removeLoadingStyle"
     /\ m.op = "removeItem" => m.value = Null}

LateAnswer ==
  {m \in Message :
     /\ ~m.import
     /\ \/ m.by = "toggle" /\ m.op \in {"system", "setItem", "removeItem"}
        \/ m.by = "init" /\ m.op \in {"watch", "removeLoadingStyle"}
        \/ m.by = "browser" /\ m.op = "report"}

WatchAnswer == {m \in LateAnswer : m.op \in {"watch", "report"}}

(* A call of Init, the only one under way.                                  *)
InitMessage(op) == {m \in Message : m.by = "init" /\ m.op = op}

(* Nothing is stored, as far as this page has looked.                       *)
NothingSaved == Saved = Null \/ overwritten

(* Init waits for the stored theme ...                                      *)
Getting ==
  /\ isAutoMode
  /\ \E m \in InitMessage("getItem") :
       /\ m.import \/ moduleReady
       /\ \/ calls = <<m>> /\ imports = <<>> /\ answers = <<>>
          \/ calls = <<>> /\ imports = <<m>> /\ answers = <<>> /\ m.import
          \/ /\ calls = <<>> /\ imports = <<>> /\ answers = <<m>>
             /\ m.import \/ m.value = Saved \/ overwritten

(* ... for the system's ...                                                 *)
Asking ==
  /\ isAutoMode /\ moduleReady /\ NothingSaved /\ imports = <<>>
  /\ \E m \in InitMessage("system") :
       /\ ~m.import
       /\ \/ calls = <<m>> /\ answers = <<>>
          \/ /\ calls = <<>> /\ answers = <<m>>
             /\ m.value = ToText(prefersDark) \/ unseen

(* The page has the system's theme, or will be told.                        *)
Follows ==
  /\ Told(answers, prefersDark)
  /\ isAutoMode /\ NoReport(answers) => isDarkMode = prefersDark

(* ... and for the watch.                                                   *)
Subscribing ==
  /\ isAutoMode /\ moduleReady /\ NothingSaved /\ imports = <<>>
  /\ \/ /\ ~watching
        /\ \E m \in InitMessage("watch") : ~m.import /\ calls = <<m>>
        /\ answers = <<>>
        /\ isDarkMode = prefersDark \/ unseen
     \/ /\ watching
        /\ calls = <<>>
        /\ answers \in Seq(WatchAnswer)
        /\ unseen \/ Follows

(* The storage has the theme of the page, or is about to get it.            *)
Stores ==
  /\ LastWrite(calls, Chosen)
  /\ NoWrite(calls) => Saved = Chosen \/ overwritten

(* The page is drawn in its theme, or is about to be.                       *)
Draws == NoWrite(calls) /\ NoWrite(answers) => rendered = isDarkMode

(* Init has decided: the storage's module is there, so nothing is imported  *)
(* and no call can overtake another.                                        *)
Running ==
  /\ moduleReady /\ imports = <<>>
  /\ calls \in Seq(LateCall)
  /\ answers \in Seq(LateAnswer)
  /\ watching => unseen \/ Follows
  /\ Stores
  /\ Draws

Course ==
  /\ phase \in {"none", "import"} => isAutoMode
  /\ phase = "get" => Getting
  /\ phase = "system" => Asking
  /\ phase = "watch" => Subscribing
  /\ phase \in {"style", "done"} => Running
  /\ phase \in {"get", "system"} => ~watching

(* Before Init has begun to work, and when nobody is left to wait for       *)
(* anything.                                                                *)
Idle == phase \in {"none", "import", "failed"} => Nothing /\ ~watching

Removal(m) == m.op = "removeLoadingStyle" /\ ~m.import

NoRemoval(queue) == \A i \in DOMAIN queue : ~Removal(queue[i])

(* WebAssembly: the only hook that puts the inline style there has run      *)
(* before the first component, and the style is gone before Init learns it. *)
Bare ==
  renderer = "WebAssembly" =>
    /\ phase # "none" => "beforeWebAssemblyStart" \in hooks
    /\ style => phase # "done" /\ NoRemoval(answers)

(* Only imports are fetched.                                                *)
ImportCall == {m \in Request : m.import}

Fetched == imports \in Seq(ImportCall)

ToggleInv == Idle /\ Fetched /\ Bare /\ (Undisturbed => Course)

-----------------------------------------------------------------------------
(* Queues: what is true of one stays true when its head is taken, and what  *)
(* is appended decides what is said last.                                   *)

LEMMA NoWriteTaken ==
  ASSUME NEW S, NEW q \in Seq(S), q # <<>>, NoWrite(Tail(q)), ~Write(Head(q))
  PROVE  NoWrite(q)
<1> SUFFICES ASSUME NEW i \in DOMAIN q PROVE ~Write(q[i])
  BY DEF NoWrite
<1>1. CASE i = 1
  BY <1>1, TailIndices
<1>2. CASE i - 1 \in DOMAIN Tail(q)
  <2>1. Tail(q)[i - 1] = q[i - 1 + 1] /\ i - 1 + 1 = i
    BY <1>2, TailIndices
  <2> QED
    BY <1>2, <2>1 DEF NoWrite
<1> QED
  BY <1>1, <1>2, TailIndices

LEMMA WriteTaken ==
  ASSUME NEW S, NEW q \in Seq(S), q # <<>>, NEW value, LastWrite(q, value)
  PROVE  /\ LastWrite(Tail(q), value)
         /\ NoWrite(Tail(q)) /\ Write(Head(q)) => Head(q).value = value
         /\ NoWrite(Tail(q)) /\ ~Write(Head(q)) => NoWrite(q)
<1> USE TailIndices DEF LastWrite, NoWrite
<1>1. LastWrite(Tail(q), value)
  <2> SUFFICES ASSUME NEW i \in DOMAIN Tail(q), Write(Tail(q)[i]),
                      \A j \in DOMAIN Tail(q) : j > i => ~Write(Tail(q)[j])
               PROVE  Tail(q)[i].value = value
    OBVIOUS
  <2>1. \A j \in DOMAIN q : j > i + 1 => ~Write(q[j])
    <3> TAKE j \in DOMAIN q
    <3> HAVE j > i + 1
    <3>1. j - 1 \in DOMAIN Tail(q) /\ j - 1 > i /\ Tail(q)[j - 1] = q[j - 1 + 1]
      OBVIOUS
    <3>2. j - 1 + 1 = j
      OBVIOUS
    <3> QED
      BY <3>1, <3>2
  <2> QED
    BY <2>1
<1>2. ASSUME NoWrite(Tail(q))
      PROVE  \A j \in DOMAIN q : j > 1 => ~Write(q[j])
  <2> TAKE j \in DOMAIN q
  <2> HAVE j > 1
  <2>1. j - 1 \in DOMAIN Tail(q) /\ Tail(q)[j - 1] = q[j - 1 + 1] /\ j - 1 + 1 = j
    OBVIOUS
  <2> QED
    BY <1>2, <2>1
<1> QED
  BY <1>1, <1>2

LEMMA WriteAppended ==
  ASSUME NEW S, NEW q \in Seq(S), NEW m
  PROVE  /\ Write(m) => LastWrite(Append(q, m), m.value) /\ ~NoWrite(Append(q, m))
         /\ ~Write(m) => /\ NoWrite(Append(q, m)) <=> NoWrite(q)
                         /\ \A value : LastWrite(q, value) =>
                                         LastWrite(Append(q, m), value)
BY AppendIndices DEF LastWrite, NoWrite

LEMMA ReportTaken ==
  ASSUME NEW S, NEW q \in Seq(S), q # <<>>, NEW system, Told(q, system)
  PROVE  /\ Told(Tail(q), system)
         /\ NoReport(Tail(q)) /\ Head(q).op \in {"system", "report"} =>
              Head(q).value = ToText(system)
         /\ NoReport(Tail(q)) /\ Head(q).op # "report" => NoReport(q)
<1> USE TailIndices DEF Told, NoReport
<1>1. Told(Tail(q), system)
  <2> SUFFICES ASSUME NEW i \in DOMAIN Tail(q),
                      Tail(q)[i].op \in {"system", "report"},
                      \A j \in DOMAIN Tail(q) : j > i => Tail(q)[j].op # "report"
               PROVE  Tail(q)[i].value = ToText(system)
    OBVIOUS
  <2>1. \A j \in DOMAIN q : j > i + 1 => q[j].op # "report"
    <3> TAKE j \in DOMAIN q
    <3> HAVE j > i + 1
    <3>1. j - 1 \in DOMAIN Tail(q) /\ j - 1 > i /\ Tail(q)[j - 1] = q[j - 1 + 1]
      OBVIOUS
    <3>2. j - 1 + 1 = j
      OBVIOUS
    <3> QED
      BY <3>1, <3>2
  <2> QED
    BY <2>1
<1>2. ASSUME NoReport(Tail(q))
      PROVE  \A j \in DOMAIN q : j > 1 => q[j].op # "report"
  <2> TAKE j \in DOMAIN q
  <2> HAVE j > 1
  <2>1. j - 1 \in DOMAIN Tail(q) /\ Tail(q)[j - 1] = q[j - 1 + 1] /\ j - 1 + 1 = j
    OBVIOUS
  <2> QED
    BY <1>2, <2>1
<1> QED
  BY <1>1, <1>2

LEMMA ReportAppended ==
  ASSUME NEW S, NEW q \in Seq(S), NEW m, NEW system
  PROVE  /\ m.op = "report" /\ m.value = ToText(system) =>
              Told(Append(q, m), system) /\ ~NoReport(Append(q, m))
         /\ m.op # "report" => (NoReport(Append(q, m)) <=> NoReport(q))
         /\ /\ Told(q, system)
            /\ m.op # "report"
            /\ m.op = "system" => m.value = ToText(system)
            => Told(Append(q, m), system)
BY AppendIndices DEF Told, NoReport

-----------------------------------------------------------------------------
(* Before Init works, and after a failure nobody catches                    *)

LEMMA IdleStep ==
  ASSUME Idle, Next
  PROVE  Idle'
<1> USE DEF Idle, Nothing
<1>1. CASE Boot \/ OtherTab \/ FirstRender
  BY <1>1 DEF Boot, OtherTab, FirstRender, themeVars, service, wire
<1>2. CASE Service
  BY <1>2
     DEF Service, ThemeModuleFails, InitTheme, UseSaved, AskSystem, Watch, Watched,
         InitThemeFails, InitEnds, LeaveAuto, EnterAuto, Flip, ToggleEnds,
         ToggleFails, OnSystemThemeChanged, StorageModuleImported, Receive, Failed,
         Fail, service
<1>3. CASE Browser
  BY <1>3
     DEF Browser, StartImport, FinishImport, ImportFails, RunGetItem, RunSetItem,
         RunRemoveItem, RunGetSystemDarkMode, RunWatchSystemDarkMode,
         RemoveLoadingStyle, CallFails, Run, UnchangedService, service
<1>4. CASE User
  BY <1>4 DEF User, Open, FreshService, ToggleTooEarly, ToggleTheme, Click, Fail,
              service, wire
<1>5. CASE SystemChanges
  BY <1>5 DEF SystemChanges, service
<1> QED
  BY <1>1, <1>2, <1>3, <1>4, <1>5 DEF Next

(* What a step does to the answers: a failure leaves them by being noticed, *)
(* or with the circuit.                                                     *)
LEMMA AnswersStep ==
  ASSUME Next, ~Open
  PROVE  /\ disturbed => disturbed'
         /\ \/ UNCHANGED answers
            \/ /\ answers # <<>>
               /\ answers' = Tail(answers)
               /\ Head(answers).value # "error" \/ disturbed'
            \/ answers' = <<>> /\ (phase = "import" \/ disturbed')
            \/ \E m : answers' = Append(answers, m)
<1>1. CASE Boot \/ OtherTab \/ FirstRender
  BY <1>1 DEF Boot, OtherTab, FirstRender, themeVars, wire, history
<1>2. CASE Service
  BY <1>2
     DEF Service, ThemeModuleFails, InitTheme, UseSaved, AskSystem, Watch, Watched,
         InitThemeFails, InitEnds, LeaveAuto, EnterAuto, Flip, ToggleEnds,
         ToggleFails, OnSystemThemeChanged, StorageModuleImported, Receive, Failed,
         Fail, service, history
<1>3. CASE Browser
  BY <1>3
     DEF Browser, StartImport, FinishImport, ImportFails, RunGetItem, RunSetItem,
         RunRemoveItem, RunGetSystemDarkMode, RunWatchSystemDarkMode,
         RemoveLoadingStyle, CallFails, Reply, UnchangedService
<1>4. CASE ToggleTooEarly
  BY <1>4 DEF ToggleTooEarly, Fail, wire, history
<1>5. CASE ToggleTheme
  <2>1. disturbed' = (disturbed \/ phase \in {"get", "system", "watch"})
    BY <1>5 DEF ToggleTheme
  <2>2. disturbed => disturbed'
    BY <2>1, Zenon
  <2> QED
    BY <1>5, <2>2 DEF ToggleTheme
<1>6. CASE SystemChanges
  BY <1>6 DEF SystemChanges
<1> QED
  BY <1>1, <1>2, <1>3, <1>4, <1>5, <1>6 DEF Next, User

LEMMA UndisturbedBefore ==
  ASSUME ThemeOK, Idle, Next, ~Open, Undisturbed'
  PROVE  Undisturbed
<1>1. answers \in Seq(Message)
  BY DEF ThemeOK, WireOK
<1>2. ~disturbed /\ ~disturbed'
  BY AnswersStep DEF Undisturbed
<1>3. CASE UNCHANGED answers
  BY <1>2, <1>3 DEF Undisturbed
<1>4. CASE answers # <<>> /\ answers' = Tail(answers) /\ Head(answers).value # "error"
  <2> SUFFICES ASSUME NEW i \in DOMAIN answers PROVE answers[i].value # "error"
    BY <1>2 DEF Undisturbed
  <2>1. CASE i = 1
    BY <1>1, <1>4, <2>1, TailIndices
  <2>2. CASE i - 1 \in DOMAIN Tail(answers)
    <3>1. Tail(answers)[i - 1] = answers[i - 1 + 1] /\ i - 1 + 1 = i
      BY <1>1, <1>4, <2>2, TailIndices
    <3> QED
      BY <1>4, <2>2, <3>1 DEF Undisturbed
  <2> QED
    BY <1>1, <1>4, <2>1, <2>2, TailIndices
<1>5. CASE phase = "import"
  BY <1>2, <1>5 DEF Undisturbed, Idle, Nothing
<1>6. CASE \E m : answers' = Append(answers, m)
  <2>1. PICK m : answers' = Append(answers, m)
    BY <1>6
  <2>2. \A i \in DOMAIN answers : i \in DOMAIN answers' /\ answers'[i] = answers[i]
    BY <1>1, <2>1, AppendIndices
  <2> QED
    BY <1>2, <2>2 DEF Undisturbed
<1> QED
  BY <1>2, <1>3, <1>4, <1>5, <1>6, AnswersStep

LEMMA FetchedStep ==
  ASSUME ThemeOK, Fetched, Next
  PROVE  Fetched'
<1> USE DEF Fetched
<1>1. CASE StartImport
  <2>1. Called \in ImportCall
    BY <1>1, TakeCall DEF StartImport, ThemeOK, ImportCall
  <2> QED
    BY <1>1, <2>1 DEF StartImport
<1>2. CASE UNCHANGED imports \/ imports' = <<>>
  <2>1. <<>> \in Seq(ImportCall)
    OBVIOUS
  <2> QED
    BY <1>2, <2>1
<1>3. CASE imports # <<>> /\ imports' = Tail(imports)
  BY <1>3
<1>4. CASE Boot \/ OtherTab \/ FirstRender \/ SystemChanges
  BY <1>2, <1>4 DEF Boot, OtherTab, FirstRender, SystemChanges, themeVars, wire
<1>5. CASE Service
  BY <1>2, <1>5
     DEF Service, ThemeModuleFails, InitTheme, UseSaved, AskSystem, Watch, Watched,
         InitThemeFails, InitEnds, LeaveAuto, EnterAuto, Flip, ToggleEnds,
         ToggleFails, OnSystemThemeChanged, StorageModuleImported, Fail
<1>6. CASE Browser
  BY <1>1, <1>2, <1>3, <1>6
     DEF Browser, FinishImport, ImportFails, RunGetItem, RunSetItem,
         RunRemoveItem, RunGetSystemDarkMode, RunWatchSystemDarkMode,
         RemoveLoadingStyle, CallFails
<1>7. CASE User
  BY <1>2, <1>7
     DEF User, Open, FreshService, ToggleTooEarly, ToggleTheme, Fail, wire
<1> QED
  BY <1>4, <1>5, <1>6, <1>7 DEF Next

-----------------------------------------------------------------------------
(* The inline style                                                         *)

LEMMA RemovalQueue ==
  ASSUME NEW S, NEW q \in Seq(S), NoRemoval(q)
  PROVE  /\ q # <<>> => ~Removal(Head(q)) /\ NoRemoval(Tail(q))
         /\ \A m : ~Removal(m) => NoRemoval(Append(q, m))
         /\ NoRemoval(<<>>)
<1>1. q # <<>> => ~Removal(Head(q)) /\ NoRemoval(Tail(q))
  BY TailIndices DEF NoRemoval
<1>2. \A m : ~Removal(m) => NoRemoval(Append(q, m))
  BY AppendIndices DEF NoRemoval
<1> QED
  BY <1>1, <1>2 DEF NoRemoval

(* No step but the last of Init and the removal itself has to be looked at. *)
LEMMA BareKept ==
  ASSUME ThemeOK, Bare, renderer' = renderer, hooks \subseteq hooks',
         style' => style, phase' # "none" => phase # "none",
         phase' = "done" => phase = "done",
         \/ answers' = answers
         \/ answers' = <<>>
         \/ answers # <<>> /\ answers' = Tail(answers)
         \/ \E m : ~Removal(m) /\ answers' = Append(answers, m)
  PROVE  Bare'
<1>1. answers \in Seq(Message)
  BY DEF ThemeOK, WireOK
<1>2. NoRemoval(answers) => NoRemoval(answers')
  BY <1>1, RemovalQueue
<1>3. NoRemoval(answers)' = NoRemoval(answers')
  BY DEF NoRemoval
<1> QED
  BY <1>2, <1>3 DEF Bare

LEMMA BareService ==
  ASSUME ThemeOK, Idle, Bare, Service
  PROVE  Bare'
<1>1. UNCHANGED screen
  BY DEF Service, ThemeModuleFails, InitTheme, UseSaved, AskSystem, Watch, Watched,
         InitThemeFails, InitEnds, LeaveAuto, EnterAuto, Flip, ToggleEnds,
         ToggleFails, OnSystemThemeChanged, StorageModuleImported, pageVars
<1>2. UNCHANGED <<renderer, hooks, style>>
  BY <1>1 DEF screen, visit
<1>3. CASE InitEnds
  <2>1. Removal(Head(answers)) /\ answers # <<>>
    BY <1>3 DEF InitEnds, Receive, Removal
  <2>2. ~NoRemoval(answers)
    BY <2>1, RemovalQueue DEF ThemeOK, WireOK
  <2>3. phase # "none"
    BY <2>1 DEF Idle, Nothing
  <2> QED
    BY <1>2, <2>2, <2>3 DEF Bare
<1>4. CASE ~InitEnds
  <2>1. phase # "none" /\ (phase' = "done" => phase = "done")
    BY <1>4
       DEF Service, ThemeModuleFails, InitTheme, UseSaved, AskSystem, Watch, Watched,
           InitThemeFails, LeaveAuto, EnterAuto, Flip, ToggleEnds, ToggleFails,
           OnSystemThemeChanged, StorageModuleImported, Receive, Failed, Fail, Idle,
           Nothing, service
  <2>2. \/ answers' = answers
        \/ answers' = <<>>
        \/ answers # <<>> /\ answers' = Tail(answers)
    BY <1>4
       DEF Service, ThemeModuleFails, InitTheme, UseSaved, AskSystem, Watch, Watched,
           InitThemeFails, LeaveAuto, EnterAuto, Flip, ToggleEnds, ToggleFails,
           OnSystemThemeChanged, StorageModuleImported, Receive, Failed, Fail, service
  <2> QED
    BY <1>2, <2>1, <2>2, BareKept
<1> QED
  BY <1>3, <1>4

LEMMA BareBrowser ==
  ASSUME ThemeOK, Idle, Fetched, Bare, Browser
  PROVE  Bare'
<1> USE DEF UnchangedService, service
<1>1. UNCHANGED <<renderer, hooks, phase>> /\ (style' => style)
  BY DEF Browser, StartImport, FinishImport, ImportFails, RunGetItem, RunSetItem,
         RunRemoveItem, RunGetSystemDarkMode, RunWatchSystemDarkMode,
         RemoveLoadingStyle, CallFails, pageVars, screen, visit,
         UnchangedPageButStorage
<1>2. CASE RemoveLoadingStyle
  BY <1>1, <1>2 DEF RemoveLoadingStyle, Bare
<1>3. CASE StartImport
  BY <1>1, <1>3, BareKept DEF StartImport
<1>4. CASE FinishImport \/ ImportFails
  <2>1. Head(imports) \in ImportCall
    BY <1>4 DEF Fetched, FinishImport, ImportFails
  <2>2. PICK m : /\ answers' = Append(answers, m)
                 /\ \/ m = Head(imports)
                    \/ m = [Head(imports) EXCEPT !.value = "error"]
    BY <1>4 DEF FinishImport, ImportFails, Reply
  <2>3. m.import
    BY <2>1, <2>2 DEF ImportCall, Request
  <2> QED
    BY <1>1, <2>2, <2>3, BareKept DEF Removal
<1>5. CASE \/ RunGetItem \/ RunSetItem \/ RunRemoveItem
           \/ RunGetSystemDarkMode \/ RunWatchSystemDarkMode \/ CallFails
  <2>1. Called \in Request /\ Called.op # "removeLoadingStyle"
    BY <1>5, TakeCall
       DEF RunGetItem, RunSetItem, RunRemoveItem, RunGetSystemDarkMode,
           RunWatchSystemDarkMode, CallFails, Run, Called, ThemeOK
  <2>2. PICK value : Reply(Called, value)
    BY <1>5
       DEF RunGetItem, RunSetItem, RunRemoveItem, RunGetSystemDarkMode,
           RunWatchSystemDarkMode, CallFails
  <2>3. [Called EXCEPT !.value = value].op = Called.op
    BY <2>1 DEF Request
  <2> QED
    BY <1>1, <2>1, <2>2, <2>3, BareKept DEF Reply, Removal
<1> QED
  BY <1>2, <1>3, <1>4, <1>5 DEF Browser

LEMMA BareStep ==
  ASSUME PageOK, ThemeOK, Idle, Fetched, Bare, Next
  PROVE  Bare'
<1>1. CASE Service
  BY <1>1, BareService
<1>2. CASE Browser
  BY <1>2, BareBrowser
<1>3. CASE Open
  BY <1>3 DEF Open, OpenPage, FreshPage, FreshService, Bare
<1>4. CASE ToggleTooEarly \/ ToggleTheme
  <2>1. phase # "none" /\ UNCHANGED <<renderer, hooks, style>>
    BY <1>4 DEF ToggleTooEarly, ToggleTheme, Click, screen, visit
  <2>2. /\ phase' = "done" => phase = "done"
        /\ answers' = answers \/ answers' = <<>>
    BY <1>4 DEF ToggleTooEarly, ToggleTheme, Fail, service, wire
  <2> QED
    BY <2>1, <2>2, BareKept
<1>5. CASE SystemChanges
  <2>1. UNCHANGED <<renderer, hooks, style, phase>>
    BY <1>5 DEF SystemChanges, SystemThemeChanges, UnchangedPage, service
  <2>2. \/ answers' = answers
        \/ \E m : ~Removal(m) /\ answers' = Append(answers, m)
    BY <1>5 DEF SystemChanges, Removal
  <2> QED
    BY <2>1, <2>2, BareKept
<1>6. CASE OtherTab
  BY <1>6, BareKept
     DEF OtherTab, OtherTabStores, UnchangedPage, service, wire
<1>7. CASE FirstRender
  BY <1>7 DEF FirstRender, RuntimeRuns, Bare, pageVars, screen, visit, wire
<1>8. CASE Boot
  <2>1. UNCHANGED <<phase, answers>> /\ hooks \subseteq hooks'
    BY <1>8
       DEF Boot, Hook, BeforeServerStart, BeforeWebAssemblyStart, AfterServerStarted,
           AfterWebAssemblyStarted, LoadBootResource, Call, themeVars, service, wire
  <2>2. renderer' = renderer \/ renderer' = "none"
    BY <1>8
       DEF Boot, Hook, BeforeServerStart, BeforeWebAssemblyStart, AfterServerStarted,
           AfterWebAssemblyStarted, ApplyThemeInitialization, GiveUp,
           CompleteInitialization, LoadBootResource, visit
  <2>3. CASE renderer' # "WebAssembly"
    BY <2>3 DEF Bare
  <2>4. CASE renderer' = "WebAssembly" /\ BeforeWebAssemblyStart
    <3>1. phase = "none" /\ "beforeWebAssemblyStart" \in hooks'
      BY <2>2, <2>4 DEF BeforeWebAssemblyStart, Call, Bare
    <3>2. NoRemoval(answers)'
      BY <2>1, <3>1 DEF Idle, Nothing, NoRemoval
    <3> QED
      BY <2>1, <3>1, <3>2 DEF Bare
  <2>5. CASE /\ renderer' = "WebAssembly"
             /\ AfterServerStarted \/ AfterWebAssemblyStarted \/ LoadBootResource
    <3>1. style' = style
      BY <2>5 DEF AfterServerStarted, AfterWebAssemblyStarted,
                  CompleteInitialization, LoadBootResource
    <3> QED
      BY <2>1, <2>2, <2>5, <3>1, BareKept
  <2>6. BeforeServerStart => renderer' # "WebAssembly"
    BY <2>2 DEF BeforeServerStart
  <2> QED
    BY <1>8, <2>3, <2>4, <2>5, <2>6 DEF Boot, Hook
<1> QED
  BY <1>1, <1>2, <1>3, <1>4, <1>5, <1>6, <1>7, <1>8 DEF Next, User

-----------------------------------------------------------------------------
(* Before Init has decided, one message is under way                        *)

LEMMA Alone ==
  ASSUME NEW m
  PROVE  /\ <<m>> # <<>> /\ Head(<<m>>) = m /\ Tail(<<m>>) = <<>>
         /\ Append(<<>>, m) = <<m>>
OBVIOUS

LEMMA Reread ==
  /\ \A dark \in BOOLEAN : Parse(ToText(dark)) = dark
  /\ \A text \in Text \ {Null} : ToText(Parse(text)) = text
BY DEF Parse, ToText, Text

(* While nothing is disturbed no call has failed.                           *)
LEMMA NoFailure ==
  ASSUME ThemeOK, Undisturbed, Undisturbed'
  PROVE  /\ ~ImportFails /\ ~CallFails /\ ~InitThemeFails /\ ~ToggleFails
         /\ ToggleTheme => phase \notin {"get", "system", "watch"}
<1>1. answers \in Seq(Message) /\ calls \in Seq(Request) /\ imports \in Seq(Request)
  BY DEF ThemeOK, WireOK
<1>2. ASSUME ImportFails \/ CallFails PROVE FALSE
  <2>1. PICK m \in Request : Reply(m, "error")
    <3>1. CASE ImportFails
      <4>1. Head(imports) \in Request
        BY <1>1, <3>1 DEF ImportFails
      <4> QED
        BY <3>1, <4>1 DEF ImportFails
    <3>2. CASE CallFails
      <4>1. Called \in Request
        BY <1>1, <3>2 DEF CallFails, Called
      <4> QED
        BY <3>2, <4>1 DEF CallFails
    <3> QED
      BY <1>2, <3>1, <3>2
  <2> DEFINE answer == [m EXCEPT !.value = "error"]
  <2>2. answer.value = "error" /\ answers' = Append(answers, answer)
    BY <2>1 DEF Reply, Request
  <2> HIDE DEF answer
  <2>3. \E i \in DOMAIN answers' : answers'[i] = answer
    BY <1>1, <2>2, AppendIndices
  <2> QED
    BY <2>2, <2>3 DEF Undisturbed
<1>3. ~InitThemeFails /\ ~ToggleFails
  BY DEF InitThemeFails, ToggleFails, Undisturbed
<1>4. ToggleTheme => phase \notin {"get", "system", "watch"}
  BY Zenon DEF ToggleTheme, Undisturbed
<1> QED
  BY <1>2, <1>3, <1>4

(* What other tabs, hooks and the runtime do.                               *)
LEMMA CourseOutside ==
  ASSUME Course, UNCHANGED <<service, wire, prefersDark, unseen>>,
         overwritten => overwritten', overwritten' \/ Saved' = Saved
  PROVE  Course'
<1> USE DEF service, wire
<1>1. Getting => Getting'
  BY DEF Getting
<1>2. Asking => Asking'
  BY DEF Asking, NothingSaved
<1>3. Follows => Follows'
  BY DEF Follows
<1>4. Subscribing => Subscribing'
  BY <1>3 DEF Subscribing, NothingSaved
<1>5. Running => Running'
  BY <1>3 DEF Running, Stores, Draws, Chosen
<1> QED
  BY <1>1, <1>2, <1>4, <1>5 DEF Course

LEMMA CourseIdle ==
  ASSUME ThemeOK, Course, Idle, Next, ~Open,
         ~OtherTab, ~Boot, phase \in {"none", "import", "failed"}
  PROVE  Course'
<1>1. calls = <<>> /\ imports = <<>> /\ answers = <<>> /\ ~watching
  BY DEF Idle, Nothing
<1>2. CASE InitTheme
  <2> DEFINE m == [op |-> "getItem", by |-> "init", import |-> ~moduleReady,
                   value |-> Null]
  <2>1. (~moduleReady) \in BOOLEAN
    BY NotBoolean DEF ThemeOK, ServiceOK
  <2>2. m \in InitMessage("getItem")
    BY <2>1 DEF InitMessage, Message, Text
  <2>3. m.import \/ moduleReady
    BY DEF ThemeOK, ServiceOK
  <2>4. calls' = <<m>>
    BY <1>1, <1>2, Alone DEF InitTheme, Storage
  <2>5. phase = "import" /\ UNCHANGED <<isAutoMode, moduleReady, imports, answers,
                                          watching>>
    BY <1>2 DEF InitTheme
  <2> HIDE DEF m
  <2>6. Getting'
    BY <1>1, <2>2, <2>3, <2>4, <2>5 DEF Getting, Course
  <2> QED
    BY <1>1, <1>2, <2>5, <2>6 DEF InitTheme, Course
<1>3. CASE FirstRender
  BY <1>3 DEF FirstRender, Course
<1>4. CASE ThemeModuleFails
  BY <1>4 DEF ThemeModuleFails, Fail, Course
<1>5. CASE ToggleTooEarly
  <2>1. CASE Fail
    BY <2>1 DEF Fail, Course
  <2>2. CASE UNCHANGED service /\ phase = "import"
    BY <2>2 DEF service, Course
  <2> QED
    BY <1>5, <2>1, <2>2 DEF ToggleTooEarly
<1>6. CASE SystemChanges
  BY <1>6 DEF SystemChanges, service, Course
<1>7. ~Browser
  BY <1>1
     DEF Browser, StartImport, FinishImport, ImportFails, RunGetItem, RunSetItem,
         RunRemoveItem, RunGetSystemDarkMode, RunWatchSystemDarkMode,
         RemoveLoadingStyle, CallFails, Run
<1>8. Service => ThemeModuleFails \/ InitTheme
  BY <1>1
     DEF Service, UseSaved, AskSystem, Watch, Watched, InitThemeFails, InitEnds,
         LeaveAuto, EnterAuto, Flip, ToggleEnds, ToggleFails, OnSystemThemeChanged,
         StorageModuleImported, Receive, Failed
<1>9. ~ToggleTheme
  BY DEF ToggleTheme, Click
<1> QED
  BY <1>2, <1>3, <1>4, <1>5, <1>6, <1>7, <1>8, <1>9 DEF Next, User

(* The actions that are left to a page that waits for an answer of Init.    *)
LEMMA InitWaits ==
  ASSUME ThemeOK, Undisturbed, Undisturbed', Next, ~Open, ~OtherTab, ~Boot,
         phase \in {"get", "system", "watch"}
  PROVE  \/ UseSaved \/ AskSystem \/ Watch \/ Watched \/ InitEnds
         \/ LeaveAuto \/ EnterAuto \/ Flip \/ ToggleEnds
         \/ OnSystemThemeChanged \/ StorageModuleImported
         \/ StartImport \/ FinishImport
         \/ RunGetItem \/ RunSetItem \/ RunRemoveItem
         \/ RunGetSystemDarkMode \/ RunWatchSystemDarkMode \/ RemoveLoadingStyle
         \/ SystemChanges
<1>1. ~FirstRender /\ ~ThemeModuleFails /\ ~InitTheme /\ ~ToggleTooEarly
  BY DEF FirstRender, ThemeModuleFails, InitTheme, ToggleTooEarly
<1>2. /\ ~ToggleTheme /\ ~InitThemeFails /\ ~ToggleFails
      /\ ~ImportFails /\ ~CallFails
  BY NoFailure
<1> QED
  BY <1>1, <1>2 DEF Next, Service, Browser, User

LEMMA CourseGet ==
  ASSUME PageOK, ThemeOK, Course, Undisturbed, Undisturbed', Next, ~Open,
         ~OtherTab, ~Boot, phase = "get"
  PROVE  Course'
<1>0. Getting /\ ~watching
  BY DEF Course
<1>1. PICK m \in InitMessage("getItem") :
        /\ m.import \/ moduleReady
        /\ \/ calls = <<m>> /\ imports = <<>> /\ answers = <<>>
           \/ calls = <<>> /\ imports = <<m>> /\ answers = <<>> /\ m.import
           \/ /\ calls = <<>> /\ imports = <<>> /\ answers = <<m>>
              /\ m.import \/ m.value = Saved \/ overwritten
  BY <1>0 DEF Getting
<1>2. m \in Message /\ m.by = "init" /\ m.op = "getItem"
  BY DEF InitMessage
<1>3. /\ calls # <<>> => Called = m /\ Tail(calls) = <<>>
      /\ imports # <<>> => Head(imports) = m /\ Tail(imports) = <<>>
      /\ answers # <<>> => Head(answers) = m /\ Tail(answers) = <<>>
  BY <1>1, Alone DEF Called
<1>4. isAutoMode
  BY <1>0 DEF Getting
<1>5. CASE UseSaved
  <2>1. /\ answers = <<m>> /\ calls = <<>> /\ imports = <<>> /\ ~m.import
        /\ m.value # "error" /\ Received = m.value /\ m.value # Null
    BY <1>1, <1>3, <1>5 DEF UseSaved, Receive, Received
  <2>2. moduleReady /\ (m.value = Saved \/ overwritten)
    BY <1>1, <2>1
  <2>3. m.value \in Text \ {Null}
    BY <1>2, <2>1 DEF Message
  <2> DEFINE call == [op |-> "removeLoadingStyle", by |-> "init", import |-> FALSE,
                      value |-> Null]
  <2>4. calls' = <<call>> /\ answers' = <<>>
    BY <1>3, <1>5, <2>1, Alone DEF UseSaved, Send, Receive
  <2>5. call \in LateCall /\ ~Write(call)
    BY DEF LateCall, Request, Text, Write
  <2> HIDE DEF call
  <2>6. calls' \in Seq(LateCall) /\ answers' \in Seq(LateAnswer)
    BY <2>4, <2>5
  <2>7. /\ ~isAutoMode'
        /\ isDarkMode' = Parse(m.value)
        /\ rendered' = isDarkMode'
        /\ UNCHANGED <<Saved, overwritten, moduleReady, imports, watching>>
        /\ phase' = "style"
    BY <1>5, <2>1 DEF UseSaved, pageVars, screen, store, history, Saved
  <2>8. Chosen' = m.value
    BY <2>3, <2>7, Reread DEF Chosen
  <2>9. Stores'
    <3>1. \A i \in DOMAIN calls' : ~Write(calls'[i])
      BY <2>4, <2>5
    <3> QED
      BY <2>2, <2>7, <2>8, <3>1 DEF Stores, LastWrite
  <2>10. Running'
    BY <1>0, <2>1, <2>2, <2>6, <2>7, <2>9 DEF Running, Draws
  <2> QED
    BY <2>7, <2>10 DEF Course
<1>6. CASE AskSystem
  <2>1. /\ answers = <<m>> /\ calls = <<>> /\ imports = <<>> /\ ~m.import
        /\ m.value = Null
    BY <1>1, <1>3, <1>6 DEF AskSystem, Receive, Received
  <2>2. moduleReady /\ NothingSaved
    BY <1>1, <2>1 DEF NothingSaved
  <2> DEFINE call == [op |-> "system", by |-> "init", import |-> FALSE,
                      value |-> Null]
  <2>3. calls' = <<call>> /\ answers' = <<>>
    BY <1>3, <1>6, <2>1, Alone DEF AskSystem, Send, Receive
  <2>4. call \in InitMessage("system") /\ ~call.import
    BY DEF InitMessage, Message, Text
  <2> HIDE DEF call
  <2>5. /\ UNCHANGED <<Saved, overwritten, moduleReady, imports, watching, isAutoMode>>
        /\ phase' = "system"
    BY <1>6 DEF AskSystem, pageVars, screen, store, history, Saved
  <2>6. Asking'
    BY <1>4, <2>1, <2>2, <2>3, <2>4, <2>5 DEF Asking, NothingSaved
  <2> QED
    BY <1>0, <2>5, <2>6 DEF Course
<1>7. CASE StorageModuleImported
  <2>1. /\ answers = <<m>> /\ calls = <<>> /\ imports = <<>>
        /\ m.value # "error" /\ answers' = <<>>
    BY <1>1, <1>3, <1>7 DEF StorageModuleImported
  <2> DEFINE call == [op |-> m.op, by |-> m.by, import |-> FALSE, value |-> m.value]
  <2>2. calls' = <<call>>
    BY <1>3, <1>7, <2>1, Alone DEF StorageModuleImported, Send
  <2>3. call \in InitMessage("getItem")
    BY <1>2 DEF InitMessage, Message
  <2> HIDE DEF call
  <2>4. moduleReady' /\ UNCHANGED <<imports, watching, isAutoMode, phase>>
    BY <1>7 DEF StorageModuleImported
  <2>5. Getting'
    BY <1>4, <2>1, <2>2, <2>3, <2>4 DEF Getting
  <2> QED
    BY <1>0, <2>4, <2>5 DEF Course
<1>8. CASE StartImport \/ FinishImport
  <2>1. /\ UNCHANGED <<moduleReady, watching, isAutoMode, phase>>
        /\ \/ calls' = <<>> /\ imports' = <<m>> /\ answers' = <<>> /\ m.import
           \/ calls' = <<>> /\ imports' = <<>> /\ answers' = <<m>> /\ m.import
    BY <1>1, <1>3, <1>8, Alone
       DEF StartImport, FinishImport, UnchangedService, service
  <2>2. Getting'
    BY <1>1, <1>4, <2>1 DEF Getting
  <2> QED
    BY <1>0, <2>1, <2>2 DEF Course
<1>9. CASE RunGetItem
  <2> DEFINE answer == [m EXCEPT !.value = Saved]
  <2>1. /\ UNCHANGED <<moduleReady, watching, isAutoMode, phase, Saved>>
        /\ calls # <<>> /\ ~m.import
        /\ calls' = <<>> /\ imports' = <<>> /\ answers' = <<answer>>
    BY <1>1, <1>3, <1>9, Alone
       DEF RunGetItem, Run, Called, Reply, UnchangedService, service, pageVars, screen,
           store, Saved, GetItem
  <2>2. answer \in InitMessage("getItem") /\ answer.value = Saved
    BY <1>2, SavedIsText DEF InitMessage, Message
  <2> HIDE DEF answer
  <2>3. Getting'
    BY <1>1, <1>4, <2>1, <2>2 DEF Getting
  <2> QED
    BY <1>0, <2>1, <2>3 DEF Course
<1>10. CASE SystemChanges
  <2>1. /\ UNCHANGED <<service, wire, Saved, overwritten>>
    BY <1>0, <1>10
       DEF SystemChanges, SystemThemeChanges, store, Saved, wire
  <2>2. Getting'
    BY <1>0, <2>1 DEF Getting, service, wire
  <2> QED
    BY <1>0, <2>1, <2>2 DEF Course, service, wire
<1>11. /\ ~Watch /\ ~Watched /\ ~InitEnds /\ ~LeaveAuto /\ ~EnterAuto /\ ~Flip
       /\ ~ToggleEnds /\ ~OnSystemThemeChanged
  BY <1>2, <1>3
     DEF Watch, Watched, InitEnds, LeaveAuto, EnterAuto, Flip, ToggleEnds,
         OnSystemThemeChanged, Receive
<1>12. /\ ~RunSetItem /\ ~RunRemoveItem /\ ~RunGetSystemDarkMode
       /\ ~RunWatchSystemDarkMode /\ ~RemoveLoadingStyle
  BY <1>2, <1>3
     DEF RunSetItem, RunRemoveItem, RunGetSystemDarkMode, RunWatchSystemDarkMode,
         RemoveLoadingStyle, Run, Called
<1> QED
  BY <1>5, <1>6, <1>7, <1>8, <1>9, <1>10, <1>11, <1>12, InitWaits

LEMMA CourseSystem ==
  ASSUME PageOK, ThemeOK, Course, Undisturbed, Undisturbed', Next, ~Open,
         ~OtherTab, ~Boot, phase = "system"
  PROVE  Course'
<1>0. Asking /\ ~watching
  BY DEF Course
<1>1. PICK m \in InitMessage("system") :
        /\ ~m.import
        /\ \/ calls = <<m>> /\ answers = <<>>
           \/ /\ calls = <<>> /\ answers = <<m>>
              /\ m.value = ToText(prefersDark) \/ unseen
  BY <1>0 DEF Asking
<1>2. m \in Message /\ m.by = "init" /\ m.op = "system"
  BY DEF InitMessage
<1>3. /\ calls # <<>> => Called = m /\ Tail(calls) = <<>>
      /\ answers # <<>> => Head(answers) = m /\ Tail(answers) = <<>>
  BY <1>1, Alone DEF Called
<1>4. isAutoMode /\ moduleReady /\ NothingSaved /\ imports = <<>>
  BY <1>0 DEF Asking
<1>5. CASE Watch
  <2>1. /\ answers = <<m>> /\ calls = <<>> /\ answers' = <<>>
        /\ isDarkMode' = Parse(m.value)
        /\ phase' = "watch"
        /\ UNCHANGED <<Saved, overwritten, moduleReady, imports, watching, isAutoMode,
                       prefersDark, unseen>>
    BY <1>1, <1>3, <1>5
       DEF Watch, Receive, Received, pageVars, screen, store, history, Saved
  <2> DEFINE call == [op |-> "watch", by |-> "init", import |-> FALSE,
                      value |-> Null]
  <2>2. calls' = <<call>>
    BY <1>5, <2>1, Alone DEF Watch, Send
  <2>3. call \in InitMessage("watch") /\ ~call.import
    BY DEF InitMessage, Message, Text
  <2> HIDE DEF call
  <2>4. prefersDark \in BOOLEAN
    BY SavedIsText
  <2>5. isDarkMode' = prefersDark \/ unseen
    BY <1>1, <2>1, <2>4, Reread
  <2>6. Subscribing'
    BY <1>0, <1>4, <2>1, <2>2, <2>3, <2>5 DEF Subscribing, NothingSaved
  <2> QED
    BY <2>1, <2>6 DEF Course
<1>6. CASE RunGetSystemDarkMode
  <2> DEFINE answer == [m EXCEPT !.value = ToText(prefersDark)]
  <2>1. /\ UNCHANGED <<Saved, overwritten, moduleReady, imports, watching, isAutoMode,
                       prefersDark, phase>>
        /\ calls' = <<>> /\ answers' = <<answer>>
    BY <1>1, <1>3, <1>6, Alone
       DEF RunGetSystemDarkMode, Run, Called, Reply, UnchangedService, service,
           pageVars, screen, store, Saved
  <2>2. /\ answer \in InitMessage("system")
        /\ ~answer.import
        /\ answer.value = ToText(prefersDark)
    BY <1>1, <1>2, ConversionsOK DEF InitMessage, Message
  <2> HIDE DEF answer
  <2>3. Asking'
    BY <1>4, <2>1, <2>2 DEF Asking, NothingSaved
  <2> QED
    BY <1>0, <2>1, <2>3 DEF Course
<1>7. CASE SystemChanges
  <2>1. UNCHANGED <<service, wire, Saved, overwritten>>
    BY <1>0, <1>7 DEF SystemChanges, SystemThemeChanges, store, Saved, wire
  <2>2. answers = <<m>> => unseen'
    <3>1. answers = <<m>> => 1 \in DOMAIN answers /\ answers[1] = m
      OBVIOUS
    <3>2. answers = <<m>> => \E i \in DOMAIN answers :
                               answers[i].op = "system" /\ answers[i].by = "init"
      BY <1>2, <3>1
    <3>3. (\E i \in DOMAIN answers :
             answers[i].op = "system" /\ answers[i].by = "init") => unseen'
      BY <1>0, <1>7, Zenon DEF SystemChanges
    <3> QED
      BY <3>2, <3>3
  <2>3. Asking'
    BY <1>1, <1>4, <2>1, <2>2 DEF Asking, NothingSaved, service, wire
  <2> QED
    BY <1>0, <2>1, <2>3 DEF Course, service, wire
<1>8. /\ ~UseSaved /\ ~AskSystem /\ ~Watched /\ ~InitEnds /\ ~LeaveAuto /\ ~EnterAuto
      /\ ~Flip /\ ~ToggleEnds /\ ~OnSystemThemeChanged /\ ~StorageModuleImported
  BY <1>1, <1>2, <1>3
     DEF UseSaved, AskSystem, Watched, InitEnds, LeaveAuto, EnterAuto, Flip,
         ToggleEnds, OnSystemThemeChanged, StorageModuleImported, Receive
<1>9. /\ ~StartImport /\ ~FinishImport /\ ~RunGetItem /\ ~RunSetItem
      /\ ~RunRemoveItem /\ ~RunWatchSystemDarkMode /\ ~RemoveLoadingStyle
  BY <1>1, <1>2, <1>3, <1>4
     DEF StartImport, FinishImport, RunGetItem, RunSetItem, RunRemoveItem,
         RunWatchSystemDarkMode, RemoveLoadingStyle, Run, Called
<1> QED
  BY <1>5, <1>6, <1>7, <1>8, <1>9, InitWaits

-----------------------------------------------------------------------------
(* Reports of the system's theme                                            *)

LEMMA FollowsTaken ==
  ASSUME ThemeOK, Follows, answers # <<>>, answers' = Tail(answers),
         Head(answers).op # "report",
         UNCHANGED <<isDarkMode, isAutoMode, prefersDark>>
  PROVE  Follows'
BY ReportTaken DEF Follows, ThemeOK, WireOK

LEMMA FollowsAppended ==
  ASSUME ThemeOK, Follows, NEW m, answers' = Append(answers, m), m.op # "report",
         m.op = "system" => m.value = ToText(prefersDark),
         UNCHANGED <<isDarkMode, isAutoMode, prefersDark>>
  PROVE  Follows'
BY ReportAppended DEF Follows, ThemeOK, WireOK

(* A report that is handled in auto mode is the page's theme.               *)
LEMMA FollowsReport ==
  ASSUME PageOK, ThemeOK, Follows, OnSystemThemeChanged
  PROVE  Follows'
<1>1. /\ answers # <<>> /\ answers' = Tail(answers)
      /\ Head(answers).op = "report"
      /\ Received = Head(answers).value
      /\ UNCHANGED <<isAutoMode, prefersDark>>
  BY DEF OnSystemThemeChanged, Receive, Received, pageVars, screen
<1>2. /\ Told(Tail(answers), prefersDark)
      /\ NoReport(Tail(answers)) => Received = ToText(prefersDark)
  BY <1>1, ReportTaken DEF Follows, ThemeOK, WireOK
<1>3. prefersDark \in BOOLEAN
  BY SavedIsText
<1>4. isAutoMode => isDarkMode' = Parse(Received)
  BY DEF OnSystemThemeChanged
<1> QED
  BY <1>1, <1>2, <1>3, <1>4, Reread DEF Follows

(* A change is reported, and every report says what the system has become.  *)
LEMMA FollowsChange ==
  ASSUME ThemeOK, watching, SystemChanges
  PROVE  /\ Follows'
         /\ \E m : /\ answers' = Append(answers, m)
                   /\ m \in WatchAnswer
                   /\ ~Write(m)
<1> DEFINE m == [op |-> "report", by |-> "browser", import |-> FALSE,
                 value |-> ToText(prefersDark')]
<1>1. answers' = Append(answers, m)
  BY DEF SystemChanges
<1>2. m \in WatchAnswer /\ ~Write(m) /\ m.op = "report"
  BY ConversionsOK DEF WatchAnswer, LateAnswer, Message, Write
<1>3. m.value = ToText(prefersDark')
  OBVIOUS
<1> HIDE DEF m
<1>4. Told(answers', prefersDark') /\ ~NoReport(answers')
  BY <1>1, <1>2, <1>3, ReportAppended DEF ThemeOK, WireOK
<1> QED
  BY <1>1, <1>2, <1>4 DEF Follows

LEMMA CourseWatch ==
  ASSUME PageOK, ThemeOK, Course, Undisturbed, Undisturbed', Next, ~Open,
         ~OtherTab, ~Boot, phase = "watch"
  PROVE  Course'
<1>0. Subscribing
  BY DEF Course
<1>1. isAutoMode /\ moduleReady /\ NothingSaved /\ imports = <<>>
  BY <1>0 DEF Subscribing
<1>2. CASE ~watching
  <2>1. PICK m \in InitMessage("watch") : ~m.import /\ calls = <<m>>
    BY <1>0, <1>2 DEF Subscribing
  <2>2. answers = <<>> /\ (isDarkMode = prefersDark \/ unseen)
    BY <1>0, <1>2 DEF Subscribing
  <2>3. /\ m \in Message /\ m.by = "init" /\ m.op = "watch"
        /\ calls # <<>> /\ Called = m /\ Tail(calls) = <<>>
    BY <2>1, Alone DEF InitMessage, Called
  <2>4. CASE RunWatchSystemDarkMode
    <3> DEFINE answer == [m EXCEPT !.value = Null]
    <3>1. /\ UNCHANGED <<Saved, overwritten, moduleReady, imports, isAutoMode,
                         isDarkMode, prefersDark, unseen, phase>>
          /\ watching'
          /\ calls' = <<>> /\ answers' = <<answer>>
      BY <2>2, <2>3, <2>4, Alone
         DEF RunWatchSystemDarkMode, Run, Reply, UnchangedService, service, pageVars,
             screen, store, Saved
    <3>2. answer \in WatchAnswer /\ answer.op = "watch"
      BY <2>1, <2>3 DEF WatchAnswer, LateAnswer, Message, Text
    <3> HIDE DEF answer
    <3>3. answers' \in Seq(WatchAnswer)
      BY <3>1, <3>2
    <3>4. isDarkMode = prefersDark => Follows'
      BY <3>1, <3>2 DEF Follows, Told
    <3>5. Subscribing'
      BY <1>1, <2>2, <3>1, <3>3, <3>4 DEF Subscribing, NothingSaved
    <3> QED
      BY <3>1, <3>5 DEF Course
  <2>5. CASE SystemChanges
    <3>1. UNCHANGED <<service, wire, Saved, overwritten>>
      BY <1>2, <2>5 DEF SystemChanges, SystemThemeChanges, store, Saved, wire
    <3>2. unseen'
      BY <1>2, <2>5, Zenon DEF SystemChanges
    <3>3. Subscribing'
      BY <1>1, <1>2, <2>1, <2>2, <3>1, <3>2 DEF Subscribing, NothingSaved, service, wire
    <3> QED
      BY <3>1, <3>3 DEF Course, service
  <2>6. /\ ~UseSaved /\ ~AskSystem /\ ~Watch /\ ~Watched /\ ~InitEnds /\ ~LeaveAuto
        /\ ~EnterAuto /\ ~Flip /\ ~ToggleEnds /\ ~OnSystemThemeChanged
        /\ ~StorageModuleImported
    BY <2>2
       DEF UseSaved, AskSystem, Watch, Watched, InitEnds, LeaveAuto, EnterAuto, Flip,
           ToggleEnds, OnSystemThemeChanged, StorageModuleImported, Receive
  <2>7. /\ ~StartImport /\ ~FinishImport /\ ~RunGetItem /\ ~RunSetItem
        /\ ~RunRemoveItem /\ ~RunGetSystemDarkMode /\ ~RemoveLoadingStyle
    BY <1>1, <2>1, <2>3
       DEF StartImport, FinishImport, RunGetItem, RunSetItem, RunRemoveItem,
           RunGetSystemDarkMode, RemoveLoadingStyle, Run, Called
  <2> QED
    BY <2>4, <2>5, <2>6, <2>7, InitWaits
<1>3. CASE watching
  <2>1. calls = <<>> /\ answers \in Seq(WatchAnswer) /\ (unseen \/ Follows)
    BY <1>0, <1>3 DEF Subscribing
  <2>2. answers # <<>> =>
          Head(answers) \in WatchAnswer /\ Tail(answers) \in Seq(WatchAnswer)
    BY <2>1
  <2>3. CASE Watched
    <3>1. /\ answers # <<>> /\ answers' = Tail(answers)
          /\ Head(answers).op = "watch"
          /\ rendered' = isDarkMode
          /\ phase' = "style"
          /\ UNCHANGED <<isDarkMode, isAutoMode, moduleReady, imports, watching, Saved,
                         prefersDark, unseen, overwritten>>
      BY <2>3 DEF Watched, Receive, pageVars, screen, store, history, Saved
    <3> DEFINE call == [op |-> "removeLoadingStyle", by |-> "init", import |-> FALSE,
                        value |-> Null]
    <3>2. calls' = <<call>>
      BY <2>1, <2>3, Alone DEF Watched, Send
    <3>3. call \in LateCall /\ ~Write(call)
      BY DEF LateCall, Request, Text, Write
    <3> HIDE DEF call
    <3>4. calls' \in Seq(LateCall) /\ NoWrite(calls')
      BY <3>2, <3>3 DEF NoWrite
    <3>5. answers' \in Seq(LateAnswer)
      BY <2>2, <3>1, SeqGrows DEF WatchAnswer
    <3>6. Follows => Follows'
      BY <3>1, FollowsTaken
    <3>7. Chosen' = Null
      BY <1>1, <3>1 DEF Chosen
    <3>8. Stores'
      BY <1>1, <3>1, <3>4, <3>7 DEF Stores, LastWrite, NoWrite, NothingSaved
    <3>9. Running'
      BY <1>1, <2>1, <3>1, <3>4, <3>5, <3>6, <3>8 DEF Running, Draws
    <3> QED
      BY <3>1, <3>9 DEF Course
  <2>4. CASE OnSystemThemeChanged
    <3>1. /\ answers # <<>> /\ answers' = Tail(answers)
          /\ UNCHANGED <<isAutoMode, moduleReady, imports, calls, watching, Saved,
                         unseen, overwritten, phase>>
      BY <2>4 DEF OnSystemThemeChanged, Receive, pageVars, screen, store, history, Saved
    <3>2. Follows => Follows'
      BY <2>4, FollowsReport
    <3>3. Subscribing'
      BY <1>1, <1>3, <2>1, <2>2, <3>1, <3>2 DEF Subscribing, NothingSaved
    <3> QED
      BY <3>1, <3>3 DEF Course
  <2>5. CASE SystemChanges
    <3>1. Follows' /\ \E m \in WatchAnswer : answers' = Append(answers, m)
      BY <1>3, <2>5, FollowsChange
    <3>2. answers' \in Seq(WatchAnswer)
      BY <2>1, <3>1
    <3>3. UNCHANGED <<service, calls, imports, watching, Saved, overwritten>>
      BY <2>5 DEF SystemChanges, SystemThemeChanges, store, Saved
    <3>4. Subscribing'
      BY <1>1, <1>3, <2>1, <3>1, <3>2, <3>3 DEF Subscribing, NothingSaved, service
    <3> QED
      BY <3>3, <3>4 DEF Course, service
  <2>6. /\ ~UseSaved /\ ~AskSystem /\ ~Watch /\ ~InitEnds /\ ~LeaveAuto
        /\ ~EnterAuto /\ ~Flip /\ ~ToggleEnds /\ ~StorageModuleImported
    BY <2>2
       DEF UseSaved, AskSystem, Watch, InitEnds, LeaveAuto, EnterAuto, Flip,
           ToggleEnds, StorageModuleImported, Receive, WatchAnswer, LateAnswer
  <2>7. /\ ~StartImport /\ ~FinishImport /\ ~RunGetItem /\ ~RunSetItem
        /\ ~RunRemoveItem /\ ~RunGetSystemDarkMode /\ ~RunWatchSystemDarkMode
        /\ ~RemoveLoadingStyle
    BY <1>1, <2>1
       DEF StartImport, FinishImport, RunGetItem, RunSetItem, RunRemoveItem,
           RunGetSystemDarkMode, RunWatchSystemDarkMode, RemoveLoadingStyle, Run
  <2> QED
    BY <2>3, <2>4, <2>5, <2>6, <2>7, InitWaits
<1> QED
  BY <1>2, <1>3

-----------------------------------------------------------------------------
(* After Init has decided                                                   *)

LEMMA RunningHeads ==
  ASSUME Running
  PROVE  /\ calls # <<>> => Called \in LateCall /\ Tail(calls) \in Seq(LateCall)
         /\ answers # <<>> =>
              Head(answers) \in LateAnswer /\ Tail(answers) \in Seq(LateAnswer)
BY DEF Running, Called

(* A handled answer that writes nothing and leaves the theme.               *)
LEMMA RunningTaken ==
  ASSUME ThemeOK, Running, answers # <<>>, answers' = Tail(answers),
         Head(answers).op # "report",
         Write(Head(answers)) => rendered' = isDarkMode,
         rendered' = rendered \/ rendered' = isDarkMode,
         calls' = calls \/ \E m \in LateCall : ~Write(m) /\ calls' = Append(calls, m),
         UNCHANGED <<isDarkMode, isAutoMode, prefersDark, watching, unseen, Saved,
                     overwritten, moduleReady, imports>>
  PROVE  Running'
<1>1. calls \in Seq(LateCall) /\ answers \in Seq(LateAnswer)
  BY DEF Running
<1>2. calls' \in Seq(LateCall) /\ answers' \in Seq(LateAnswer)
  BY <1>1
<1>3. Follows => Follows'
  BY FollowsTaken
<1>4. /\ NoWrite(calls') => NoWrite(calls)
      /\ LastWrite(calls, Chosen) => LastWrite(calls', Chosen)
  <2>1. CASE calls' = calls
    BY <2>1
  <2>2. CASE \E m \in LateCall : ~Write(m) /\ calls' = Append(calls, m)
    <3>1. PICK m \in LateCall : ~Write(m) /\ calls' = Append(calls, m)
      BY <2>2
    <3>2. /\ NoWrite(Append(calls, m)) <=> NoWrite(calls)
          /\ LastWrite(calls, Chosen) => LastWrite(Append(calls, m), Chosen)
      BY <1>1, <3>1, WriteAppended
    <3> QED
      BY <3>1, <3>2
  <2> QED
    BY <2>1, <2>2
<1>5. Chosen' = Chosen
  BY DEF Chosen
<1>6. Stores'
  BY <1>4, <1>5 DEF Running, Stores
<1>7. NoWrite(answers') /\ ~Write(Head(answers)) => NoWrite(answers)
  BY <1>1, NoWriteTaken
<1>8. Draws'
  BY <1>4, <1>7 DEF Running, Draws
<1> QED
  BY <1>2, <1>3, <1>6, <1>8 DEF Running

(* A toggle: the answer of the system is handled, the theme may change, and *)
(* the storage is told.                                                     *)
LEMMA RunningToggles ==
  ASSUME PageOK, ThemeOK, Running, LeaveAuto \/ EnterAuto \/ Flip
  PROVE  Running'
<1>1. /\ answers # <<>> /\ answers' = Tail(answers)
      /\ Head(answers).op = "system"
      /\ Received = Head(answers).value
      /\ UNCHANGED <<prefersDark, watching, unseen, Saved, overwritten, moduleReady,
                     imports>>
  BY DEF LeaveAuto, EnterAuto, Flip, Receive, Received, pageVars, screen, store,
         history, Saved
<1>2. calls \in Seq(LateCall) /\ answers \in Seq(LateAnswer) /\ moduleReady
  BY DEF Running
<1>3. answers' \in Seq(LateAnswer)
  BY <1>1, <1>2
<1>4. PICK m \in LateCall : Write(m) /\ m.value = Chosen' /\ calls' = Append(calls, m)
  <2> DEFINE removing == [op |-> "removeItem", by |-> "toggle", import |-> ~moduleReady,
                          value |-> Null]
             setting == [op |-> "setItem", by |-> "toggle", import |-> ~moduleReady,
                         value |-> ToText(isDarkMode')]
  <2>1. (~moduleReady) = FALSE
    BY <1>2
  <2>2. removing \in LateCall /\ Write(removing) /\ removing.value = Null
    BY <2>1 DEF LateCall, Request, Text, Write
  <2>3. setting \in LateCall /\ Write(setting) /\ setting.value = ToText(isDarkMode')
    BY <2>1, ConversionsOK DEF LateCall, Request, Write
  <2>4. CASE EnterAuto
    <3>1. calls' = Append(calls, removing) /\ isAutoMode'
      BY <2>4 DEF EnterAuto, Storage
    <3> QED
      BY <2>2, <3>1 DEF Chosen
  <2>5. CASE LeaveAuto \/ Flip
    <3>1. calls' = Append(calls, setting) /\ ~isAutoMode'
      BY <2>5 DEF LeaveAuto, Flip, Storage
    <3> QED
      BY <2>3, <3>1 DEF Chosen
  <2> QED
    BY <2>4, <2>5
<1>5. calls' \in Seq(LateCall)
  BY <1>2, <1>4
<1>6. LastWrite(calls', Chosen') /\ ~NoWrite(calls')
  BY <1>2, <1>4, WriteAppended
<1>7. Stores' /\ Draws'
  BY <1>6 DEF Stores, Draws
<1>8. Follows => Follows'
  <2> SUFFICES ASSUME Follows PROVE Follows'
    OBVIOUS
  <2>1. /\ Told(Tail(answers), prefersDark)
        /\ NoReport(Tail(answers)) => Received = ToText(prefersDark)
    BY <1>1, ReportTaken DEF Follows, ThemeOK, WireOK
  <2>2. isAutoMode' => isDarkMode' = Parse(Received)
    BY DEF LeaveAuto, EnterAuto, Flip
  <2>3. prefersDark \in BOOLEAN
    BY SavedIsText
  <2> QED
    BY <1>1, <2>1, <2>2, <2>3, Reread DEF Follows
<1> QED
  BY <1>1, <1>2, <1>3, <1>5, <1>7, <1>8 DEF Running

LEMMA RunningReport ==
  ASSUME PageOK, ThemeOK, Running, OnSystemThemeChanged
  PROVE  Running'
<1>1. /\ answers # <<>> /\ answers' = Tail(answers)
      /\ Head(answers).op = "report"
      /\ UNCHANGED <<isAutoMode, prefersDark, watching, unseen, Saved, overwritten,
                     moduleReady, imports, calls>>
      /\ ~isAutoMode => UNCHANGED <<isDarkMode, rendered>>
      /\ isAutoMode => rendered' = isDarkMode'
  BY DEF OnSystemThemeChanged, Receive, pageVars, screen, store, history, Saved
<1>2. answers \in Seq(LateAnswer) /\ answers' \in Seq(LateAnswer)
  BY <1>1, RunningHeads DEF Running
<1>3. Chosen' = Chosen
  BY <1>1 DEF Chosen
<1>4. Stores'
  BY <1>1, <1>3 DEF Running, Stores
<1>5. NoWrite(answers') => NoWrite(answers)
  BY <1>1, <1>2, NoWriteTaken DEF Write
<1>6. Draws'
  BY <1>1, <1>5 DEF Running, Draws
<1>7. Follows => Follows'
  BY FollowsReport
<1> QED
  BY <1>1, <1>2, <1>4, <1>6, <1>7 DEF Running

(* A write reaches the storage; the last one is the page's theme.           *)
LEMMA RunningStored ==
  ASSUME PageOK, ThemeOK, Running, RunSetItem \/ RunRemoveItem
  PROVE  Running'
<1>1. /\ calls # <<>> /\ calls' = Tail(calls)
      /\ Called = Head(calls)
      /\ Called \in LateCall /\ calls' \in Seq(LateCall)
      /\ Write(Called)
      /\ Called.op = "removeItem" <=> RunRemoveItem
  BY RunningHeads DEF RunSetItem, RunRemoveItem, Run, Write, Called
<1>2. /\ UNCHANGED <<isDarkMode, isAutoMode, prefersDark, watching, unseen, rendered,
                     moduleReady, imports>>
      /\ Reply(Called, Null)
  BY DEF RunSetItem, RunRemoveItem, UnchangedPageButStorage, UnchangedService, service
<1>3. Saved' = Called.value
  <2>1. CASE RunSetItem
    BY <2>1 DEF RunSetItem, SetItem, Saved, PageOK, PageTypeOK, Stored
  <2>2. CASE RunRemoveItem
    BY <1>1, <2>2 DEF RunRemoveItem, RemoveItem, Saved, PageOK, PageTypeOK, Stored,
                      LateCall
  <2> QED
    BY <2>1, <2>2
<1>4. calls \in Seq(LateCall) /\ answers \in Seq(LateAnswer)
  BY DEF Running
<1> DEFINE answer == [Called EXCEPT !.value = Null]
<1>5. answers' = Append(answers, answer)
  BY <1>2 DEF Reply
<1>6. answer \in LateAnswer /\ Write(answer)
  BY <1>1 DEF LateCall, LateAnswer, Request, Message, Text, Write
<1> HIDE DEF answer
<1>7. answers' \in Seq(LateAnswer)
  BY <1>4, <1>5, <1>6
<1>8. Chosen' = Chosen
  BY <1>2 DEF Chosen
<1>9. /\ LastWrite(calls', Chosen)
      /\ NoWrite(calls') => Called.value = Chosen
  BY <1>1, <1>4, WriteTaken DEF Running, Stores
<1>10. Stores'
  BY <1>3, <1>8, <1>9 DEF Stores
<1>11. ~NoWrite(answers')
  BY <1>4, <1>5, <1>6, WriteAppended
<1>12. Draws'
  BY <1>11 DEF Draws
<1>13. answer.op \notin {"system", "report"}
  BY <1>6 DEF Write
<1>14. Follows => Follows'
  BY <1>2, <1>5, <1>13, FollowsAppended
<1> QED
  BY <1>1, <1>2, <1>7, <1>10, <1>12, <1>14 DEF Running

(* Another call is run.                                                     *)
LEMMA RunningAnswered ==
  ASSUME PageOK, ThemeOK, Running, RunGetSystemDarkMode \/ RemoveLoadingStyle
  PROVE  Running'
<1>1. /\ calls # <<>> /\ calls' = Tail(calls)
      /\ Called = Head(calls)
      /\ Called \in LateCall /\ calls' \in Seq(LateCall)
      /\ ~Write(Called)
      /\ Called.op = "system" <=> RunGetSystemDarkMode
      /\ Called.op \in {"system", "removeLoadingStyle"}
  BY RunningHeads DEF RunGetSystemDarkMode, RemoveLoadingStyle, Run, Write, Called
<1>2. UNCHANGED <<isDarkMode, isAutoMode, prefersDark, watching, unseen, rendered,
                  moduleReady, imports, Saved, overwritten>>
  BY DEF RunGetSystemDarkMode, RemoveLoadingStyle, UnchangedService, service, pageVars,
         screen, store, Saved
<1>3. PICK value \in Text : /\ Reply(Called, value)
                            /\ RunGetSystemDarkMode => value = ToText(prefersDark)
  <2>1. Null \in Text
    BY DEF Text
  <2>2. RemoveLoadingStyle => ~RunGetSystemDarkMode
    BY DEF RemoveLoadingStyle, RunGetSystemDarkMode, Run
  <2> QED
    BY <2>1, <2>2, ConversionsOK DEF RunGetSystemDarkMode, RemoveLoadingStyle
<1>4. calls \in Seq(LateCall) /\ answers \in Seq(LateAnswer)
  BY DEF Running
<1> DEFINE answer == [Called EXCEPT !.value = value]
<1>5. answers' = Append(answers, answer)
  BY <1>3 DEF Reply
<1>6. /\ answer \in LateAnswer /\ ~Write(answer)
      /\ answer.op # "report"
      /\ answer.op = "system" => answer.value = ToText(prefersDark)
  BY <1>1, <1>3 DEF LateCall, LateAnswer, Request, Message, Write
<1> HIDE DEF answer
<1>7. answers' \in Seq(LateAnswer)
  BY <1>4, <1>5, <1>6
<1>8. Chosen' = Chosen
  BY <1>2 DEF Chosen
<1>9. /\ LastWrite(calls', Chosen)
      /\ NoWrite(calls') => NoWrite(calls)
  BY <1>1, <1>4, WriteTaken DEF Running, Stores
<1>10. Stores'
  BY <1>2, <1>8, <1>9 DEF Running, Stores
<1>11. NoWrite(answers') => NoWrite(answers)
  BY <1>4, <1>5, <1>6, WriteAppended
<1>12. Draws'
  BY <1>2, <1>9, <1>11 DEF Running, Draws
<1>13. Follows => Follows'
  BY <1>2, <1>5, <1>6, FollowsAppended
<1> QED
  BY <1>1, <1>2, <1>7, <1>10, <1>12, <1>13 DEF Running

LEMMA RunningClick ==
  ASSUME Running, ToggleTheme
  PROVE  Running'
<1>1. UNCHANGED <<isDarkMode, isAutoMode, prefersDark, watching, unseen, rendered,
                  moduleReady, imports, answers, Saved, overwritten>>
  BY DEF ToggleTheme, Click, service, screen, store, Saved
<1> DEFINE call == [op |-> "system", by |-> "toggle", import |-> FALSE, value |-> Null]
<1>2. calls' = Append(calls, call)
  BY DEF ToggleTheme, Send
<1>3. call \in LateCall /\ ~Write(call)
  BY DEF LateCall, Request, Text, Write
<1> HIDE DEF call
<1>4. calls \in Seq(LateCall)
  BY DEF Running
<1>5. calls' \in Seq(LateCall)
  BY <1>2, <1>3, <1>4
<1>6. /\ NoWrite(calls') <=> NoWrite(calls)
      /\ LastWrite(calls, Chosen) => LastWrite(calls', Chosen)
  BY <1>2, <1>3, <1>4, WriteAppended
<1>7. Chosen' = Chosen
  BY <1>1 DEF Chosen
<1>8. Stores' /\ Draws'
  BY <1>1, <1>6, <1>7 DEF Running, Stores, Draws
<1>9. Follows => Follows'
  BY <1>1 DEF Follows
<1> QED
  BY <1>1, <1>5, <1>8, <1>9 DEF Running

LEMMA RunningChange ==
  ASSUME ThemeOK, Running, SystemChanges
  PROVE  Running'
<1>1. UNCHANGED <<isDarkMode, isAutoMode, watching, rendered, moduleReady, imports,
                  calls, Saved, overwritten>>
  BY DEF SystemChanges, SystemThemeChanges, service, store, Saved
<1>2. calls \in Seq(LateCall) /\ answers \in Seq(LateAnswer)
  BY DEF Running
<1>3. CASE watching
  <2>1. PICK m : /\ answers' = Append(answers, m)
                 /\ m \in WatchAnswer
                 /\ ~Write(m)
    BY <1>3, FollowsChange
  <2>2. Follows'
    BY <1>3, FollowsChange
  <2>3. answers' \in Seq(LateAnswer)
    BY <1>2, <2>1 DEF WatchAnswer
  <2>4. NoWrite(answers') => NoWrite(answers)
    BY <1>2, <2>1, WriteAppended
  <2> QED
    BY <1>1, <1>2, <2>2, <2>3, <2>4 DEF Running, Stores, Draws, Chosen
<1>4. CASE ~watching
  <2>1. answers' = answers
    BY <1>4 DEF SystemChanges
  <2> QED
    BY <1>1, <1>2, <1>4, <2>1 DEF Running, Stores, Draws, Chosen
<1> QED
  BY <1>3, <1>4

LEMMA CourseRunning ==
  ASSUME PageOK, ThemeOK, Course, Undisturbed, Undisturbed', Next, ~Open,
         ~OtherTab, ~Boot, phase \in {"style", "done"}
  PROVE  Course'
<1>1. Running
  BY DEF Course
<1>2. CASE Running' /\ phase' \in {"style", "done"}
  BY <1>2 DEF Course
<1>3. CASE LeaveAuto \/ EnterAuto \/ Flip
  BY <1>1, <1>2, <1>3, RunningToggles DEF LeaveAuto, EnterAuto, Flip
<1>4. CASE OnSystemThemeChanged
  BY <1>1, <1>2, <1>4, RunningReport DEF OnSystemThemeChanged
<1>5. CASE RunSetItem \/ RunRemoveItem
  BY <1>1, <1>2, <1>5, RunningStored
     DEF RunSetItem, RunRemoveItem, UnchangedService, service
<1>6. CASE RunGetSystemDarkMode \/ RemoveLoadingStyle
  BY <1>1, <1>2, <1>6, RunningAnswered
     DEF RunGetSystemDarkMode, RemoveLoadingStyle, UnchangedService, service
<1>7. CASE ToggleTheme
  BY <1>1, <1>2, <1>7, RunningClick DEF ToggleTheme, service
<1>8. CASE SystemChanges
  BY <1>1, <1>2, <1>8, RunningChange DEF SystemChanges, service
<1>9. CASE InitEnds \/ ToggleEnds \/ Watched
  <2>1. /\ answers # <<>> /\ answers' = Tail(answers)
        /\ UNCHANGED <<isDarkMode, isAutoMode, prefersDark, watching, unseen, Saved,
                       overwritten, moduleReady, imports>>
        /\ phase' \in {"style", "done"}
    BY <1>9 DEF InitEnds, ToggleEnds, Watched, Receive, pageVars, screen, store,
                history, Saved
  <2>2. /\ Head(answers).op # "report"
        /\ Write(Head(answers)) => rendered' = isDarkMode
        /\ rendered' = rendered \/ rendered' = isDarkMode
    BY <1>9 DEF InitEnds, ToggleEnds, Watched, Receive, Write
  <2>3. \/ calls' = calls
        \/ \E m \in LateCall : ~Write(m) /\ calls' = Append(calls, m)
    <3>1. CASE Watched
      <4> DEFINE call == [op |-> "removeLoadingStyle", by |-> "init",
                          import |-> FALSE, value |-> Null]
      <4>1. calls' = Append(calls, call)
        BY <3>1 DEF Watched, Send
      <4>2. call \in LateCall /\ ~Write(call)
        BY DEF LateCall, Request, Text, Write
      <4> QED
        BY <4>1, <4>2
    <3>2. CASE InitEnds \/ ToggleEnds
      BY <3>2 DEF InitEnds, ToggleEnds
    <3> QED
      BY <1>9, <3>1, <3>2
  <2>4. Running'
    BY <1>1, <2>1, <2>2, <2>3, RunningTaken
  <2> QED
    BY <1>2, <2>1, <2>4
<1>10. /\ ~FirstRender /\ ~ThemeModuleFails /\ ~InitTheme /\ ~ToggleTooEarly
  BY DEF FirstRender, ThemeModuleFails, InitTheme, ToggleTooEarly
<1>11. ~InitThemeFails /\ ~ToggleFails /\ ~ImportFails /\ ~CallFails
  BY NoFailure
<1>12. ~UseSaved /\ ~AskSystem /\ ~Watch /\ ~StorageModuleImported
  BY <1>1, RunningHeads
     DEF UseSaved, AskSystem, Watch, StorageModuleImported, Receive, LateAnswer
<1>13. /\ ~StartImport /\ ~FinishImport /\ ~RunGetItem /\ ~RunWatchSystemDarkMode
  BY <1>1, RunningHeads
     DEF StartImport, FinishImport, RunGetItem, RunWatchSystemDarkMode, Run, Called,
         LateCall, Running
<1> QED
  BY <1>3, <1>4, <1>5, <1>6, <1>7, <1>8, <1>9, <1>10, <1>11, <1>12, <1>13
     DEF Next, Service, Browser, User

-----------------------------------------------------------------------------
(* The theorems *)

LEMMA CourseStep ==
  ASSUME PageOK, ThemeOK, Idle, Undisturbed => Course, Next, ~Open, Undisturbed'
  PROVE  Course'
<1>1. Undisturbed /\ Course
  BY UndisturbedBefore
<1>2. CASE Boot
  <2>1. UNCHANGED <<service, wire, unseen, overwritten, prefersDark>>
    BY <1>2
       DEF Boot, themeVars, history, Hook, BeforeServerStart, BeforeWebAssemblyStart,
           AfterServerStarted, AfterWebAssemblyStarted, ApplyThemeInitialization,
           GiveUp, CompleteInitialization, LoadBootResource
  <2>2. Saved' = Saved
    BY <1>2, BootKeepsTheme
  <2> QED
    BY <1>1, <2>1, <2>2, CourseOutside
<1>3. CASE OtherTab
  <2>1. /\ UNCHANGED <<service, wire, unseen, prefersDark>>
        /\ overwritten => overwritten'
        /\ overwritten' \/ Saved' = Saved
    BY <1>3, Zenon DEF OtherTab, OtherTabStores, Saved
  <2> QED
    BY <1>1, <2>1, CourseOutside
<1>4. phase \in {"none", "import", "get", "system", "watch", "style", "done", "failed"}
  BY DEF ThemeOK, ServiceOK
<1> QED
  BY <1>1, <1>2, <1>3, <1>4, CourseIdle, CourseGet, CourseSystem, CourseWatch,
     CourseRunning

LEMMA ToggleInvStep ==
  ASSUME IInv, ToggleInv, [Next]_vars
  PROVE  ToggleInv'
<1> USE DEF IInv, ToggleInv
<1>1. CASE UNCHANGED vars
  <2>1. UNCHANGED <<service, wire, disturbed, unseen, overwritten, prefersDark, Saved,
                    renderer, hooks, style>>
    BY <1>1 DEF vars, pageVars, screen, store, visit, themeVars, history, Saved
  <2>2. Idle' /\ Fetched' /\ Bare'
    BY <2>1 DEF Idle, Nothing, Fetched, Bare, NoRemoval, service, wire
  <2>3. Undisturbed' => Undisturbed
    BY <2>1 DEF Undisturbed, wire
  <2> QED
    BY <2>1, <2>2, <2>3, CourseOutside
<1>2. CASE Open
  <2>1. /\ phase' = "none" /\ isAutoMode' /\ ~watching'
        /\ calls' = <<>> /\ imports' = <<>> /\ answers' = <<>>
        /\ ~style'
    BY <1>2 DEF Open, FreshService, OpenPage, FreshPage
  <2>2. Fetched'
    BY <2>1 DEF Fetched
  <2> QED
    BY <2>1, <2>2 DEF Idle, Nothing, Bare, Course
<1>3. CASE Next /\ ~Open
  BY <1>3, IdleStep, FetchedStep, BareStep, CourseStep
<1> QED
  BY <1>1, <1>2, <1>3

LEMMA ToggleInvInitially == Init => ToggleInv
<1> SUFFICES ASSUME Init PROVE ToggleInv
  OBVIOUS
<1>1. /\ phase = "none" /\ isAutoMode /\ ~watching
      /\ calls = <<>> /\ imports = <<>> /\ answers = <<>>
      /\ ~style
  BY DEF Init, PageInit
<1>2. Fetched
  BY <1>1 DEF Fetched
<1> QED
  BY <1>1, <1>2 DEF ToggleInv, Idle, Nothing, Bare, Course

(* The inductive invariant: what is under way makes up for whatever the     *)
(* page, the storage and the screen do not agree about yet.                 *)
THEOREM ToggleInvariance == Spec => []ToggleInv
<1>1. ToggleInv /\ IInv /\ [Next]_vars => ToggleInv'
  BY ToggleInvStep
<1> QED
  BY ToggleInvInitially, <1>1, Invariance, PTL DEF Spec

(* At rest nothing is under way, so that nothing has failed unnoticed.      *)
LEMMA AtRest ==
  ASSUME ToggleInv, Settled, ~disturbed
  PROVE  Running /\ NoWrite(calls) /\ NoWrite(answers) /\ NoReport(answers)
BY DEF ToggleInv, Settled, Nothing, Undisturbed, Course, NoWrite, NoReport

(* A page at rest is in the theme that is stored, in auto mode with none:   *)
(* its last write has been the last to reach the storage, whatever calls of *)
(* Init and of other toggles it has overlapped.                             *)
THEOREM StoredThemeCorrect == Spec => []StoredThemeAgrees
<1>1. ToggleInv => StoredThemeAgrees
  BY AtRest DEF StoredThemeAgrees, Running, Stores, Chosen, Saved, GetItem
<1> QED
  BY ToggleInvariance, <1>1, PTL

(* A page at rest that watches the system's theme in auto mode is in it: no *)
(* change is lost between a toggle's question and its answer.               *)
THEOREM WatchingCorrect == Spec => []WatchingPageFollows
<1>1. ToggleInv => WatchingPageFollows
  BY AtRest DEF WatchingPageFollows, Running, Follows
<1> QED
  BY ToggleInvariance, <1>1, PTL

(* A page at rest keeps its theme when it is loaded again: the hooks, in    *)
(* JavaScript, decide for it by the text that ThemeService has written last *)
(* in .NET, or by the system's theme when it has left none.                 *)
THEOREM ReloadCorrect == Spec => []ReloadKeepsTheme
<1>1. ToggleInv /\ IInv => ReloadKeepsTheme
  <2> SUFFICES ASSUME ToggleInv, IInv, Settled, ~disturbed, ~overwritten,
                      isAutoMode => watching /\ ~unseen
               PROVE  Dark(Saved, prefersDark) = isDarkMode
    BY DarkIsEnabled DEF ReloadKeepsTheme
  <2>1. /\ prefersDark \in BOOLEAN
        /\ isDarkMode \in BOOLEAN
        /\ isAutoMode \in BOOLEAN
    BY SavedIsText DEF IInv, ThemeOK, ServiceOK
  <2>2. Saved = IF isAutoMode THEN Null ELSE ToText(isDarkMode)
    BY AtRest DEF Running, Stores, Chosen
  <2>3. CASE isAutoMode
    <3>1. isDarkMode = prefersDark
      BY <2>3, AtRest DEF Running, Follows
    <3> QED
      BY <2>1, <2>2, <2>3, <3>1, NullIsNoTheme DEF Dark
  <2>4. CASE ~isAutoMode
    <3>1. CASE isDarkMode
      BY <2>1, <2>2, <2>4, <3>1 DEF Dark, ToText
    <3>2. CASE ~isDarkMode
      BY <2>1, <2>2, <2>4, <3>2 DEF Dark, ToText
    <3> QED
      BY <3>1, <3>2
  <2> QED
    BY <2>3, <2>4
<1> QED
  BY ToggleInvariance, Invariance, <1>1, PTL

(* A page at rest is drawn in its theme, and in WebAssembly nothing lies    *)
(* over it.                                                                 *)
THEOREM SettledCorrect == Spec => []SettledPageShowsItsTheme
<1>1. ToggleInv => SettledPageShowsItsTheme
  <2> SUFFICES ASSUME ToggleInv, Settled, ~disturbed
               PROVE  /\ rendered = isDarkMode
                      /\ renderer = "WebAssembly" => ~style
    BY DEF SettledPageShowsItsTheme
  <2>1. rendered = isDarkMode
    BY AtRest DEF Running, Draws
  <2>2. renderer = "WebAssembly" => ~style
    BY DEF ToggleInv, Bare, Settled
  <2> QED
    BY <2>1, <2>2
<1> QED
  BY ToggleInvariance, <1>1, PTL

=============================================================================
