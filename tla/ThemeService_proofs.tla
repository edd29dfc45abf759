------------------------ MODULE ThemeService_proofs ------------------------
(***************************************************************************)
(* Proofs about a page, for any versions and any number of visits, clicks,  *)
(* changes and failures: its types, and what the loading screen shows.      *)
(***************************************************************************)
EXTENDS ThemeService, TLAPS

-----------------------------------------------------------------------------
(* Percentages *)

LEMMA DivBelow ==
  ASSUME NEW a \in Nat, NEW n \in Nat \ {0}, a < 100 * n
  PROVE  a \div n \in 0..99
<1> DEFINE q == a \div n
<1>1. q \in Nat /\ q * n <= a
  BY Z3
<1>2. q < 100
  BY <1>1
<1> QED
  BY <1>1, <1>2

LEMMA CurrentPercentageBound ==
  ASSUME NEW loaded \in Nat, NEW total \in Nat \ {0},
         NEW current \in CurrentPercentage(loaded, total)
  PROVE  /\ current \in 0..100
         /\ current = 100 <=> loaded >= total
<1>1. CASE loaded >= total
  BY <1>1 DEF CurrentPercentage
<1>2. CASE loaded < total
  <2> DEFINE whole == (loaded * 100) \div total
  <2>1. loaded * 100 < 100 * total
    BY <1>2
  <2>2. whole \in 0..99
    BY <2>1, DivBelow
  <2> HIDE DEF whole
  <2>3. current = whole \/ (whole > 0 /\ current \in {whole, whole - 1})
    <3>1. ~(loaded >= total)
      BY <1>2
    <3> QED
      BY <3>1 DEF CurrentPercentage, whole
  <2>4. current \in 0..99
    BY <2>2, <2>3
  <2> QED
    BY <1>2, <2>4
<1> QED
  BY <1>1, <1>2

-----------------------------------------------------------------------------
(* The invariant *)

(* What travels to the browser never says "error".                          *)
Request == [op : {"getItem", "setItem", "removeItem", "system", "watch",
                  "removeLoadingStyle", "report"},
            by : {"init", "toggle", "browser"},
            import : BOOLEAN,
            value : Text]

WireOK ==
  /\ calls \in Seq(Request)
  /\ imports \in Seq(Request)
  /\ answers \in Seq(Message)

ServiceOK ==
  /\ phase \in {"none", "import", "get", "system", "watch", "style", "done",
                "failed"}
  /\ isDarkMode \in BOOLEAN
  /\ isAutoMode \in BOOLEAN
  /\ rendered \in BOOLEAN
  /\ moduleReady \in BOOLEAN
  /\ watching \in BOOLEAN

HistoryOK ==
  /\ unseen \in BOOLEAN
  /\ disturbed \in BOOLEAN
  /\ overwritten \in BOOLEAN
  /\ steady \in BOOLEAN

(* Why a visit that is exact stays so: its total is the number of its       *)
(* resources, and until its hook has set it the total is the default, of    *)
(* which one resource, the only one that comes before the hook, is little.  *)
CountsOK ==
  /\ fullCount # 0 => localStorage.modulesNumber = fullCount
  /\ renderer = "WebAssembly" /\ "beforeWebAssemblyStart" \notin hooks =>
       /\ totalResources = DefaultTotal
       /\ resourcesLoaded <= 1
       /\ percentage < 100
  /\ exact =>
       /\ renderer = "WebAssembly"
       /\ "beforeWebAssemblyStart" \in hooks
       /\ totalResources = resources
       /\ percentage = 100 <=> resourcesLoaded = resources

PageOK == PageTypeOK /\ CountsOK

(* What a step that neither loads, nor starts, nor opens anything leaves.   *)
SameCounts ==
  /\ UNCHANGED <<fullCount, visit, hooks, counters>>
  /\ localStorage' \in Stored
  /\ localStorage'.modulesNumber = localStorage.modulesNumber
  /\ prefersDark' \in BOOLEAN
  /\ left' \in Budget
  /\ loader' \in BOOLEAN
  /\ style' \in BOOLEAN
  /\ bootDark' \in BOOLEAN

-----------------------------------------------------------------------------
(* Local storage and the budget *)

LEMMA StoreTheme ==
  ASSUME localStorage \in Stored, NEW value \in Text,
         SetItem("IsDarkTheme", value)
  PROVE  /\ localStorage' \in Stored
         /\ localStorage'.modulesNumber = localStorage.modulesNumber
BY DEF Stored, SetItem, Text

LEMMA ForgetTheme ==
  ASSUME localStorage \in Stored, RemoveItem("IsDarkTheme")
  PROVE  /\ localStorage' \in Stored
         /\ localStorage'.modulesNumber = localStorage.modulesNumber
BY DEF Stored, RemoveItem

LEMMA StoreCount ==
  ASSUME localStorage \in Stored, NEW value \in Nat,
         SetItem("modulesNumber", value)
  PROVE  /\ localStorage' \in Stored
         /\ localStorage'.modulesNumber = value
BY DEF Stored, SetItem

LEMMA SpendOK ==
  ASSUME left \in Budget,
         NEW what \in {"visits", "changes", "stores", "clicks", "failures"},
         Spend(what)
  PROVE  left' \in Budget
BY DEF Budget, Spend

-----------------------------------------------------------------------------
LEMMA InitPageOK == Init => PageOK
<1> SUFFICES ASSUME Init PROVE PageOK
  OBVIOUS
<1> USE LoadingScreenAssumption DEF Init, PageInit
<1>1. localStorage \in Stored
  BY DEF Stored
<1>2. left \in Budget /\ resources \in Versions /\ resourcesLoaded \in 0..resources
  OBVIOUS
<1>3. /\ loader \in BOOLEAN
      /\ style \in BOOLEAN
      /\ bootDark \in BOOLEAN
      /\ exact \in BOOLEAN
  BY Zenon
<1>4. PageTypeOK
  BY <1>1, <1>2, <1>3 DEF PageTypeOK, Runtimes, Hooks, DefaultTotal
<1>5. CountsOK
  BY DEF CountsOK
<1> QED
  BY <1>4, <1>5 DEF PageOK

LEMMA SameCountsOK == PageOK /\ SameCounts => PageOK'
<1> SUFFICES ASSUME PageOK, SameCounts PROVE PageOK'
  OBVIOUS
<1> USE DEF SameCounts, visit, counters
<1>1. PageTypeOK'
  BY DEF PageOK, PageTypeOK
<1>2. CountsOK'
  BY DEF PageOK, CountsOK
<1> QED
  BY <1>1, <1>2 DEF PageOK

LEMMA OpenPageOK == PageOK /\ OpenPage => PageOK'
<1> SUFFICES ASSUME PageOK, OpenPage PROVE PageOK'
  OBVIOUS
<1> USE LoadingScreenAssumption DEF OpenPage, FreshPage, store
<1>1. left' \in Budget
  BY SpendOK DEF PageOK, PageTypeOK
<1>2. resources' \in Versions /\ resourcesLoaded' \in 0..resources'
  OBVIOUS
<1>3. /\ loader' \in BOOLEAN
      /\ style' \in BOOLEAN
      /\ bootDark' \in BOOLEAN
      /\ exact' \in BOOLEAN
  BY Zenon
<1>4. PageTypeOK'
  BY <1>1, <1>2, <1>3 DEF PageOK, PageTypeOK, Hooks, DefaultTotal
<1>5. CountsOK'
  BY DEF PageOK, CountsOK
<1> QED
  BY <1>4, <1>5 DEF PageOK

LEMMA LoadBootResourceOK == PageOK /\ LoadBootResource => PageOK'
<1> SUFFICES ASSUME PageOK, LoadBootResource PROVE PageOK'
  OBVIOUS
<1> USE LoadingScreenAssumption DEF PageOK, LoadBootResource, store, visit
<1>1. PICK current \in CurrentPercentage(resourcesLoaded', totalResources) :
        Show(current)
  OBVIOUS
<1>2. /\ resourcesLoaded \in Nat
      /\ resourcesLoaded < resources
      /\ resourcesLoaded' = resourcesLoaded + 1
      /\ resources \in Nat
      /\ totalResources \in Nat \ {0}
      /\ percentage \in 0..100
  BY DEF PageTypeOK
<1>3. current \in 0..100 /\ (current = 100 <=> resourcesLoaded' >= totalResources)
  BY <1>2, CurrentPercentageBound
<1>4. /\ percentage' \in 0..100
      /\ percentage' = 100 <=> percentage = 100 \/ current = 100
  BY <1>1, <1>2, <1>3 DEF Show
<1>5. PageTypeOK'
  BY <1>2, <1>4 DEF PageTypeOK
<1>6. CountsOK'
  <2>1. fullCount' # 0 => localStorage'.modulesNumber = fullCount'
    BY DEF CountsOK
  <2>2. ASSUME renderer' = "WebAssembly", "beforeWebAssemblyStart" \notin hooks'
        PROVE  /\ totalResources' = DefaultTotal
               /\ resourcesLoaded' <= 1
               /\ percentage' < 100
    BY <2>2, <1>2, <1>3, <1>4 DEF CountsOK, DefaultTotal
  <2>3. ASSUME exact'
        PROVE  /\ renderer' = "WebAssembly"
               /\ "beforeWebAssemblyStart" \in hooks'
               /\ totalResources' = resources'
               /\ percentage' = 100 <=> resourcesLoaded' = resources'
    BY <2>3, <1>2, <1>3, <1>4 DEF CountsOK
  <2> QED
    BY <2>1, <2>2, <2>3 DEF CountsOK
<1> QED
  BY <1>5, <1>6

(* A start that is given up: a hook that has not run yet is not the one an  *)
(* exact visit has started from.                                            *)
LEMMA GiveUpOK ==
  ASSUME PageOK, NEW runtime \in Runtimes, GiveUp(runtime),
         NEW hook \in Hooks, Call(hook),
         renderer = "WebAssembly" =>
           runtime = renderer /\ hook = "beforeWebAssemblyStart"
  PROVE  PageOK'
<1> USE DEF PageOK, GiveUp, store, counters
<1>1. left' \in Budget
  BY SpendOK DEF PageTypeOK
<1>2. renderer' \in Runtimes \cup {"none"} /\ renderer' # "WebAssembly"
  BY DEF PageTypeOK
<1>3. PageTypeOK'
  BY <1>1, <1>2 DEF PageTypeOK, Call
<1>4. ~exact
  BY DEF CountsOK, Call
<1>5. CountsOK'
  BY <1>2, <1>4 DEF CountsOK
<1> QED
  BY <1>3, <1>5

(* Both hooks that start a runtime.                                         *)
LEMMA ApplyThemeInitializationOK ==
  ASSUME PageOK, ApplyThemeInitialization, NEW hook \in Hooks, Call(hook),
         exact' \in BOOLEAN
  PROVE  PageTypeOK' /\ percentage' = percentage
<1> USE DEF PageOK, PageTypeOK, ApplyThemeInitialization, visit, store
<1>1. totalResources' \in Nat \ {0}
  BY DEF InitializeResources, GetItem, Stored, DefaultTotal
<1>2. hooks' \subseteq Hooks
  BY DEF Call
<1>3. style' \in BOOLEAN /\ bootDark' \in BOOLEAN
  BY DEF IsDarkModeEnabled, ApplyDarkTheme
<1> QED
  BY <1>1, <1>2, <1>3

LEMMA BeforeServerStartOK == PageOK /\ BeforeServerStart => PageOK'
<1> SUFFICES ASSUME PageOK, BeforeServerStart PROVE PageOK'
  OBVIOUS
<1>1. Call("beforeServerStart") /\ renderer = "Server"
  BY DEF BeforeServerStart
<1>2. CASE GiveUp("Server")
  BY <1>1, <1>2, GiveUpOK DEF Runtimes, Hooks
<1>3. CASE ApplyThemeInitialization /\ exact' = exact
  <2>1. PageTypeOK'
    BY <1>1, <1>3, ApplyThemeInitializationOK DEF Hooks, PageOK, PageTypeOK
  <2>2. CountsOK'
    BY <1>1, <1>3 DEF PageOK, CountsOK, ApplyThemeInitialization, visit, store
  <2> QED
    BY <2>1, <2>2 DEF PageOK
<1> QED
  BY <1>2, <1>3 DEF BeforeServerStart

LEMMA BeforeWebAssemblyStartOK == PageOK /\ BeforeWebAssemblyStart => PageOK'
<1> SUFFICES ASSUME PageOK, BeforeWebAssemblyStart PROVE PageOK'
  OBVIOUS
<1>0. CASE GiveUp("WebAssembly")
  BY <1>0, GiveUpOK DEF BeforeWebAssemblyStart, Runtimes, Hooks
<1> SUFFICES ASSUME ApplyThemeInitialization,
                    exact' = (renderer = "WebAssembly" /\ fullCount = resources)
             PROVE  PageOK'
  BY <1>0 DEF BeforeWebAssemblyStart
<1>1. PageTypeOK' /\ percentage' = percentage
  BY ApplyThemeInitializationOK
     DEF BeforeWebAssemblyStart, Hooks, PageOK, PageTypeOK
<1>2. UNCHANGED <<localStorage, fullCount, renderer, resources, resourcesLoaded>>
  BY DEF ApplyThemeInitialization, visit, store
<1>3. "beforeWebAssemblyStart" \in hooks' /\ "beforeWebAssemblyStart" \notin hooks
  BY DEF BeforeWebAssemblyStart, Call
<1>4. ASSUME exact'
      PROVE  /\ renderer' = "WebAssembly"
             /\ totalResources' = resources'
             /\ percentage' = 100 <=> resourcesLoaded' = resources'
  <2>1. renderer = "WebAssembly" /\ fullCount = resources
    BY <1>4
  <2>2. resources \in Nat /\ resources > 1
    BY LoadingScreenAssumption DEF PageOK, PageTypeOK
  <2>3. GetItem("modulesNumber") = resources
    BY <2>1, <2>2 DEF PageOK, CountsOK, GetItem
  <2>4. resources # Null /\ ~(resources <= 1)
    BY <2>2, LoadingScreenAssumption
  <2>5. totalResources' = resources
    BY <2>3, <2>4 DEF ApplyThemeInitialization, InitializeResources
  <2>6. percentage < 100 /\ resourcesLoaded <= 1
    BY <2>1, <1>3 DEF PageOK, CountsOK
  <2>7. percentage \in 0..100 /\ resourcesLoaded \in Nat
    BY <2>2 DEF PageOK, PageTypeOK
  <2> QED
    BY <1>1, <1>2, <2>1, <2>2, <2>5, <2>6, <2>7
<1>5. CountsOK'
  BY <1>2, <1>3, <1>4 DEF PageOK, CountsOK
<1> QED
  BY <1>1, <1>5 DEF PageOK

(* A visit that ends its start stores the count, and the count is full if   *)
(* it says so; or the storage refuses it.                                   *)
LEMMA CompleteInitializationOK ==
  ASSUME PageOK, NEW count \in {0} \cup Versions, CompleteInitialization(count),
         count # 0 => count = resourcesLoaded,
         NEW hook \in Hooks, Call(hook)
  PROVE  PageOK'
<1> USE DEF PageOK, CompleteInitialization, counters, visit, store
<1>1. resourcesLoaded \in Nat
  BY LoadingScreenAssumption DEF PageTypeOK
<1>2. /\ localStorage' \in Stored
      /\ fullCount' \in {0} \cup Versions
      /\ fullCount' # 0 => localStorage'.modulesNumber = fullCount'
  <2>1. CASE SetItem("modulesNumber", resourcesLoaded) /\ fullCount' = count
    BY <1>1, <2>1, StoreCount DEF PageTypeOK
  <2>2. CASE UNCHANGED store
    BY <2>2 DEF PageTypeOK, CountsOK
  <2> QED
    BY <2>1, <2>2
<1>3. left' \in Budget
  BY SpendOK DEF PageTypeOK
<1>4. PageTypeOK'
  BY <1>2, <1>3 DEF PageTypeOK, Call
<1>5. CountsOK'
  BY <1>2 DEF CountsOK, Call
<1> QED
  BY <1>4, <1>5

LEMMA HookOK == PageOK /\ Hook => PageOK'
<1> SUFFICES ASSUME PageOK, Hook PROVE PageOK'
  OBVIOUS
<1>1. CASE BeforeServerStart
  BY <1>1, BeforeServerStartOK
<1>2. CASE BeforeWebAssemblyStart
  BY <1>2, BeforeWebAssemblyStartOK
<1>3. CASE AfterServerStarted
  BY <1>3, CompleteInitializationOK DEF AfterServerStarted, Hooks
<1>4. CASE AfterWebAssemblyStarted
  BY <1>4, CompleteInitializationOK
     DEF AfterWebAssemblyStarted, Hooks, PageOK, PageTypeOK
<1> QED
  BY <1>1, <1>2, <1>3, <1>4 DEF Hook

LEMMA SystemThemeChangesOK == PageOK /\ SystemThemeChanges => SameCounts
<1> SUFFICES ASSUME PageOK, SystemThemeChanges PROVE SameCounts
  OBVIOUS
<1>1. left' \in Budget
  BY SpendOK DEF PageOK, PageTypeOK, SystemThemeChanges
<1> QED
  BY <1>1 DEF PageOK, PageTypeOK, SystemThemeChanges, UnchangedPage, SameCounts,
              store, visit, counters

(* Another tab may replace the count, and then says whether it is full.     *)
LEMMA OtherTabStoresOK == PageOK /\ OtherTabStores => PageOK'
<1> SUFFICES ASSUME PageOK, OtherTabStores PROVE PageOK'
  OBVIOUS
<1>1. left' \in Budget
  BY SpendOK DEF PageOK, PageTypeOK, OtherTabStores
<1>2. localStorage \in Stored /\ fullCount \in {0} \cup Versions
  BY DEF PageOK, PageTypeOK
<1>3. /\ localStorage' \in Stored
      /\ fullCount' \in {0} \cup Versions
      /\ fullCount' # 0 => localStorage'.modulesNumber = fullCount'
  <2>1. CASE /\ \E value \in {"True", "False"} : SetItem("IsDarkTheme", value)
             /\ UNCHANGED fullCount
    <3>1. PICK value \in Text : SetItem("IsDarkTheme", value)
      BY <2>1 DEF Text
    <3> QED
      BY <2>1, <3>1, <1>2, StoreTheme DEF PageOK, CountsOK
  <2>2. CASE RemoveItem("IsDarkTheme") /\ UNCHANGED fullCount
    BY <2>2, <1>2, ForgetTheme DEF PageOK, CountsOK
  <2>3. CASE \E n \in Versions : SetItem("modulesNumber", n) /\ fullCount' = n
    <3>1. PICK n \in Versions : SetItem("modulesNumber", n) /\ fullCount' = n
      BY <2>3
    <3>2. n \in Nat
      BY LoadingScreenAssumption
    <3> QED
      BY <3>1, <3>2, <1>2, StoreCount
  <2>4. CASE /\ \E n \in Versions : \E count \in 0..n :
                  SetItem("modulesNumber", count)
             /\ fullCount' = 0
    <3>1. PICK count \in Nat : SetItem("modulesNumber", count)
      BY <2>4, LoadingScreenAssumption
    <3> QED
      BY <2>4, <3>1, <1>2, StoreCount
  <2> QED
    BY <2>1, <2>2, <2>3, <2>4 DEF OtherTabStores
<1>4. UNCHANGED <<prefersDark, renderer, resources, hooks, counters, loader, style,
                  bootDark>>
  BY DEF OtherTabStores, UnchangedPage
<1>5. PageTypeOK'
  BY <1>1, <1>3, <1>4 DEF PageOK, PageTypeOK, counters
<1>6. CountsOK'
  BY <1>3, <1>4 DEF PageOK, CountsOK, counters
<1> QED
  BY <1>5, <1>6 DEF PageOK

-----------------------------------------------------------------------------
(* Calls and answers *)

ThemeOK == ServiceOK /\ WireOK /\ HistoryOK

Operations == {"getItem", "setItem", "removeItem", "system", "watch",
               "removeLoadingStyle", "report"}

LEMMA ConversionsOK ==
  /\ \A text : Parse(text) \in BOOLEAN
  /\ \A dark : ToText(dark) \in Text
BY DEF Parse, ToText, Text

LEMMA SendOK ==
  ASSUME WireOK, NEW op \in Operations, NEW who \in {"init", "toggle", "browser"},
         NEW value \in Text, Send(op, who, value)
  PROVE  calls' \in Seq(Request)
BY DEF WireOK, Send, Request, Operations

LEMMA NotBoolean == \A b \in BOOLEAN : (~b) \in BOOLEAN
<1> TAKE b \in BOOLEAN
<1>1. CASE b = TRUE
  <2>1. (~b) = FALSE
    BY <1>1
  <2> QED
    BY <2>1
<1>2. CASE b = FALSE
  <2>1. (~b) = TRUE
    BY <1>2
  <2> QED
    BY <2>1
<1> QED
  BY <1>1, <1>2

LEMMA StorageOK ==
  ASSUME WireOK, moduleReady \in BOOLEAN,
         NEW op \in Operations, NEW who \in {"init", "toggle", "browser"},
         NEW value \in Text, Storage(op, who, value)
  PROVE  calls' \in Seq(Request)
<1> DEFINE call == [op |-> op, by |-> who, import |-> ~moduleReady, value |-> value]
<1>1. (~moduleReady) \in BOOLEAN
  BY NotBoolean
<1>2. call \in Request
  BY <1>1 DEF Request, Operations
<1>3. calls' = Append(calls, call)
  BY DEF Storage
<1> HIDE DEF call
<1> QED
  BY <1>2, <1>3 DEF WireOK

(* An answer is taken off the queue.                                        *)
LEMMA TakeAnswer ==
  ASSUME WireOK, answers # <<>>, answers' = Tail(answers)
  PROVE  Head(answers) \in Message /\ answers' \in Seq(Message)
BY DEF WireOK

LEMMA ReceiveOK ==
  ASSUME WireOK, NEW op, NEW who, Receive(op, who)
  PROVE  /\ Received \in Text
         /\ answers' \in Seq(Message)
<1>1. Head(answers) \in Message /\ answers' \in Seq(Message)
  BY TakeAnswer DEF Receive
<1>2. Received \in Text \cup {"error"} /\ Received # "error"
  BY <1>1 DEF Message, Receive, Received
<1> QED
  BY <1>1, <1>2

(* A call is taken off the queue.                                           *)
LEMMA TakeCall ==
  ASSUME WireOK, calls # <<>>, calls' = Tail(calls)
  PROVE  Called \in Request /\ calls' \in Seq(Request)
BY DEF WireOK, Called

LEMMA ReplyOK ==
  ASSUME WireOK, NEW message \in Request, NEW value \in Text \cup {"error"},
         Reply(message, value)
  PROVE  answers' \in Seq(Message)
<1>1. [message EXCEPT !.value = value] \in Message
  BY DEF Request, Message
<1> QED
  BY <1>1 DEF WireOK, Reply

LEMMA QuietPage ==
  ASSUME PageOK, UNCHANGED screen, left' \in Budget
  PROVE  SameCounts
BY DEF PageOK, PageTypeOK, SameCounts, screen, store, visit, counters

LEMMA UnchangedPageVars == PageOK /\ UNCHANGED pageVars => SameCounts
BY QuietPage DEF PageOK, PageTypeOK, pageVars

LEMMA SpendOnPage ==
  ASSUME PageOK, NEW what \in {"changes", "stores", "clicks", "failures"},
         Spend(what), UNCHANGED screen
  PROVE  SameCounts
<1>1. left' \in Budget
  BY SpendOK DEF PageOK, PageTypeOK
<1> QED
  BY <1>1, QuietPage

LEMMA FailOK == ServiceOK /\ Fail => ServiceOK' /\ WireOK'
<1> SUFFICES ASSUME ServiceOK, Fail PROVE ServiceOK' /\ WireOK'
  OBVIOUS
<1>1. watching' \in BOOLEAN
  BY Zenon DEF Fail
<1>2. ServiceOK'
  BY <1>1 DEF ServiceOK, Fail
<1>3. WireOK'
  BY DEF WireOK, Fail
<1> QED
  BY <1>2, <1>3

-----------------------------------------------------------------------------
(* One lemma for each part of Next *)

LEMMA ServiceStepOK ==
  ASSUME PageOK, ThemeOK, FirstRender \/ Service
  PROVE  SameCounts /\ ThemeOK'
<1> USE UnchangedPageVars, ConversionsOK
    DEF ThemeOK, ServiceOK, HistoryOK, history, wire
<1>0. Null \in Text
  BY DEF Text
<1>1. CASE FirstRender
  BY <1>1 DEF FirstRender, WireOK
<1>2. CASE ThemeModuleFails
  <2>1. SameCounts
    BY <1>2, SpendOnPage DEF ThemeModuleFails
  <2> QED
    BY <1>2, <2>1, FailOK DEF ThemeModuleFails
<1>3. CASE InitTheme
  BY <1>0, <1>3, StorageOK DEF InitTheme, Operations, WireOK
<1>4. CASE UseSaved
  BY <1>0, <1>4, SendOK, ReceiveOK DEF UseSaved, Operations, WireOK
<1>5. CASE AskSystem
  BY <1>0, <1>5, SendOK, ReceiveOK DEF AskSystem, Operations, WireOK
<1>6. CASE Watch
  BY <1>0, <1>6, SendOK, ReceiveOK DEF Watch, Operations, WireOK
<1>7. CASE Watched
  BY <1>0, <1>7, SendOK, ReceiveOK DEF Watched, Operations, WireOK
<1>8. CASE InitThemeFails
  BY <1>0, <1>8, SendOK, TakeAnswer DEF InitThemeFails, Failed, Operations, WireOK
<1>9. CASE InitEnds
  BY <1>9, ReceiveOK DEF InitEnds, WireOK
<1>10. CASE LeaveAuto
  BY <1>10, StorageOK, ReceiveOK DEF LeaveAuto, Operations, WireOK
<1>11. CASE EnterAuto
  BY <1>0, <1>11, StorageOK, ReceiveOK DEF EnterAuto, Operations, WireOK
<1>12. CASE Flip
  BY <1>12, StorageOK, ReceiveOK DEF Flip, Operations, WireOK
<1>13. CASE ToggleEnds
  BY <1>13, ReceiveOK DEF ToggleEnds, WireOK
<1>14. CASE ToggleFails
  <2>1. SameCounts /\ HistoryOK'
    BY <1>14 DEF ToggleFails
  <2>2. CASE renderer = "Server"
    BY <1>14, <2>1, <2>2, FailOK DEF ToggleFails
  <2>3. CASE renderer # "Server"
    BY <1>14, <2>1, <2>3, TakeAnswer DEF ToggleFails, Failed, WireOK, service
  <2> QED
    BY <2>2, <2>3
<1>15. CASE OnSystemThemeChanged
  BY <1>15, ReceiveOK DEF OnSystemThemeChanged, WireOK
<1>16. CASE StorageModuleImported
  <2>1. /\ Head(answers) \in Message
        /\ answers' \in Seq(Message)
        /\ Head(answers).value # "error"
    BY <1>16, TakeAnswer DEF StorageModuleImported
  <2>2. Send(Head(answers).op, Head(answers).by, Head(answers).value)
    BY <1>16 DEF StorageModuleImported
  <2>3. calls' \in Seq(Request)
    BY <2>1, <2>2, SendOK DEF Message, Operations
  <2> QED
    BY <1>16, <2>1, <2>3 DEF StorageModuleImported, WireOK
<1> QED
  BY <1>1, <1>2, <1>3, <1>4, <1>5, <1>6, <1>7, <1>8, <1>9, <1>10, <1>11, <1>12,
     <1>13, <1>14, <1>15, <1>16 DEF Service

(* What the calls of the browser leave of the page.                         *)
LEMMA StorageChanged ==
  ASSUME PageOK, UnchangedPageButStorage,
         localStorage' \in Stored,
         localStorage'.modulesNumber = localStorage.modulesNumber
  PROVE  SameCounts
BY DEF PageOK, PageTypeOK, UnchangedPageButStorage, SameCounts, visit, counters

LEMMA BrowserStepOK ==
  ASSUME PageOK, ThemeOK, Browser
  PROVE  SameCounts /\ ThemeOK'
<1> USE UnchangedPageVars
    DEF ThemeOK, ServiceOK, HistoryOK, UnchangedService, service
<1>0. Null \in Text \cup {"error"} /\ "error" \in Text \cup {"error"}
  BY DEF Text
<1>1. CASE StartImport
  <2>1. Called \in Request /\ calls' \in Seq(Request)
    BY <1>1, TakeCall DEF StartImport
  <2> QED
    BY <1>1, <2>1 DEF StartImport, WireOK
<1>2. CASE FinishImport
  <2>1. Head(imports) \in Request /\ imports' \in Seq(Request)
    BY <1>2 DEF FinishImport, WireOK
  <2>2. Head(imports) \in Message
    BY <2>1 DEF Request, Message
  <2> QED
    BY <1>2, <2>1, <2>2 DEF FinishImport, WireOK
<1>3. CASE ImportFails
  <2>1. Head(imports) \in Request /\ imports' \in Seq(Request)
    BY <1>3 DEF ImportFails, WireOK
  <2>2. answers' \in Seq(Message)
    BY <1>0, <1>3, <2>1, ReplyOK DEF ImportFails
  <2>3. SameCounts
    BY <1>3, SpendOnPage DEF ImportFails
  <2> QED
    BY <1>3, <2>1, <2>2, <2>3 DEF ImportFails, WireOK
<1>4. CASE RunGetItem
  <2>1. Called \in Request /\ calls' \in Seq(Request)
    BY <1>4, TakeCall DEF RunGetItem, Run
  <2>2. GetItem("IsDarkTheme") \in Text \cup {"error"}
    BY DEF GetItem, PageOK, PageTypeOK, Stored, Text
  <2>3. answers' \in Seq(Message)
    BY <1>4, <2>1, <2>2, ReplyOK DEF RunGetItem
  <2> QED
    BY <1>4, <2>1, <2>3 DEF RunGetItem, WireOK
<1>5. CASE RunSetItem
  <2>1. Called \in Request /\ calls' \in Seq(Request)
    BY <1>5, TakeCall DEF RunSetItem, Run
  <2>2. answers' \in Seq(Message)
    BY <1>0, <1>5, <2>1, ReplyOK DEF RunSetItem
  <2>3. Called.value \in Text
    BY <2>1 DEF Request
  <2>4. SameCounts
    BY <1>5, <2>3, StoreTheme, StorageChanged DEF RunSetItem, PageOK, PageTypeOK
  <2> QED
    BY <1>5, <2>1, <2>2, <2>4 DEF RunSetItem, WireOK
<1>6. CASE RunRemoveItem
  <2>1. Called \in Request /\ calls' \in Seq(Request)
    BY <1>6, TakeCall DEF RunRemoveItem, Run
  <2>2. answers' \in Seq(Message)
    BY <1>0, <1>6, <2>1, ReplyOK DEF RunRemoveItem
  <2>3. SameCounts
    BY <1>6, ForgetTheme, StorageChanged DEF RunRemoveItem, PageOK, PageTypeOK
  <2> QED
    BY <1>6, <2>1, <2>2, <2>3 DEF RunRemoveItem, WireOK
<1>7. CASE RunGetSystemDarkMode
  <2>1. Called \in Request /\ calls' \in Seq(Request)
    BY <1>7, TakeCall DEF RunGetSystemDarkMode, Run
  <2>2. answers' \in Seq(Message)
    BY <1>7, <2>1, ReplyOK, ConversionsOK DEF RunGetSystemDarkMode
  <2> QED
    BY <1>7, <2>1, <2>2 DEF RunGetSystemDarkMode, WireOK
<1>8. CASE RunWatchSystemDarkMode
  <2>1. Called \in Request /\ calls' \in Seq(Request)
    BY <1>8, TakeCall DEF RunWatchSystemDarkMode, Run
  <2>2. answers' \in Seq(Message)
    BY <1>0, <1>8, <2>1, ReplyOK DEF RunWatchSystemDarkMode
  <2> QED
    BY <1>8, <2>1, <2>2 DEF RunWatchSystemDarkMode, WireOK
<1>9. CASE RemoveLoadingStyle
  <2>1. Called \in Request /\ calls' \in Seq(Request)
    BY <1>9, TakeCall DEF RemoveLoadingStyle, Run
  <2>2. answers' \in Seq(Message)
    BY <1>0, <1>9, <2>1, ReplyOK DEF RemoveLoadingStyle
  <2>3. SameCounts
    BY <1>9 DEF RemoveLoadingStyle, PageOK, PageTypeOK, SameCounts, store, visit,
                counters
  <2> QED
    BY <1>9, <2>1, <2>2, <2>3 DEF RemoveLoadingStyle, WireOK
<1>10. CASE CallFails
  <2>1. Called \in Request /\ calls' \in Seq(Request)
    BY <1>10, TakeCall DEF CallFails
  <2>2. answers' \in Seq(Message)
    BY <1>0, <1>10, <2>1, ReplyOK DEF CallFails
  <2>3. SameCounts
    BY <1>10, SpendOnPage DEF CallFails
  <2> QED
    BY <1>10, <2>1, <2>2, <2>3 DEF CallFails, WireOK
<1> QED
  BY <1>1, <1>2, <1>3, <1>4, <1>5, <1>6, <1>7, <1>8, <1>9, <1>10 DEF Browser

LEMMA ClickOK ==
  ASSUME PageOK, ThemeOK, ToggleTooEarly \/ ToggleTheme
  PROVE  SameCounts /\ ThemeOK'
<1> USE DEF ThemeOK, ServiceOK, HistoryOK, history
<1>1. SameCounts
  BY SpendOnPage DEF ToggleTooEarly, ToggleTheme, Click
<1>2. CASE ToggleTooEarly
  BY <1>1, <1>2, FailOK DEF ToggleTooEarly, service, wire, WireOK
<1>3. CASE ToggleTheme
  <2>1. calls' \in Seq(Request)
    BY <1>3, SendOK DEF ToggleTheme, Text, Operations
  <2> QED
    BY <1>1, <1>3, <2>1 DEF ToggleTheme, service, WireOK
<1> QED
  BY <1>2, <1>3

LEMMA SystemChangesOK ==
  ASSUME PageOK, ThemeOK, SystemChanges
  PROVE  SameCounts /\ ThemeOK'
<1> USE DEF ThemeOK, ServiceOK, HistoryOK, SystemChanges
<1>1. SameCounts
  BY SystemThemeChangesOK
<1>2. answers' \in Seq(Message)
  <2> DEFINE report == [op |-> "report", by |-> "browser", import |-> FALSE,
                        value |-> ToText(prefersDark')]
  <2>1. report \in Message
    BY ConversionsOK DEF Message
  <2>2. answers' = Append(answers, report) \/ answers' = answers
    OBVIOUS
  <2> HIDE DEF report, SystemChanges
  <2>3. answers \in Seq(Message)
    BY DEF WireOK
  <2>4. Append(answers, report) \in Seq(Message)
    BY <2>1, <2>3
  <2> QED
    BY <2>2, <2>3, <2>4
<1> QED
  BY <1>1, <1>2 DEF service, WireOK

LEMMA OtherTabOK ==
  ASSUME PageOK, ThemeOK, OtherTab
  PROVE  PageOK' /\ ThemeOK'
BY OtherTabStoresOK DEF OtherTab, ThemeOK, ServiceOK, HistoryOK, service, wire, WireOK

LEMMA OpenOK ==
  ASSUME PageOK, Open
  PROVE  PageOK' /\ ThemeOK'
<1>1. /\ isDarkMode' \in BOOLEAN
      /\ isAutoMode' \in BOOLEAN
      /\ rendered' \in BOOLEAN
      /\ moduleReady' \in BOOLEAN
      /\ watching' \in BOOLEAN
      /\ HistoryOK'
  BY Zenon DEF Open, FreshService, HistoryOK
<1>2. phase' = "none" /\ calls' = <<>> /\ imports' = <<>> /\ answers' = <<>>
  BY DEF Open, FreshService
<1>3. ThemeOK'
  BY <1>1, <1>2 DEF ThemeOK, ServiceOK, WireOK
<1> QED
  BY <1>3, OpenPageOK DEF Open

LEMMA BootOK ==
  ASSUME PageOK, ThemeOK, Boot
  PROVE  PageOK' /\ ThemeOK'
<1>1. PageOK'
  BY HookOK, LoadBootResourceOK DEF Boot
<1>2. ThemeOK'
  BY DEF Boot, ThemeOK, ServiceOK, HistoryOK, WireOK, themeVars, service, wire, history
<1> QED
  BY <1>1, <1>2

-----------------------------------------------------------------------------
(* The theorems *)

IInv == PageOK /\ ThemeOK

LEMMA NextOK == IInv /\ [Next]_vars => IInv'
<1> SUFFICES ASSUME IInv, [Next]_vars PROVE IInv'
  OBVIOUS
<1> USE DEF IInv
<1>1. CASE SameCounts /\ ThemeOK'
  BY <1>1, SameCountsOK
<1>2. CASE Boot
  BY <1>2, BootOK
<1>3. CASE FirstRender \/ Service
  BY <1>1, <1>3, ServiceStepOK
<1>4. CASE Browser
  BY <1>1, <1>4, BrowserStepOK
<1>5. CASE Open
  BY <1>5, OpenOK
<1>6. CASE ToggleTooEarly \/ ToggleTheme
  BY <1>1, <1>6, ClickOK
<1>7. CASE SystemChanges
  BY <1>1, <1>7, SystemChangesOK
<1>8. CASE OtherTab
  BY <1>8, OtherTabOK
<1>9. CASE UNCHANGED vars
  <2>1. SameCounts
    BY <1>9, UnchangedPageVars DEF vars
  <2>2. ThemeOK'
    BY <1>9 DEF vars, themeVars, service, wire, history, ThemeOK, ServiceOK,
                 HistoryOK, WireOK
  <2> QED
    BY <1>1, <2>1, <2>2
<1> QED
  BY <1>2, <1>3, <1>4, <1>5, <1>6, <1>7, <1>8, <1>9 DEF Next, User

LEMMA InitOK == Init => IInv
<1> SUFFICES ASSUME Init PROVE IInv
  OBVIOUS
<1>1. PageOK
  BY InitPageOK
<1>2. /\ isDarkMode \in BOOLEAN
      /\ isAutoMode \in BOOLEAN
      /\ rendered \in BOOLEAN
      /\ moduleReady \in BOOLEAN
      /\ watching \in BOOLEAN
      /\ HistoryOK
  BY Zenon DEF Init, HistoryOK
<1>3. phase = "none" /\ calls = <<>> /\ imports = <<>> /\ answers = <<>>
  BY DEF Init
<1> QED
  BY <1>1, <1>2, <1>3 DEF IInv, ThemeOK, ServiceOK, WireOK

(* The inductive invariant: types, what travels, and why counts that are    *)
(* full stay so.                                                            *)
THEOREM Invariance == Spec => []IInv
<1>1. IInv /\ [Next]_vars => IInv'
  BY NextOK
<1> QED
  BY InitOK, <1>1, PTL DEF Spec

(* Every variable keeps its type: in particular the share of the resources  *)
(* that is shown stays a percentage, and only what the hooks know is stored *)
(* as a theme.                                                              *)
THEOREM TypeCorrect == Spec => []TypeOK
<1>1. IInv => TypeOK
  <2>1. ASSUME NEW queue \in Seq(Request) PROVE queue \in Seq(Message)
    <3>1. Request \subseteq Message
      BY DEF Request, Message
    <3> QED
      BY <3>1
  <2> QED
    BY <2>1 DEF IInv, TypeOK, PageOK, ThemeOK, ServiceOK, WireOK, HistoryOK
<1> QED
  BY Invariance, <1>1, PTL

(* The loading screen is exact on every visit whose predecessor has stored  *)
(* its count.                                                               *)
THEOREM FullCorrect == Spec => []FullMeansComplete
<1>1. IInv => FullMeansComplete
  BY DEF IInv, PageOK, CountsOK, FullMeansComplete
<1> QED
  BY Invariance, <1>1, PTL

-----------------------------------------------------------------------------
(* The theme of a start nobody interferes with                              *)

Saved == localStorage.IsDarkTheme

(* What isDarkModeEnabled makes of a stored theme and the system's.         *)
Dark(saved, system) == saved = "True" \/ (saved # "False" /\ system)

(* Nothing but Init is at work; the system is asked only if nothing is      *)
(* stored, and the loading style is removed only by a page that has decided.*)
Calm(m, saved, system, dark) ==
  /\ m.by = "init"
  /\ m.op \in {"getItem", "system", "watch", "removeLoadingStyle"}
  /\ m.op \in {"system", "watch"} => saved = Null
  /\ m.op \in {"watch", "removeLoadingStyle"} => dark = Dark(saved, system)

CalmCall(saved, system, dark) ==
  {m \in Request : Calm(m, saved, system, dark)}

CalmImport(saved, system, dark) ==
  {m \in Request : m.import /\ Calm(m, saved, system, dark)}

CalmAnswer(saved, system, dark) ==
  {m \in Message :
     /\ Calm(m, saved, system, dark)
     /\ ~m.import /\ m.value # "error" =>
          /\ m.op = "getItem" => m.value = saved
          /\ m.op = "system" => m.value = ToText(system)}

CalmWire ==
  /\ calls \in Seq(CalmCall(Saved, prefersDark, isDarkMode))
  /\ imports \in Seq(CalmImport(Saved, prefersDark, isDarkMode))
  /\ answers \in Seq(CalmAnswer(Saved, prefersDark, isDarkMode))

(* The hook of the page's own runtime has run, and has not thrown.          *)
Started ==
  \/ renderer = "Server" /\ "beforeServerStart" \in hooks
  \/ renderer = "WebAssembly" /\ "beforeWebAssemblyStart" \in hooks

SteadyOK ==
  /\ CalmWire
  /\ phase \in {"style", "done"} => isDarkMode = Dark(Saved, prefersDark)
  /\ Started => bootDark = Dark(Saved, prefersDark)

StartOK ==
  /\ phase = "none" => Nothing /\ ~watching
  /\ phase # "none" => Started
  /\ steady => SteadyOK

LEMMA DarkIsEnabled == IsDarkModeEnabled = Dark(Saved, prefersDark)
BY DEF IsDarkModeEnabled, GetItem, Dark, Saved

LEMMA NullIsNoTheme == Null # "True" /\ Null # "False"
BY LoadingScreenAssumption

LEMMA SavedIsText == PageOK => Saved \in Text /\ prefersDark \in BOOLEAN
BY DEF PageOK, PageTypeOK, Stored, Saved, Text

(* A call or an answer stays calm when the page comes to its decision.      *)
LEMMA CalmDecision ==
  ASSUME CalmWire, UNCHANGED <<Saved, prefersDark>>,
         isDarkMode' = isDarkMode \/ isDarkMode' = Dark(Saved, prefersDark)
  PROVE  /\ CalmCall(Saved, prefersDark, isDarkMode) \subseteq
              CalmCall(Saved', prefersDark', isDarkMode')
         /\ CalmImport(Saved, prefersDark, isDarkMode) \subseteq
              CalmImport(Saved', prefersDark', isDarkMode')
         /\ CalmAnswer(Saved, prefersDark, isDarkMode) \subseteq
              CalmAnswer(Saved', prefersDark', isDarkMode')
<1>1. CASE isDarkMode' = isDarkMode
  BY <1>1
<1>2. CASE isDarkMode' = Dark(Saved, prefersDark)
  <2>1. \A m : Calm(m, Saved, prefersDark, isDarkMode) =>
                 Calm(m, Saved', prefersDark', isDarkMode')
    BY <1>2 DEF Calm
  <2> QED
    BY <2>1 DEF CalmCall, CalmImport, CalmAnswer
<1> QED
  BY <1>1, <1>2

LEMMA SeqGrows ==
  ASSUME NEW S, NEW T, S \subseteq T, NEW q \in Seq(S)
  PROVE  q \in Seq(T)
OBVIOUS

(* A step leaves a queue, takes its head or adds to it.                     *)
QueueStep(q, r, S) ==
  \/ r = q
  \/ q # <<>> /\ r = Tail(q)
  \/ \E m \in S : r = Append(q, m)

LEMMA QueueStepOK ==
  ASSUME NEW S, NEW q \in Seq(S), NEW r, QueueStep(q, r, S)
  PROVE  r \in Seq(S)
BY DEF QueueStep

LEMMA CalmQueues ==
  ASSUME CalmWire, UNCHANGED <<Saved, prefersDark>>,
         isDarkMode' = isDarkMode \/ isDarkMode' = Dark(Saved, prefersDark),
         QueueStep(calls, calls', CalmCall(Saved', prefersDark', isDarkMode')),
         QueueStep(imports, imports',
                   CalmImport(Saved', prefersDark', isDarkMode')),
         QueueStep(answers, answers',
                   CalmAnswer(Saved', prefersDark', isDarkMode'))
  PROVE  CalmWire'
<1>1. /\ calls \in Seq(CalmCall(Saved', prefersDark', isDarkMode'))
      /\ imports \in Seq(CalmImport(Saved', prefersDark', isDarkMode'))
      /\ answers \in Seq(CalmAnswer(Saved', prefersDark', isDarkMode'))
  BY CalmDecision, SeqGrows DEF CalmWire
<1> QED
  BY <1>1, QueueStepOK DEF CalmWire

LEMMA CalmHeads ==
  ASSUME CalmWire
  PROVE  /\ calls # <<>> => Called \in CalmCall(Saved, prefersDark, isDarkMode)
         /\ imports # <<>> =>
              Head(imports) \in CalmImport(Saved, prefersDark, isDarkMode)
         /\ answers # <<>> =>
              Head(answers) \in CalmAnswer(Saved, prefersDark, isDarkMode)
BY DEF CalmWire, Called

LEMMA CalmEmpty ==
  ASSUME calls' = <<>>, imports' = <<>>, answers' = <<>>
  PROVE  CalmWire'
BY DEF CalmWire

Kept == UNCHANGED <<Saved, prefersDark, renderer, hooks, bootDark>>

LEMMA ScreenKept == UNCHANGED screen => Kept
BY DEF screen, store, visit, Kept, Saved

LEMMA StartStep ==
  ASSUME StartOK, Kept, steady' => steady,
         phase # "none" \/ Started, phase' # "none",
         steady /\ steady' =>
           /\ CalmWire'
           /\ phase' \in {"style", "done"} => isDarkMode' = Dark(Saved, prefersDark)
  PROVE  StartOK'
<1>1. Started' <=> Started
  BY DEF Started, Kept
<1>2. Dark(Saved, prefersDark)' = Dark(Saved, prefersDark)
  BY DEF Kept, Dark
<1> QED
  BY <1>1, <1>2 DEF StartOK, SteadyOK, Kept

(* Without steadiness, or after a failure, nothing is claimed.              *)
LEMMA FailStart ==
  ASSUME StartOK, UNCHANGED screen, phase # "none", steady' => steady, Fail
  PROVE  StartOK'
<1>1. Kept
  BY ScreenKept
<1>2. CalmWire' /\ phase' = "failed"
  BY CalmEmpty DEF Fail
<1> QED
  BY <1>1, <1>2, StartStep

(* Before the first render nothing is under way.                            *)
LEMMA UnderWay ==
  ASSUME StartOK, calls # <<>> \/ imports # <<>> \/ answers # <<>> \/ watching
  PROVE  phase # "none"
BY DEF StartOK, Nothing

(* An answer of a calm start.                                               *)
LEMMA CalmReceive ==
  ASSUME CalmWire, NEW op, NEW who, Receive(op, who)
  PROVE  /\ who = "init"
         /\ Calm(Head(answers), Saved, prefersDark, isDarkMode)
         /\ op \in {"getItem", "system", "watch", "removeLoadingStyle"}
         /\ op = "getItem" => Received = Saved
         /\ op = "system" => Received = ToText(prefersDark) /\ Saved = Null
         /\ op \in {"watch", "removeLoadingStyle"} =>
              isDarkMode = Dark(Saved, prefersDark)
         /\ op = "watch" => Saved = Null
         /\ \A S : QueueStep(answers, answers', S)
<1>1. Head(answers) \in CalmAnswer(Saved, prefersDark, isDarkMode)
  BY CalmHeads DEF Receive
<1> QED
  BY <1>1 DEF CalmAnswer, Calm, Receive, Received, QueueStep

(* A call of a calm start.                                                  *)
LEMMA CalmSend ==
  ASSUME NEW op \in {"system", "watch", "removeLoadingStyle"}, Send(op, "init", Null),
         op \in {"system", "watch"} => Saved' = Null,
         op \in {"watch", "removeLoadingStyle"} =>
           isDarkMode' = Dark(Saved', prefersDark')
  PROVE  QueueStep(calls, calls', CalmCall(Saved', prefersDark', isDarkMode'))
<1> DEFINE call == [op |-> op, by |-> "init", import |-> FALSE, value |-> Null]
<1>1. call \in Request
  BY DEF Request, Text
<1>2. Calm(call, Saved', prefersDark', isDarkMode')
  BY DEF Calm
<1>3. call \in CalmCall(Saved', prefersDark', isDarkMode')
  BY <1>1, <1>2 DEF CalmCall
<1>4. calls' = Append(calls, call)
  BY DEF Send
<1> HIDE DEF call
<1> QED
  BY <1>3, <1>4 DEF QueueStep

LEMMA StartInit ==
  ASSUME PageOK, ThemeOK, StartOK,
         InitTheme \/ UseSaved \/ AskSystem \/ Watch \/ Watched \/ InitEnds
  PROVE  StartOK'
<1>1. Kept /\ steady' = steady
  BY ScreenKept
     DEF InitTheme, UseSaved, AskSystem, Watch, Watched, InitEnds, pageVars, history
<1>2. UNCHANGED <<Saved, prefersDark>>
  BY <1>1 DEF Kept
<1>3. phase # "none" /\ phase' # "none"
  BY UnderWay
     DEF InitTheme, UseSaved, AskSystem, Watch, Watched, InitEnds, Receive
<1>4. ASSUME steady
      PROVE  /\ CalmWire'
             /\ phase' \in {"style", "done"} => isDarkMode' = Dark(Saved, prefersDark)
  <2>0. CalmWire
    BY <1>4 DEF StartOK, SteadyOK
  <2>1. CASE InitTheme
    <3> DEFINE call == [op |-> "getItem", by |-> "init", import |-> ~moduleReady,
                        value |-> Null]
    <3>1. (~moduleReady) \in BOOLEAN
      BY NotBoolean DEF ThemeOK, ServiceOK
    <3>2. call \in Request
      BY <3>1 DEF Request, Text
    <3>3. Calm(call, Saved', prefersDark', isDarkMode')
      BY DEF Calm
    <3>4. call \in CalmCall(Saved', prefersDark', isDarkMode')
      BY <3>2, <3>3 DEF CalmCall
    <3>5. calls' = Append(calls, call)
      BY <2>1 DEF InitTheme, Storage
    <3> HIDE DEF call
    <3>6. QueueStep(calls, calls', CalmCall(Saved', prefersDark', isDarkMode'))
      BY <3>4, <3>5 DEF QueueStep
    <3>7. CalmWire'
      BY <1>2, <2>0, <2>1, <3>6, CalmQueues DEF InitTheme, QueueStep
    <3> QED
      BY <2>1, <3>7 DEF InitTheme
  <2>2. CASE UseSaved
    <3>1. Received = Saved /\ \A S : QueueStep(answers, answers', S)
      BY <2>0, <2>2, CalmReceive DEF UseSaved
    <3>2. isDarkMode' = Dark(Saved, prefersDark)
      BY <2>2, <3>1, SavedIsText DEF UseSaved, Parse, Dark, Text
    <3>3. QueueStep(calls, calls', CalmCall(Saved', prefersDark', isDarkMode'))
      BY <1>2, <2>2, <3>2, CalmSend DEF UseSaved
    <3>4. CalmWire'
      BY <1>2, <2>0, <2>2, <3>1, <3>2, <3>3, CalmQueues DEF UseSaved, QueueStep
    <3> QED
      BY <3>2, <3>4
  <2>3. CASE AskSystem
    <3>1. Received = Saved /\ \A S : QueueStep(answers, answers', S)
      BY <2>0, <2>3, CalmReceive DEF AskSystem
    <3>2. Saved' = Null
      BY <1>2, <2>3, <3>1 DEF AskSystem
    <3>3. QueueStep(calls, calls', CalmCall(Saved', prefersDark', isDarkMode'))
      BY <2>3, <3>2, CalmSend DEF AskSystem
    <3>4. CalmWire'
      BY <1>2, <2>0, <2>3, <3>1, <3>3, CalmQueues DEF AskSystem, QueueStep
    <3> QED
      BY <2>3, <3>4 DEF AskSystem
  <2>4. CASE Watch
    <3>1. /\ Received = ToText(prefersDark)
          /\ Saved = Null
          /\ \A S : QueueStep(answers, answers', S)
      BY <2>0, <2>4, CalmReceive DEF Watch
    <3>2. isDarkMode' = Dark(Saved, prefersDark)
      BY <2>4, <3>1, SavedIsText, NullIsNoTheme DEF Watch, Parse, ToText, Dark
    <3>3. QueueStep(calls, calls', CalmCall(Saved', prefersDark', isDarkMode'))
      BY <1>2, <2>4, <3>1, <3>2, CalmSend DEF Watch
    <3>4. CalmWire'
      BY <1>2, <2>0, <2>4, <3>1, <3>2, <3>3, CalmQueues DEF Watch, QueueStep
    <3> QED
      BY <3>2, <3>4
  <2>5. CASE Watched
    <3>1. /\ isDarkMode = Dark(Saved, prefersDark)
          /\ \A S : QueueStep(answers, answers', S)
      BY <2>0, <2>5, CalmReceive DEF Watched
    <3>2. isDarkMode' = Dark(Saved, prefersDark)
      BY <2>5, <3>1 DEF Watched
    <3>3. QueueStep(calls, calls', CalmCall(Saved', prefersDark', isDarkMode'))
      BY <1>2, <2>5, <3>2, CalmSend DEF Watched
    <3>4. CalmWire'
      BY <1>2, <2>0, <2>5, <3>1, <3>2, <3>3, CalmQueues DEF Watched, QueueStep
    <3> QED
      BY <3>2, <3>4
  <2>6. CASE InitEnds
    <3>1. /\ isDarkMode = Dark(Saved, prefersDark)
          /\ \A S : QueueStep(answers, answers', S)
      BY <2>0, <2>6, CalmReceive DEF InitEnds
    <3>2. isDarkMode' = Dark(Saved, prefersDark)
      BY <2>6, <3>1 DEF InitEnds
    <3>3. CalmWire'
      BY <1>2, <2>0, <2>6, <3>1, <3>2, CalmQueues DEF InitEnds, QueueStep
    <3> QED
      BY <3>2, <3>3
  <2> QED
    BY <2>1, <2>2, <2>3, <2>4, <2>5, <2>6
<1> QED
  BY <1>1, <1>3, <1>4, StartStep

(* Once something has changed the theme nothing is claimed of it.           *)
LEMMA DisturbedStep ==
  ASSUME StartOK, UNCHANGED <<renderer, hooks>>, phase # "none", phase' # "none",
         ~steady'
  PROVE  StartOK'
BY DEF StartOK, Started

LEMMA StartToggle ==
  ASSUME PageOK, StartOK,
         LeaveAuto \/ EnterAuto \/ Flip \/ ToggleEnds \/ OnSystemThemeChanged
  PROVE  StartOK'
<1>1. PICK op \in {"system", "setItem", "removeItem", "report"},
           who \in {"toggle", "browser"} : Receive(op, who)
  BY DEF LeaveAuto, EnterAuto, Flip, ToggleEnds, OnSystemThemeChanged
<1>2. ~steady
  <2> SUFFICES ASSUME steady PROVE FALSE
    OBVIOUS
  <2>1. CalmWire
    BY DEF StartOK, SteadyOK
  <2> QED
    BY <1>1, <2>1, CalmReceive
<1>3. UNCHANGED <<renderer, hooks, phase, steady>>
  BY DEF LeaveAuto, EnterAuto, Flip, ToggleEnds, OnSystemThemeChanged, pageVars,
         screen, visit, history
<1>4. phase # "none"
  BY <1>1, UnderWay DEF Receive
<1> QED
  BY <1>2, <1>3, <1>4, DisturbedStep

LEMMA StartImported ==
  ASSUME PageOK, ThemeOK, StartOK, StorageModuleImported
  PROVE  StartOK'
<1> DEFINE answer == Head(answers)
<1>1. /\ Kept
      /\ UNCHANGED <<steady, phase, isDarkMode, imports>>
      /\ answers # <<>> /\ answers' = Tail(answers)
      /\ answer.import /\ answer.value # "error"
      /\ Send(answer.op, answer.by, answer.value)
  BY ScreenKept DEF StorageModuleImported, pageVars, history
<1>2. ASSUME steady
      PROVE  /\ CalmWire'
             /\ phase' \in {"style", "done"} => isDarkMode' = Dark(Saved, prefersDark)
  <2>1. CalmWire
    BY <1>2 DEF StartOK, SteadyOK
  <2>2. answer \in CalmAnswer(Saved, prefersDark, isDarkMode)
    BY <1>1, <2>1, CalmHeads
  <2> DEFINE call == [op |-> answer.op, by |-> answer.by, import |-> FALSE,
                      value |-> answer.value]
  <2>3. call \in CalmCall(Saved', prefersDark', isDarkMode')
    BY <1>1, <2>2 DEF CalmAnswer, CalmCall, Calm, Kept, Request, Message
  <2>4. calls' = Append(calls, call)
    BY <1>1 DEF Send
  <2> HIDE DEF call
  <2>5. QueueStep(calls, calls', CalmCall(Saved', prefersDark', isDarkMode'))
    BY <2>3, <2>4 DEF QueueStep
  <2>6. CalmWire'
    BY <1>1, <2>1, <2>5, CalmQueues DEF Kept, QueueStep
  <2> QED
    BY <1>1, <1>2, <2>6 DEF StartOK, SteadyOK
<1>3. phase # "none"
  BY <1>1, UnderWay
<1> QED
  BY <1>1, <1>2, <1>3, StartStep

LEMMA StartService ==
  ASSUME PageOK, ThemeOK, StartOK, FirstRender \/ Service
  PROVE  StartOK'
<1>1. CASE FirstRender
  <2>1. /\ Kept
        /\ UNCHANGED <<steady, isDarkMode, calls, imports, answers>>
        /\ phase' = "import"
    BY <1>1, ScreenKept DEF FirstRender, pageVars, history, wire
  <2>2. Started
    BY <1>1 DEF FirstRender, RuntimeRuns, Started, PageOK, PageTypeOK, Runtimes
  <2>3. ASSUME steady PROVE CalmWire'
    BY <2>1, <2>3, CalmQueues DEF StartOK, SteadyOK, Kept, QueueStep
  <2> QED
    BY <2>1, <2>2, <2>3, StartStep
<1>2. CASE ThemeModuleFails
  BY <1>2, FailStart DEF ThemeModuleFails, history
<1>3. CASE InitThemeFails
  <2>1. phase # "none"
    BY <1>3, UnderWay DEF InitThemeFails, Failed
  <2> QED
    BY <1>3, <2>1, DisturbedStep DEF InitThemeFails, pageVars, screen, visit
<1>4. CASE ToggleFails
  <2>1. phase # "none" /\ UNCHANGED <<screen, steady>>
    BY <1>4, UnderWay DEF ToggleFails, Failed, pageVars
  <2>2. CASE renderer = "Server"
    BY <1>4, <2>1, <2>2, FailStart DEF ToggleFails
  <2>3. CASE renderer # "Server"
    <3>1. ~steady
      <4> SUFFICES ASSUME steady PROVE FALSE
        OBVIOUS
      <4>1. Head(answers) \in CalmAnswer(Saved, prefersDark, isDarkMode)
        BY <1>4, CalmHeads DEF StartOK, SteadyOK, ToggleFails, Failed
      <4> QED
        BY <1>4, <4>1 DEF CalmAnswer, Calm, ToggleFails, Failed
    <3> QED
      BY <1>4, <2>1, <2>3, <3>1, DisturbedStep DEF ToggleFails, screen, visit, service
  <2> QED
    BY <2>2, <2>3
<1> QED
  BY <1>1, <1>2, <1>3, <1>4, StartInit, StartToggle, StartImported DEF Service

(* A call of a calm start is run or fails, and answered.                    *)
LEMMA CalmReply ==
  ASSUME CalmWire, UNCHANGED <<Saved, prefersDark, isDarkMode, imports>>,
         calls # <<>>, calls' = Tail(calls),
         NEW value \in Text \cup {"error"}, Reply(Called, value),
         \/ value = "error"
         \/ Called.op = "getItem" /\ value = Saved
         \/ Called.op = "system" /\ value = ToText(prefersDark)
         \/ Called.op \notin {"getItem", "system"}
  PROVE  CalmWire'
<1> DEFINE answer == [Called EXCEPT !.value = value]
<1>1. Called \in CalmCall(Saved, prefersDark, isDarkMode)
  BY CalmHeads
<1>2. answer \in Message
  BY <1>1 DEF CalmCall, Request, Message
<1>3. /\ answer.op = Called.op
      /\ answer.by = Called.by
      /\ answer.value = value
  BY <1>1 DEF CalmCall, Request
<1>4. answer \in CalmAnswer(Saved', prefersDark', isDarkMode')
  BY <1>1, <1>2, <1>3 DEF CalmCall, CalmAnswer, Calm
<1>5. answers' = Append(answers, answer)
  BY DEF Reply
<1> HIDE DEF answer
<1>6. QueueStep(answers, answers', CalmAnswer(Saved', prefersDark', isDarkMode'))
  BY <1>4, <1>5 DEF QueueStep
<1> QED
  BY <1>6, CalmQueues DEF QueueStep

LEMMA StartBrowser ==
  ASSUME PageOK, ThemeOK, StartOK, Browser
  PROVE  StartOK'
<1> USE DEF UnchangedService, service
<1>1. /\ phase # "none"
      /\ UNCHANGED <<phase, isDarkMode, renderer, hooks, steady>>
  BY UnderWay
     DEF Browser, StartImport, FinishImport, ImportFails, RunGetItem, RunSetItem,
         RunRemoveItem, RunGetSystemDarkMode, RunWatchSystemDarkMode,
         RemoveLoadingStyle, CallFails, Run, pageVars, screen, visit,
         UnchangedPageButStorage
<1>2. CASE ~steady
  BY <1>1, <1>2, DisturbedStep
<1>3. CASE steady
  <2>1. CalmWire
    BY <1>3 DEF StartOK, SteadyOK
  <2>2. calls # <<>> => Called \in CalmCall(Saved, prefersDark, isDarkMode)
    BY <2>1, CalmHeads
  <2>3. ~RunSetItem /\ ~RunRemoveItem
    BY <2>2 DEF RunSetItem, RunRemoveItem, Run, Called, CalmCall, Calm
  <2>4. Kept
    <3>1. CASE RemoveLoadingStyle
      BY <3>1 DEF RemoveLoadingStyle, Kept, Saved, store, visit
    <3>2. CASE ~RemoveLoadingStyle
      BY <2>3, <3>2, ScreenKept
         DEF Browser, StartImport, FinishImport, ImportFails, RunGetItem,
             RunGetSystemDarkMode, RunWatchSystemDarkMode, CallFails, pageVars
    <3> QED
      BY <3>1, <3>2
  <2>5. UNCHANGED <<Saved, prefersDark, isDarkMode>>
    BY <1>1, <2>4 DEF Kept
  <2>6. Null \in Text \cup {"error"} /\ "error" \in Text \cup {"error"}
    BY DEF Text
  <2>7. CalmWire'
    <3>1. CASE StartImport
      <4>1. Called \in CalmImport(Saved', prefersDark', isDarkMode')
        BY <2>2, <2>5, <3>1 DEF StartImport, CalmCall, CalmImport
      <4>2. /\ QueueStep(calls, calls', CalmCall(Saved', prefersDark', isDarkMode'))
            /\ QueueStep(imports, imports',
                         CalmImport(Saved', prefersDark', isDarkMode'))
            /\ answers' = answers
        BY <3>1, <4>1 DEF StartImport, QueueStep
      <4> QED
        BY <2>1, <2>5, <4>2, CalmQueues DEF QueueStep
    <3>2. CASE FinishImport
      <4>1. Head(imports) \in CalmImport(Saved, prefersDark, isDarkMode)
        BY <2>1, <3>2, CalmHeads DEF FinishImport
      <4>2. Head(imports) \in Message
        BY <4>1 DEF CalmImport, Request, Message
      <4>3. Head(imports) \in CalmAnswer(Saved', prefersDark', isDarkMode')
        BY <2>5, <4>1, <4>2 DEF CalmImport, CalmAnswer
      <4>4. /\ QueueStep(answers, answers',
                         CalmAnswer(Saved', prefersDark', isDarkMode'))
            /\ QueueStep(imports, imports',
                         CalmImport(Saved', prefersDark', isDarkMode'))
            /\ calls' = calls
        BY <3>2, <4>3 DEF FinishImport, QueueStep
      <4> QED
        BY <2>1, <2>5, <4>4, CalmQueues DEF QueueStep
    <3>3. CASE ImportFails
      <4> DEFINE answer == [Head(imports) EXCEPT !.value = "error"]
      <4>1. Head(imports) \in CalmImport(Saved, prefersDark, isDarkMode)
        BY <2>1, <3>3, CalmHeads DEF ImportFails
      <4>2. answer \in Message
        BY <4>1 DEF CalmImport, Request, Message
      <4>3. answer.op = Head(imports).op /\ answer.by = Head(imports).by
            /\ answer.value = "error"
        BY <4>1 DEF CalmImport, Request
      <4>4. answer \in CalmAnswer(Saved', prefersDark', isDarkMode')
        BY <2>5, <4>1, <4>2, <4>3 DEF CalmImport, CalmAnswer, Calm
      <4>5. answers' = Append(answers, answer)
        BY <3>3 DEF ImportFails, Reply
      <4> HIDE DEF answer
      <4>6. /\ QueueStep(answers, answers',
                         CalmAnswer(Saved', prefersDark', isDarkMode'))
            /\ QueueStep(imports, imports',
                         CalmImport(Saved', prefersDark', isDarkMode'))
            /\ calls' = calls
        BY <3>3, <4>4, <4>5 DEF ImportFails, QueueStep
      <4> QED
        BY <2>1, <2>5, <4>6, CalmQueues DEF QueueStep
    <3>4. CASE RunGetItem
      <4>1. Saved \in Text \cup {"error"}
        BY SavedIsText
      <4> QED
        BY <2>1, <2>5, <3>4, <4>1, CalmReply DEF RunGetItem, Run, Called, GetItem, Saved
    <3>5. CASE RunGetSystemDarkMode
      BY <2>1, <2>5, <3>5, CalmReply, ConversionsOK
         DEF RunGetSystemDarkMode, Run, Called
    <3>6. CASE RunWatchSystemDarkMode
      BY <2>1, <2>5, <2>6, <3>6, CalmReply DEF RunWatchSystemDarkMode, Run, Called
    <3>7. CASE RemoveLoadingStyle
      BY <2>1, <2>5, <2>6, <3>7, CalmReply DEF RemoveLoadingStyle, Run, Called
    <3>8. CASE CallFails
      BY <2>1, <2>5, <2>6, <3>8, CalmReply DEF CallFails
    <3> QED
      BY <2>3, <3>1, <3>2, <3>3, <3>4, <3>5, <3>6, <3>7, <3>8 DEF Browser
  <2> QED
    BY <1>1, <1>3, <2>4, <2>7, StartStep DEF StartOK, SteadyOK
<1> QED
  BY <1>2, <1>3

(* A step outside the service.                                              *)
LEMMA OutsideStep ==
  ASSUME StartOK, UNCHANGED <<service, wire>>, Started => Started',
         steady' => /\ steady
                    /\ UNCHANGED <<Saved, prefersDark>>
                    /\ Started' => bootDark' = Dark(Saved, prefersDark)
  PROVE  StartOK'
<1> USE DEF service, wire
<1>1. Nothing' <=> Nothing
  BY DEF Nothing
<1>2. ASSUME steady'
      PROVE  SteadyOK'
  <2>1. steady /\ SteadyOK /\ UNCHANGED <<Saved, prefersDark>>
    BY <1>2 DEF StartOK
  <2>2. CalmWire'
    BY <2>1, CalmQueues DEF SteadyOK, QueueStep
  <2> QED
    BY <1>2, <2>1, <2>2 DEF SteadyOK
<1> QED
  BY <1>1, <1>2 DEF StartOK

LEMMA StartClick ==
  ASSUME StartOK, ToggleTooEarly \/ ToggleTheme
  PROVE  StartOK'
<1>1. phase # "none" /\ UNCHANGED screen
  BY DEF ToggleTooEarly, ToggleTheme, Click
<1>2. CASE ToggleTheme
  BY <1>1, <1>2, DisturbedStep DEF ToggleTheme, service, screen, visit
<1>3. CASE ToggleTooEarly /\ renderer = "Server"
  BY <1>1, <1>3, FailStart DEF ToggleTooEarly, history
<1>4. CASE ToggleTooEarly /\ renderer # "Server"
  <2>1. UNCHANGED <<service, wire, steady>>
    BY <1>4 DEF ToggleTooEarly, history
  <2>2. Kept /\ Started' = Started
    BY <1>1, ScreenKept DEF Started, Kept
  <2> QED
    BY <2>1, <2>2, OutsideStep DEF Kept, StartOK, SteadyOK
<1> QED
  BY <1>2, <1>3, <1>4

LEMMA StartSystemChanges ==
  ASSUME StartOK, SystemChanges
  PROVE  StartOK'
<1>1. ~steady' /\ UNCHANGED <<service, calls, imports, watching, renderer, hooks>>
  BY DEF SystemChanges, SystemThemeChanges, UnchangedPage
<1>2. CASE phase # "none"
  BY <1>1, <1>2, DisturbedStep DEF service
<1>3. CASE phase = "none"
  <2>1. answers' = answers
    BY <1>3 DEF StartOK, SystemChanges
  <2> QED
    BY <1>1, <2>1, OutsideStep DEF wire, Started
<1> QED
  BY <1>2, <1>3

LEMMA StartOtherTab ==
  ASSUME StartOK, OtherTab
  PROVE  StartOK'
<1>1. UNCHANGED <<service, wire, renderer, hooks, bootDark, prefersDark>>
  BY DEF OtherTab, OtherTabStores, UnchangedPage
<1>2. steady' => steady /\ Saved' = Saved
  BY DEF OtherTab, Saved
<1> QED
  BY <1>1, <1>2, OutsideStep DEF Started, StartOK, SteadyOK

LEMMA StartOpen ==
  ASSUME Open
  PROVE  StartOK'
<1>1. CalmWire'
  BY CalmEmpty DEF Open, FreshService
<1>2. phase' = "none" /\ hooks' = {} /\ Nothing' /\ ~watching'
  BY DEF Open, OpenPage, FreshPage, FreshService, Nothing
<1> QED
  BY <1>1, <1>2 DEF StartOK, SteadyOK, Started

(* The count that a start stores leaves the theme.                          *)
LEMMA BootKeepsTheme == PageOK /\ Boot => Saved' = Saved
<1> SUFFICES ASSUME PageOK, Boot PROVE Saved' = Saved
  OBVIOUS
<1>1. localStorage \in Stored
  BY DEF PageOK, PageTypeOK
<1>2. CASE AfterServerStarted \/ AfterWebAssemblyStarted
  BY <1>1, <1>2 DEF AfterServerStarted, AfterWebAssemblyStarted,
     CompleteInitialization, SetItem, Stored, Saved, store
<1>3. CASE BeforeServerStart \/ BeforeWebAssemblyStart \/ LoadBootResource
  BY <1>3 DEF BeforeServerStart, BeforeWebAssemblyStart, LoadBootResource,
     ApplyThemeInitialization, GiveUp, store, Saved
<1> QED
  BY <1>2, <1>3 DEF Boot, Hook

(* A runtime that is given up takes nothing back that was claimed: its own  *)
(* hook had not run.                                                        *)
LEMMA StartGivenUp ==
  ASSUME StartOK, UNCHANGED <<service, wire, steady>>,
         NEW runtime \in Runtimes, GiveUp(runtime),
         NEW hook, Call(hook),
         hook = IF runtime = "Server" THEN "beforeServerStart"
                                      ELSE "beforeWebAssemblyStart"
  PROVE  StartOK'
<1>1. UNCHANGED <<Saved, prefersDark, bootDark>>
  BY DEF GiveUp, store, Saved
<1>2. Started' <=> Started
  BY DEF GiveUp, Call, Started, Runtimes
<1> QED
  BY <1>1, <1>2, OutsideStep DEF StartOK, SteadyOK

LEMMA StartBoot ==
  ASSUME PageOK, StartOK, Boot
  PROVE  StartOK'
<1>1. UNCHANGED <<service, wire, steady>>
  BY DEF Boot, themeVars, history
<1>2. Saved' = Saved
  BY BootKeepsTheme
<1>3. CASE \/ BeforeServerStart /\ GiveUp("Server")
           \/ BeforeWebAssemblyStart /\ GiveUp("WebAssembly")
  BY <1>1, <1>3, StartGivenUp DEF BeforeServerStart, BeforeWebAssemblyStart, Runtimes
<1>4. CASE /\ BeforeServerStart \/ BeforeWebAssemblyStart
           /\ ApplyThemeInitialization
  <2>1. UNCHANGED <<prefersDark, renderer>>
    BY <1>4 DEF ApplyThemeInitialization, visit
  <2>2. Started => Started'
    BY <1>4, <2>1 DEF BeforeServerStart, BeforeWebAssemblyStart, Call, Started
  <2>3. bootDark' = Dark(Saved, prefersDark)
    BY <1>4, DarkIsEnabled DEF ApplyThemeInitialization
  <2> QED
    BY <1>1, <1>2, <2>1, <2>2, <2>3, OutsideStep
<1>5. CASE AfterServerStarted \/ AfterWebAssemblyStarted \/ LoadBootResource
  <2>1. UNCHANGED <<prefersDark, renderer, bootDark>>
    BY <1>5 DEF AfterServerStarted, AfterWebAssemblyStarted, LoadBootResource,
       CompleteInitialization, visit
  <2>2. Started' <=> Started
    BY <1>5, <2>1 DEF AfterServerStarted, AfterWebAssemblyStarted,
       LoadBootResource, Call, Started
  <2> QED
    BY <1>1, <1>2, <2>1, <2>2, OutsideStep DEF StartOK, SteadyOK
<1> QED
  BY <1>3, <1>4, <1>5 DEF Boot, Hook, BeforeServerStart, BeforeWebAssemblyStart

LEMMA StartInduction ==
  ASSUME IInv, StartOK, [Next]_vars
  PROVE  StartOK'
<1>1. CASE UNCHANGED vars
  <2>1. UNCHANGED <<service, wire, steady, renderer, hooks, bootDark, prefersDark,
                    Saved>>
    BY <1>1 DEF vars, pageVars, screen, store, visit, themeVars, history, Saved
  <2> QED
    BY <2>1, OutsideStep DEF Started, StartOK, SteadyOK
<1> QED
  BY <1>1, StartBoot, StartService, StartBrowser, StartOpen, StartClick,
     StartSystemChanges, StartOtherTab DEF IInv, Next, User

LEMMA StartInitially == Init => StartOK
<1> SUFFICES ASSUME Init PROVE StartOK
  OBVIOUS
<1>1. calls = <<>> /\ imports = <<>> /\ answers = <<>>
  BY DEF Init
<1>2. CalmWire
  BY <1>1 DEF CalmWire
<1>3. phase = "none" /\ hooks = {} /\ Nothing /\ ~watching
  BY DEF Init, PageInit, Nothing
<1> QED
  BY <1>2, <1>3 DEF StartOK, SteadyOK, Started

(* The theme that the hooks draw the loading screen in, decided in          *)
(* JavaScript, is the one ThemeService comes to through three calls, unless *)
(* something changed the theme in between.                                  *)
THEOREM BootThemeCorrect == Spec => []BootThemeIsAppTheme
<1>1. Init => IInv /\ StartOK
  BY InitOK, StartInitially
<1>2. (IInv /\ StartOK) /\ [Next]_vars => (IInv /\ StartOK)'
  BY NextOK, StartInduction
<1>3. IInv /\ StartOK => BootThemeIsAppTheme
  BY DEF StartOK, SteadyOK, BootThemeIsAppTheme
<1> QED
  BY <1>1, <1>2, <1>3, PTL DEF Spec
-----------------------------------------------------------------------------
(* Queues, for what travels between the service and the browser             *)

LEMMA TailIndices ==
  ASSUME NEW S, NEW q \in Seq(S), q # <<>>
  PROVE  /\ \A i \in DOMAIN Tail(q) : i + 1 \in DOMAIN q /\ Tail(q)[i] = q[i + 1]
         /\ \A i \in DOMAIN q : i = 1 \/ i - 1 \in DOMAIN Tail(q)
         /\ 1 \in DOMAIN q /\ Head(q) = q[1]
         /\ DOMAIN q \subseteq Nat \ {0}
         /\ DOMAIN Tail(q) \subseteq Nat \ {0}
OBVIOUS

LEMMA AppendIndices ==
  ASSUME NEW S, NEW q \in Seq(S), NEW m
  PROVE  /\ \A i \in DOMAIN q : i \in DOMAIN Append(q, m) /\ Append(q, m)[i] = q[i]
         /\ \A i \in DOMAIN Append(q, m) : i \in DOMAIN q \/ i = Len(q) + 1
         /\ Len(q) + 1 \in DOMAIN Append(q, m)
         /\ Append(q, m)[Len(q) + 1] = m
         /\ \A i \in DOMAIN q : Len(q) + 1 > i
         /\ DOMAIN q \subseteq Nat /\ Len(q) \in Nat
OBVIOUS

-----------------------------------------------------------------------------
(* The answer Init is owed                                                  *)

NoneOwed(p, q, r) == OwesNothing(p) /\ OwesNothing(q) /\ OwesNothing(r)

OwedOnce(p, q, r, op) ==
  \/ Owes(p, op) /\ OwesNothing(q) /\ OwesNothing(r)
  \/ OwesNothing(p) /\ Owes(q, op) /\ OwesNothing(r)
  \/ OwesNothing(p) /\ OwesNothing(q) /\ Owes(r, op)

(* A step passes what Init is owed on.                                      *)
PassesOn ==
  /\ NoneOwed(calls, imports, answers) => NoneOwed(calls', imports', answers')
  /\ \A op : OwedOnce(calls, imports, answers, op) =>
               OwedOnce(calls', imports', answers', op)

LEMMA OwedMeaning ==
  /\ phase \in {"get", "system", "watch", "style"} <=> phase \in DOMAIN Awaited
  /\ InitIsOwedItsAnswer <=>
       IF phase \in {"get", "system", "watch", "style"}
       THEN OwedOnce(calls, imports, answers, Awaited[phase])
       ELSE NoneOwed(calls, imports, answers)
BY DEF InitIsOwedItsAnswer, Awaited, OwedOnce, NoneOwed

LEMMA TakeOwed ==
  ASSUME NEW S, NEW q \in Seq(S), q # <<>>
  PROVE  /\ OwesNothing(q) => OwesNothing(Tail(q)) /\ Head(q).by # "init"
         /\ \A op : Owes(q, op) =>
              IF Head(q).by = "init"
              THEN Head(q).op = op /\ OwesNothing(Tail(q))
              ELSE Owes(Tail(q), op)
<1> USE TailIndices
<1>1. OwesNothing(q) => OwesNothing(Tail(q)) /\ Head(q).by # "init"
  BY DEF OwesNothing
<1>2. ASSUME NEW op, Owes(q, op), Head(q).by = "init"
      PROVE  Head(q).op = op /\ OwesNothing(Tail(q))
  <2>1. PICK i \in DOMAIN q :
          /\ q[i].by = "init" /\ q[i].op = op
          /\ \A j \in DOMAIN q \ {i} : q[j].by # "init"
    BY <1>2 DEF Owes
  <2>2. i = 1
    BY <1>2, <2>1
  <2>3. \A j \in DOMAIN Tail(q) : j + 1 \in DOMAIN q \ {1} /\ Tail(q)[j] = q[j + 1]
    OBVIOUS
  <2> QED
    BY <2>1, <2>2, <2>3 DEF OwesNothing
<1>3. ASSUME NEW op, Owes(q, op), Head(q).by # "init"
      PROVE  Owes(Tail(q), op)
  <2>1. PICK i \in DOMAIN q :
          /\ q[i].by = "init" /\ q[i].op = op
          /\ \A j \in DOMAIN q \ {i} : q[j].by # "init"
    BY <1>3 DEF Owes
  <2>2. i \in Nat /\ i # 1
    BY <1>3, <2>1
  <2>3. i - 1 \in DOMAIN Tail(q) /\ Tail(q)[i - 1] = q[i]
    <3>1. i - 1 + 1 = i
      BY <2>2
    <3> QED
      BY <2>2, <3>1
  <2>4. ASSUME NEW j \in DOMAIN Tail(q) \ {i - 1} PROVE Tail(q)[j].by # "init"
    <3>1. j \in Nat /\ j + 1 \in DOMAIN q /\ Tail(q)[j] = q[j + 1]
      OBVIOUS
    <3>2. j + 1 # i
      BY <2>2, <2>4, <3>1
    <3> QED
      BY <2>1, <3>1, <3>2
  <2> QED
    BY <2>1, <2>3, <2>4 DEF Owes
<1> QED
  BY <1>1, <1>2, <1>3

LEMMA AppendOwed ==
  ASSUME NEW S, NEW q \in Seq(S), NEW m
  PROVE  /\ OwesNothing(q) /\ m.by # "init" => OwesNothing(Append(q, m))
         /\ OwesNothing(q) /\ m.by = "init" => Owes(Append(q, m), m.op)
         /\ \A op : Owes(q, op) /\ m.by # "init" => Owes(Append(q, m), op)
<1> USE AppendIndices
<1>1. OwesNothing(q) /\ m.by # "init" => OwesNothing(Append(q, m))
  BY DEF OwesNothing
<1>2. OwesNothing(q) /\ m.by = "init" => Owes(Append(q, m), m.op)
  BY DEF OwesNothing, Owes
<1>3. ASSUME NEW op, Owes(q, op), m.by # "init" PROVE Owes(Append(q, m), op)
  <2>1. PICK i \in DOMAIN q :
          /\ q[i].by = "init" /\ q[i].op = op
          /\ \A j \in DOMAIN q \ {i} : q[j].by # "init"
    BY <1>3 DEF Owes
  <2> QED
    BY <1>3, <2>1 DEF Owes
<1> QED
  BY <1>1, <1>2, <1>3

(* A message taken from one queue goes into another.                        *)
LEMMA RelayOwed ==
  ASSUME NEW S, NEW p \in Seq(S), NEW q \in Seq(S), NEW r, NEW m,
         p # <<>>, m.by = Head(p).by, m.op = Head(p).op
  PROVE  /\ NoneOwed(p, q, r) => NoneOwed(Tail(p), Append(q, m), r)
         /\ \A op : OwedOnce(p, q, r, op) => OwedOnce(Tail(p), Append(q, m), r, op)
<1>1. NoneOwed(p, q, r) => NoneOwed(Tail(p), Append(q, m), r)
  BY TakeOwed, AppendOwed DEF NoneOwed
<1>2. ASSUME NEW op, OwedOnce(p, q, r, op)
      PROVE  OwedOnce(Tail(p), Append(q, m), r, op)
  <2>1. CASE Owes(p, op) /\ OwesNothing(q) /\ OwesNothing(r)
    <3>1. CASE Head(p).by = "init"
      <4>1. Head(p).op = op /\ OwesNothing(Tail(p))
        BY <2>1, <3>1, TakeOwed
      <4>2. Owes(Append(q, m), m.op)
        BY <2>1, <3>1, AppendOwed
      <4> QED
        BY <2>1, <4>1, <4>2 DEF OwedOnce
    <3>2. CASE Head(p).by # "init"
      <4>1. Owes(Tail(p), op)
        BY <2>1, <3>2, TakeOwed
      <4>2. OwesNothing(Append(q, m))
        BY <2>1, <3>2, AppendOwed
      <4> QED
        BY <2>1, <4>1, <4>2 DEF OwedOnce
    <3> QED
      BY <3>1, <3>2
  <2>2. CASE OwesNothing(p) /\ (Owes(q, op) \/ OwesNothing(q))
    <3>1. OwesNothing(Tail(p)) /\ Head(p).by # "init"
      BY <2>2, TakeOwed
    <3>2. /\ OwesNothing(q) => OwesNothing(Append(q, m))
          /\ Owes(q, op) => Owes(Append(q, m), op)
      BY <3>1, AppendOwed
    <3> QED
      BY <1>2, <2>2, <3>1, <3>2 DEF OwedOnce, Owes, OwesNothing
  <2> QED
    BY <1>2, <2>1, <2>2 DEF OwedOnce
<1> QED
  BY <1>1, <1>2

LEMMA OwedSymmetric ==
  ASSUME NEW p, NEW q, NEW r
  PROVE  /\ NoneOwed(p, q, r) <=> NoneOwed(q, r, p)
         /\ NoneOwed(p, q, r) <=> NoneOwed(p, r, q)
         /\ \A op : OwedOnce(p, q, r, op) <=> OwedOnce(q, r, p, op)
         /\ \A op : OwedOnce(p, q, r, op) <=> OwedOnce(p, r, q, op)
BY DEF NoneOwed, OwedOnce

LEMMA OwedMeaningNext ==
  /\ phase' \in {"get", "system", "watch", "style"} =>
       Awaited[phase'] = CASE phase' = "get" -> "getItem"
                           [] phase' = "system" -> "system"
                           [] phase' = "watch" -> "watch"
                           [] phase' = "style" -> "removeLoadingStyle"
  /\ InitIsOwedItsAnswer' <=>
       IF phase' \in {"get", "system", "watch", "style"}
       THEN OwedOnce(calls', imports', answers', Awaited[phase'])
       ELSE NoneOwed(calls', imports', answers')
BY DEF InitIsOwedItsAnswer, Awaited, OwedOnce, NoneOwed

LEMMA PassedOn ==
  ASSUME InitIsOwedItsAnswer, PassesOn, phase' = phase
  PROVE  InitIsOwedItsAnswer'
BY OwedMeaning, OwedMeaningNext DEF PassesOn

LEMMA NothingOwed ==
  ASSUME calls' = <<>>, imports' = <<>>, answers' = <<>>,
         phase' \in {"none", "failed"}
  PROVE  InitIsOwedItsAnswer'
BY OwedMeaningNext DEF NoneOwed, OwesNothing

(* Init gets what it is owed, and that was all.                             *)
LEMMA OwedReceived ==
  ASSUME TypeOK, InitIsOwedItsAnswer, answers # <<>>, Head(answers).by = "init"
  PROVE  /\ phase \in {"get", "system", "watch", "style"}
         /\ Head(answers).op = Awaited[phase]
         /\ NoneOwed(calls, imports, Tail(answers))
<1>1. answers \in Seq(Message)
  BY DEF TypeOK
<1>2. ~OwesNothing(answers)
  BY <1>1, TakeOwed
<1>3. /\ phase \in {"get", "system", "watch", "style"}
      /\ OwesNothing(calls) /\ OwesNothing(imports)
      /\ Owes(answers, Awaited[phase])
  BY <1>2, OwedMeaning DEF NoneOwed, OwedOnce
<1>4. Head(answers).op = Awaited[phase] /\ OwesNothing(Tail(answers))
  BY <1>1, <1>3, TakeOwed
<1> QED
  BY <1>3, <1>4 DEF NoneOwed

(* It asks for the next thing, and is owed that.                            *)
LEMMA OwedNext ==
  ASSUME TypeOK, NEW rest, NoneOwed(calls, imports, rest), NEW m, m.by = "init",
         calls' = Append(calls, m), imports' = imports, answers' = rest,
         phase' \in {"get", "system", "watch", "style"}, m.op = Awaited[phase']
  PROVE  InitIsOwedItsAnswer'
<1>1. calls \in Seq(Message)
  BY DEF TypeOK
<1>2. Owes(Append(calls, m), m.op)
  BY <1>1, AppendOwed DEF NoneOwed
<1> QED
  BY <1>2, OwedMeaningNext DEF NoneOwed, OwedOnce

LEMMA InitOwed ==
  ASSUME TypeOK, InitIsOwedItsAnswer,
         \/ InitTheme \/ UseSaved \/ AskSystem \/ Watch \/ Watched
         \/ InitThemeFails \/ InitEnds
  PROVE  InitIsOwedItsAnswer'
<1>1. CASE InitTheme
  <2>1. phase = "import" /\ phase' = "get" /\ UNCHANGED <<imports, answers>>
    BY <1>1 DEF InitTheme
  <2>2. NoneOwed(calls, imports, answers)
    BY <2>1, OwedMeaning
  <2> QED
    BY <1>1, <2>1, <2>2, OwedNext, OwedMeaningNext DEF InitTheme, Storage
<1>2. ASSUME NEW op, NEW next \in {"system", "watch", "style"}, NEW ask,
             Receive(op, "init") \/ (Failed("init") /\ answers' = Tail(answers)),
             phase' = next, Send(ask, "init", Null), imports' = imports,
             ask = Awaited[next]
      PROVE  InitIsOwedItsAnswer'
  <2>1. /\ answers # <<>> /\ Head(answers).by = "init"
        /\ answers' = Tail(answers)
    BY <1>2 DEF Receive, Failed
  <2> QED
    BY <1>2, <2>1, OwedReceived, OwedNext DEF Send
<1>3. /\ Awaited["system"] = "system" /\ Awaited["watch"] = "watch"
      /\ Awaited["style"] = "removeLoadingStyle"
  BY DEF Awaited
<1>4. CASE UseSaved
  BY <1>2, <1>3, <1>4 DEF UseSaved
<1>5. CASE AskSystem
  BY <1>2, <1>3, <1>5 DEF AskSystem
<1>6. CASE Watch
  BY <1>2, <1>3, <1>6 DEF Watch
<1>7. CASE Watched
  BY <1>2, <1>3, <1>7 DEF Watched
<1>8. CASE InitThemeFails
  BY <1>2, <1>3, <1>8 DEF InitThemeFails
<1>9. CASE InitEnds
  <2>1. /\ answers # <<>> /\ Head(answers).by = "init"
        /\ answers' = Tail(answers) /\ phase' = "done"
        /\ UNCHANGED <<calls, imports>>
    BY <1>9 DEF InitEnds, Receive
  <2> QED
    BY <2>1, OwedReceived, OwedMeaningNext
<1> QED
  BY <1>1, <1>4, <1>5, <1>6, <1>7, <1>8, <1>9

(* The answers to others: they are taken, and another call of theirs is     *)
(* sent, or none.                                                           *)
LEMMA OthersPassOn ==
  ASSUME TypeOK, imports' = imports,
         \/ answers' = answers
         \/ answers # <<>> /\ Head(answers).by # "init" /\ answers' = Tail(answers)
         \/ \E m : m.by # "init" /\ answers' = Append(answers, m),
         \/ calls' = calls
         \/ \E m : m.by # "init" /\ calls' = Append(calls, m)
  PROVE  PassesOn
<1>1. calls \in Seq(Message) /\ answers \in Seq(Message)
  BY DEF TypeOK
<1>2. /\ OwesNothing(answers) => OwesNothing(answers')
      /\ \A op : Owes(answers, op) => Owes(answers', op)
  <2>1. CASE answers # <<>> /\ Head(answers).by # "init" /\ answers' = Tail(answers)
    BY <1>1, <2>1, TakeOwed
  <2>2. ASSUME NEW m, m.by # "init", answers' = Append(answers, m)
        PROVE  /\ OwesNothing(answers) => OwesNothing(answers')
               /\ \A op : Owes(answers, op) => Owes(answers', op)
    BY <1>1, <2>2, AppendOwed
  <2> QED
    BY <2>1, <2>2
<1>3. /\ OwesNothing(calls) => OwesNothing(calls')
      /\ \A op : Owes(calls, op) => Owes(calls', op)
  BY <1>1, AppendOwed
<1> QED
  BY <1>2, <1>3 DEF PassesOn, NoneOwed, OwedOnce

LEMMA ToggleOwed ==
  ASSUME TypeOK, InitIsOwedItsAnswer,
         \/ LeaveAuto \/ EnterAuto \/ Flip \/ ToggleEnds \/ ToggleFails
         \/ OnSystemThemeChanged \/ ToggleTooEarly \/ ToggleTheme
         \/ SystemChanges \/ ThemeModuleFails
  PROVE  InitIsOwedItsAnswer'
<1>1. CASE Fail
  BY <1>1, NothingOwed DEF Fail
<1>2. CASE ~Fail
  <2>1. imports' = imports /\ phase' = phase
    BY <1>2 DEF LeaveAuto, EnterAuto, Flip, ToggleEnds, ToggleFails,
       OnSystemThemeChanged, ToggleTooEarly, ToggleTheme, SystemChanges,
       ThemeModuleFails, service, wire
  <2>2. \/ answers' = answers
        \/ answers # <<>> /\ Head(answers).by # "init" /\ answers' = Tail(answers)
        \/ \E m : m.by # "init" /\ answers' = Append(answers, m)
    <3>1. CASE SystemChanges
      <4> DEFINE m == [op |-> "report", by |-> "browser", import |-> FALSE,
                       value |-> ToText(prefersDark')]
      <4>1. m.by # "init" /\ (answers' = answers \/ answers' = Append(answers, m))
        BY <3>1 DEF SystemChanges
      <4> HIDE DEF m
      <4> QED
        BY <4>1
    <3>2. CASE ~SystemChanges
      BY <1>2, <3>2 DEF LeaveAuto, EnterAuto, Flip, ToggleEnds, ToggleFails,
         OnSystemThemeChanged, ToggleTooEarly, ToggleTheme, ThemeModuleFails,
         Receive, Failed, wire
    <3> QED
      BY <3>1, <3>2
  <2>3. \/ calls' = calls
        \/ \E op, value, import :
             calls' = Append(calls, [op |-> op, by |-> "toggle",
                                     import |-> import, value |-> value])
    BY <1>2 DEF LeaveAuto, EnterAuto, Flip, ToggleEnds, ToggleFails,
       OnSystemThemeChanged, ToggleTooEarly, ToggleTheme, SystemChanges,
       ThemeModuleFails, Send, Storage, wire
  <2>4. calls' = calls \/ \E m : m.by # "init" /\ calls' = Append(calls, m)
    <3>1. ASSUME NEW op, NEW value, NEW import
          PROVE  [op |-> op, by |-> "toggle", import |-> import,
                  value |-> value].by # "init"
      OBVIOUS
    <3> QED
      BY <2>3, <3>1
  <2> QED
    BY <2>1, <2>2, <2>4, OthersPassOn, PassedOn
<1> QED
  BY <1>1, <1>2

(* The browser, and the import of the module, relay.                        *)
LEMMA BrowserOwed ==
  ASSUME TypeOK, InitIsOwedItsAnswer, Browser \/ StorageModuleImported
  PROVE  InitIsOwedItsAnswer'
<1>1. calls \in Seq(Message) /\ imports \in Seq(Message) /\ answers \in Seq(Message)
  BY DEF TypeOK
<1>2. phase' = phase
  BY DEF Browser, StartImport, FinishImport, ImportFails, RunGetItem, RunSetItem,
         RunRemoveItem, RunGetSystemDarkMode, RunWatchSystemDarkMode,
         RemoveLoadingStyle, CallFails, UnchangedService, service,
         StorageModuleImported
<1>3. ASSUME calls # <<>>, calls' = Tail(calls), imports' = imports,
             NEW m, m.by = Head(calls).by, m.op = Head(calls).op,
             answers' = Append(answers, m)
      PROVE  PassesOn
  BY <1>1, <1>3, RelayOwed, OwedSymmetric DEF PassesOn
<1>4. CASE StartImport
  <2>1. PassesOn
    BY <1>1, <1>4, RelayOwed DEF StartImport, Called, PassesOn
  <2> QED
    BY <1>2, <2>1, PassedOn
<1>5. CASE FinishImport \/ ImportFails
  <2>1. PICK m : /\ imports # <<>> /\ imports' = Tail(imports) /\ calls' = calls
                 /\ m.by = Head(imports).by /\ m.op = Head(imports).op
                 /\ answers' = Append(answers, m)
    <3>1. Head(imports) \in Message
      BY <1>1, <1>5 DEF FinishImport, ImportFails
    <3> QED
      BY <1>5, <3>1 DEF FinishImport, ImportFails, Reply, Message
  <2>2. PassesOn
    BY <1>1, <2>1, RelayOwed, OwedSymmetric DEF PassesOn
  <2> QED
    BY <1>2, <2>2, PassedOn
<1>6. CASE StorageModuleImported
  <2>1. PICK m : /\ answers # <<>> /\ answers' = Tail(answers) /\ imports' = imports
                 /\ m.by = Head(answers).by /\ m.op = Head(answers).op
                 /\ calls' = Append(calls, m)
    BY <1>6 DEF StorageModuleImported, Send
  <2>2. PassesOn
    BY <1>1, <2>1, RelayOwed, OwedSymmetric DEF PassesOn
  <2> QED
    BY <1>2, <2>2, PassedOn
<1>7. CASE \/ RunGetItem \/ RunSetItem \/ RunRemoveItem \/ RunGetSystemDarkMode
           \/ RunWatchSystemDarkMode \/ RemoveLoadingStyle \/ CallFails
  <2>1. /\ calls # <<>> /\ calls' = Tail(calls) /\ imports' = imports
        /\ \E value : answers' = Append(answers, [Head(calls) EXCEPT !.value = value])
    BY <1>7 DEF RunGetItem, RunSetItem, RunRemoveItem, RunGetSystemDarkMode,
       RunWatchSystemDarkMode, RemoveLoadingStyle, CallFails, Run, Reply, Called
  <2>2. Head(calls) \in Message
    BY <1>1, <2>1
  <2>3. PICK value : answers' = Append(answers, [Head(calls) EXCEPT !.value = value])
    BY <2>1
  <2> DEFINE m == [Head(calls) EXCEPT !.value = value]
  <2>4. /\ m.by = Head(calls).by /\ m.op = Head(calls).op
        /\ answers' = Append(answers, m)
    BY <2>2, <2>3 DEF Message
  <2> HIDE DEF m
  <2>5. PassesOn
    BY <1>3, <2>1, <2>4
  <2> QED
    BY <1>2, <2>5, PassedOn
<1> QED
  BY <1>4, <1>5, <1>6, <1>7 DEF Browser

LEMMA OwedStep ==
  ASSUME TypeOK, InitIsOwedItsAnswer, [Next]_vars
  PROVE  InitIsOwedItsAnswer'
<1>1. CASE Boot \/ OtherTab \/ FirstRender \/ UNCHANGED vars
  <2>1. UNCHANGED <<calls, imports, answers>>
    BY <1>1 DEF Boot, OtherTab, FirstRender, themeVars, wire, vars
  <2>2. phase' = phase \/ (phase = "none" /\ phase' = "import")
    BY <1>1 DEF Boot, OtherTab, FirstRender, themeVars, service, vars
  <2> QED
    BY <2>1, <2>2, OwedMeaning, OwedMeaningNext
<1>2. CASE Open
  BY <1>2, NothingOwed DEF Open, FreshService
<1>3. CASE Service \/ Browser \/ User \/ SystemChanges
  BY <1>2, <1>3, InitOwed, ToggleOwed, BrowserOwed DEF Service, User
<1> QED
  BY <1>1, <1>2, <1>3 DEF Next

(* While Init waits, exactly one message about what it waits for is under   *)
(* way, whatever overlaps or fails; else none of its own                    *)
(* (ThemeService.cs:54-111).                                                *)
THEOREM OwedCorrect == Spec => []InitIsOwedItsAnswer
<1>1. Init => InitIsOwedItsAnswer
  BY DEF Init, InitIsOwedItsAnswer, Awaited, OwesNothing
<1>2. InitIsOwedItsAnswer /\ TypeOK /\ [Next]_vars => InitIsOwedItsAnswer'
  BY OwedStep
<1> QED
  BY <1>1, <1>2, TypeCorrect, PTL DEF Spec
=============================================================================
