--------------------------- MODULE LoadingScreen ---------------------------
(***************************************************************************)
(* One page of the web interface from the moment it is opened until Blazor  *)
(* runs: the two scripts and the hooks of wwwroot, and the browser's local  *)
(* storage, which outlives the page and which other tabs write to.          *)
(*                                                                         *)
(* The components are rendered by the server while WebAssembly is not in    *)
(* the cache (it is then loaded in the background, for the next visit), and *)
(* by WebAssembly otherwise (App.razor: InteractiveAuto).  Blazor calls the *)
(* hooks of the two runtimes independently.                                 *)
(***************************************************************************)
EXTENDS Integers

CONSTANTS
  Versions,   \* numbers of boot resources of the versions ever served
  First,      \* the one of the version that is served first
  Budgets,    \* bound: how often the page is opened again, the system's theme
              \* changes, other tabs store something, the theme button is
              \* clicked, and calls fail
  Null

VARIABLES
  localStorage,    \* what is stored, by name
  prefersDark,     \* matchMedia('(prefers-color-scheme: dark)').matches
  left,            \* what is left of the budget
  renderer,        \* runtime that renders this visit's components, or "none"
                   \* when its start was given up
  resources,       \* boot resources of the version it was served
  hooks,           \* hooks Blazor has called
  totalResources, resourcesLoaded, percentage,
  loader,          \* the loading screen is displayed
  style,           \* the body has the inline style of the dark theme
  bootDark,        \* history: last answer of isDarkModeEnabled
  fullCount,       \* history: modulesNumber was last written at the end of a
                   \* WebAssembly visit of a version with that many; or 0
  exact            \* history: this visit has started from such a count

store == <<localStorage, fullCount>>
counters == <<totalResources, resourcesLoaded, percentage, exact>>
visit == <<renderer, resources>>
screen == <<store, prefersDark, visit, hooks, counters, loader, style, bootDark>>
pageVars == <<left, screen>>

Budget == [visits : Nat, changes : Nat, stores : Nat, clicks : Nat,
           failures : Nat]

(* A count of 1 is never believed (initializeResources).                    *)
ASSUME LoadingScreenAssumption ==
  /\ Versions \subseteq {n \in Nat : n > 1}
  /\ First \in Versions
  /\ Budgets \subseteq Budget
  /\ Null \notin Nat \cup {"True", "False"}

Runtimes == {"Server", "WebAssembly"}

Hooks == {"beforeServerStart", "beforeWebAssemblyStart",
          "afterServerStarted", "afterWebAssemblyStarted"}

(* A stored number is the decimal text that setItem makes of it and that    *)
(* comparison and division read again.                                      *)
Stored == [IsDarkTheme : {Null, "True", "False"}, modulesNumber : {Null} \cup Nat]

PageTypeOK ==
  /\ localStorage \in Stored
  /\ prefersDark \in BOOLEAN
  /\ left \in Budget
  /\ renderer \in Runtimes \cup {"none"}
  /\ resources \in Versions
  /\ hooks \subseteq Hooks
  /\ totalResources \in Nat \ {0}
  /\ resourcesLoaded \in 0..resources
  /\ percentage \in 0..100
  /\ loader \in BOOLEAN
  /\ style \in BOOLEAN
  /\ bootDark \in BOOLEAN
  /\ fullCount \in {0} \cup Versions
  /\ exact \in BOOLEAN

-----------------------------------------------------------------------------
(* localstorage.module.js and what both sides use it for *)

GetItem(item) == localStorage[item]

SetItem(item, value) == localStorage' = [localStorage EXCEPT ![item] = value]

RemoveItem(item) == localStorage' = [localStorage EXCEPT ![item] = Null]

-----------------------------------------------------------------------------
(* Opening the page *)

Spend(what) ==
  /\ left[what] > 0
  /\ left' = [left EXCEPT ![what] = @ - 1]

DefaultTotal == 200

(* The scripts of App.razor: the globals of blazor_extensions.js and        *)
(* blazor_loader.js.                                                        *)
FreshPage ==
  /\ renderer' \in Runtimes
  /\ resources' \in Versions
  /\ hooks' = {}
  /\ totalResources' = DefaultTotal
  /\ resourcesLoaded' = 0
  /\ percentage' = 0
  /\ loader' = TRUE
  /\ style' = FALSE
  /\ bootDark' = FALSE
  /\ exact' = FALSE

PageInit ==
  /\ localStorage = [IsDarkTheme |-> Null, modulesNumber |-> Null]
  /\ prefersDark \in BOOLEAN
  /\ left \in Budgets
  /\ renderer \in Runtimes
  /\ resources = First
  /\ hooks = {}
  /\ totalResources = DefaultTotal
  /\ resourcesLoaded = 0
  /\ percentage = 0
  /\ loader = TRUE
  /\ style = FALSE
  /\ bootDark = FALSE
  /\ fullCount = 0
  /\ exact = FALSE

(* The page is opened again, or reloaded at any moment.                     *)
OpenPage ==
  /\ Spend("visits")
  /\ FreshPage
  /\ UNCHANGED <<store, prefersDark>>

-----------------------------------------------------------------------------
(* blazor_loader.js: loadBootResource *)

(* Not cut off.                                                             *)
CurrentPercentageUncut(loaded, total) == {(loaded * 100) \div total}

(* Math.floor(loaded / total * 100), cut off at 100.  Where the quotient is *)
(* a whole percentage below 100, rounding in loaded / total can leave the   *)
(* product just short of it.                                                *)
CurrentPercentage(loaded, total) ==
  IF loaded >= total THEN {100}
  ELSE LET whole == (loaded * 100) \div total
       IN  IF loaded * 100 = whole * total /\ whole > 0
           THEN {whole, whole - 1} ELSE {whole}

Show(current) ==
  percentage' = IF current <= percentage THEN percentage ELSE current

(* dotnet.js comes before the hook of its runtime, everything else after.   *)
LoadBootResource ==
  /\ resourcesLoaded < resources
  /\ resourcesLoaded = 0 \/ "beforeWebAssemblyStart" \in hooks
  /\ resourcesLoaded' = resourcesLoaded + 1
  /\ \E current \in CurrentPercentage(resourcesLoaded', totalResources) :
       Show(current)
  /\ UNCHANGED <<left, store, prefersDark, visit, hooks, totalResources, exact,
                 loader, style, bootDark>>

-----------------------------------------------------------------------------
(* GreeACLocalServer.UI.lib.module.js *)

(* The texts that JSON would have for a theme.                              *)
IsDarkModeEnabledOfJson ==
  \/ GetItem("IsDarkTheme") = "true"
  \/ GetItem("IsDarkTheme") # "false" /\ prefersDark

IsDarkModeEnabled ==
  \/ GetItem("IsDarkTheme") = "True"
  \/ GetItem("IsDarkTheme") # "False" /\ prefersDark

InitializeResources ==
  LET count == GetItem("modulesNumber")
  IN  totalResources' = IF count = Null \/ count <= 1 THEN DefaultTotal ELSE count

(* The colours of the loading screen and of the body, whatever they were.   *)
ApplyDarkTheme == style' = TRUE

ApplyThemeInitialization ==
  /\ InitializeResources
  /\ IF IsDarkModeEnabled THEN ApplyDarkTheme ELSE UNCHANGED style
  /\ bootDark' = IsDarkModeEnabled
  /\ UNCHANGED <<left, store, prefersDark, visit, resourcesLoaded, percentage,
                 loader>>

(* One resource too many ...                                                *)
CompleteInitializationByOne(count) ==
  /\ loader' = FALSE
  /\ SetItem("modulesNumber", resourcesLoaded + 1)
  /\ fullCount' = count
  /\ UNCHANGED <<left, prefersDark, visit, counters, style, bootDark>>

(* ... and the count stored first, which may throw.                         *)
CompleteInitializationStoreFirst(count) ==
  /\ \/ /\ loader' = FALSE
        /\ SetItem("modulesNumber", resourcesLoaded)
        /\ fullCount' = count
        /\ UNCHANGED left
     \/ Spend("failures") /\ UNCHANGED <<loader, store>>
  /\ UNCHANGED <<prefersDark, visit, counters, style, bootDark>>

(* The screen goes first; a storage that is full or denied may refuse the   *)
(* count.                                                                   *)
CompleteInitialization(count) ==
  /\ loader' = FALSE
  /\ \/ /\ SetItem("modulesNumber", resourcesLoaded)
        /\ fullCount' = count
        /\ UNCHANGED left
     \/ Spend("failures") /\ UNCHANGED store
  /\ UNCHANGED <<prefersDark, visit, counters, style, bootDark>>

Call(hook) ==
  /\ hook \notin hooks
  /\ hooks' = hooks \cup {hook}

(* A storage that is denied throws at the first line of the hook, and       *)
(* Blazor gives up the start of that runtime.                               *)
GiveUp(runtime) ==
  /\ Spend("failures")
  /\ renderer' = IF renderer = runtime THEN "none" ELSE renderer
  /\ UNCHANGED <<store, prefersDark, resources, counters, loader, style, bootDark>>

BeforeServerStart ==
  /\ renderer = "Server"
  /\ Call("beforeServerStart")
  /\ \/ ApplyThemeInitialization /\ exact' = exact
     \/ GiveUp("Server")

BeforeWebAssemblyStart ==
  /\ Call("beforeWebAssemblyStart")
  /\ \/ /\ ApplyThemeInitialization
        /\ exact' = (renderer = "WebAssembly" /\ fullCount = resources)
     \/ GiveUp("WebAssembly")

(* The resources counted are those that happen to be loaded by then.        *)
AfterServerStarted ==
  /\ renderer = "Server"
  /\ "beforeServerStart" \in hooks
  /\ Call("afterServerStarted")
  /\ CompleteInitialization(0)

(* A runtime that was loaded in the background is not started.              *)
AfterWebAssemblyStarted ==
  /\ renderer = "WebAssembly"
  /\ "beforeWebAssemblyStart" \in hooks
  /\ resourcesLoaded = resources
  /\ Call("afterWebAssemblyStarted")
  /\ CompleteInitialization(resources)

-----------------------------------------------------------------------------
(* Outside the page *)

UnchangedPage ==
  UNCHANGED <<renderer, resources, hooks, counters, loader, style, bootDark>>

SystemThemeChanges ==
  /\ Spend("changes")
  /\ prefersDark' = ~prefersDark
  /\ UnchangedPage
  /\ UNCHANGED store

(* Another tab toggles its theme, or completes its own start, rendered by   *)
(* WebAssembly or by the server.                                            *)
OtherTabStores ==
  /\ Spend("stores")
  /\ \/ /\ \E value \in {"True", "False"} : SetItem("IsDarkTheme", value)
        /\ UNCHANGED fullCount
     \/ /\ RemoveItem("IsDarkTheme")
        /\ UNCHANGED fullCount
     \/ \E n \in Versions : SetItem("modulesNumber", n) /\ fullCount' = n
     \/ /\ \E n \in Versions : \E count \in 0..n : SetItem("modulesNumber", count)
        /\ fullCount' = 0
  /\ UnchangedPage
  /\ UNCHANGED prefersDark

-----------------------------------------------------------------------------
Hook ==
  \/ BeforeServerStart
  \/ BeforeWebAssemblyStart
  \/ AfterServerStarted
  \/ AfterWebAssemblyStarted

-----------------------------------------------------------------------------
(* Properties *)

(* After a WebAssembly visit that has stored its count, the next one of the *)
(* same version shows 100 % when its last resource is asked for, and not    *)
(* before.                                                                  *)
FullMeansComplete ==
  exact => (percentage = 100 <=> resourcesLoaded = resources)
=============================================================================
