---------------------------- MODULE ThemeService ----------------------------
(***************************************************************************)
(* The theme of a page: ThemeService and LocalStorageService as MainLayout  *)
(* uses them, over the page and the local storage of LoadingScreen.         *)
(*                                                                         *)
(* The service runs on the server or in WebAssembly, the storage and the    *)
(* system's theme are the browser's.  Calls travel to the browser, answers  *)
(* and reports of the system's theme travel back, each way in order; the    *)
(* import of a module is answered when it has been fetched.  Between a call *)
(* and its answer anything else may run.                                    *)
(***************************************************************************)
EXTENDS LoadingScreen, Sequences

VARIABLES
  phase,         \* what Init waits for
  isDarkMode,    \* _isDarkMode
  isAutoMode,    \* _isAutoMode
  rendered,      \* the theme MudThemeProvider was last rendered with
  moduleReady,   \* LocalStorageService._isInitialized
  calls,         \* on their way to the browser
  imports,       \* imports of the storage's module that are being fetched
  answers,       \* on their way to the service
  watching,      \* the browser reports changes of the system's theme
  unseen,        \* history: the system's theme has changed after Init had
                 \* read it and before the watch
  disturbed,     \* history: a toggle has overlapped Init, or a call has failed
  overwritten,   \* history: another tab has changed the stored theme since
                 \* this page last read or changed it
  steady         \* history: nothing has changed the theme since the page opened

service == <<phase, isDarkMode, isAutoMode, rendered, moduleReady>>
wire == <<calls, imports, answers, watching>>
history == <<unseen, disturbed, overwritten, steady>>
themeVars == <<service, wire, history>>
vars == <<pageVars, themeVars>>

Text == {Null, "True", "False"}

(* A call of Init or of a toggle, or (import) the import LocalStorageService *)
(* makes first; in an answer, value is the result.  Booleans travel as text *)
(* here.                                                                    *)
Message == [op : {"getItem", "setItem", "removeItem", "system", "watch",
                  "removeLoadingStyle", "report"},
            by : {"init", "toggle", "browser"},
            import : BOOLEAN,
            value : Text \cup {"error"}]

TypeOK ==
  /\ PageTypeOK
  /\ phase \in {"none", "import", "get", "system", "watch", "style", "done",
                "failed"}
  /\ isDarkMode \in BOOLEAN
  /\ isAutoMode \in BOOLEAN
  /\ rendered \in BOOLEAN
  /\ moduleReady \in BOOLEAN
  /\ calls \in Seq(Message)
  /\ imports \in Seq(Message)
  /\ answers \in Seq(Message)
  /\ watching \in BOOLEAN
  /\ unseen \in BOOLEAN
  /\ disturbed \in BOOLEAN
  /\ overwritten \in BOOLEAN
  /\ steady \in BOOLEAN

-----------------------------------------------------------------------------
(* Conversions of LocalStorageService, Set<bool> and Get<bool?>             *)

(* What JSON would make of it: a text that the hooks do not know.           *)
ToLowerText(dark) == IF dark THEN "true" ELSE "false"

ToText(dark) == IF dark THEN "True" ELSE "False"

Parse(text) == text = "True"

-----------------------------------------------------------------------------
(* Calls *)

Send(op, who, value) ==
  calls' = Append(calls, [op |-> op, by |-> who, import |-> FALSE,
                          value |-> value])

(* LocalStorageService: every operation imports the module first, unless an *)
(* import has been answered.                                                *)
Storage(op, who, value) ==
  calls' = Append(calls, [op |-> op, by |-> who, import |-> ~moduleReady,
                          value |-> value])

Nothing == calls = <<>> /\ imports = <<>> /\ answers = <<>>

(* An exception nobody catches: the circuit is gone, or the service is      *)
(* never initialised.                                                       *)
Fail ==
  /\ phase' = "failed"
  /\ calls' = <<>>
  /\ imports' = <<>>
  /\ answers' = <<>>
  /\ watching' = FALSE
  /\ UNCHANGED <<isDarkMode, isAutoMode, rendered, moduleReady>>

-----------------------------------------------------------------------------
(* MainLayout and ThemeService.Init *)

FreshService ==
  /\ phase' = "none"
  /\ isDarkMode' = FALSE
  /\ isAutoMode' = TRUE
  /\ rendered' = FALSE
  /\ moduleReady' = FALSE
  /\ calls' = <<>>
  /\ imports' = <<>>
  /\ answers' = <<>>
  /\ watching' = FALSE
  /\ unseen' = FALSE
  /\ disturbed' = FALSE
  /\ overwritten' = FALSE
  /\ steady' = TRUE

Init ==
  /\ PageInit
  /\ phase = "none"
  /\ isDarkMode = FALSE
  /\ isAutoMode = TRUE
  /\ rendered = FALSE
  /\ moduleReady = FALSE
  /\ calls = <<>>
  /\ imports = <<>>
  /\ answers = <<>>
  /\ watching = FALSE
  /\ unseen = FALSE
  /\ disturbed = FALSE
  /\ overwritten = FALSE
  /\ steady = TRUE

(* A new page has a new service; what was on its way is lost.               *)
Open ==
  /\ OpenPage
  /\ FreshService

RuntimeRuns ==
  CASE renderer = "Server" -> "beforeServerStart" \in hooks
    [] renderer = "WebAssembly" -> /\ "beforeWebAssemblyStart" \in hooks
                                   /\ resourcesLoaded = resources
    [] renderer = "none" -> FALSE

(* The first OnAfterRenderAsync: Init begins to import its module.          *)
FirstRender ==
  /\ phase = "none"
  /\ RuntimeRuns
  /\ phase' = "import"
  /\ UNCHANGED <<pageVars, isDarkMode, isAutoMode, rendered, moduleReady, wire,
                 history>>

(* Without the module OnAfterRenderAsync throws.                            *)
ThemeModuleFails ==
  /\ phase = "import"
  /\ Spend("failures")
  /\ Fail
  /\ UNCHANGED <<screen, history>>

InitTheme ==
  /\ phase = "import"
  /\ phase' = "get"
  /\ Storage("getItem", "init", Null)
  /\ UNCHANGED <<pageVars, isDarkMode, isAutoMode, rendered, moduleReady,
                 imports, answers, watching, history>>

(* The next answer, if it is the one to op of that caller.                  *)
Receive(op, who) ==
  /\ answers # <<>>
  /\ Head(answers).op = op
  /\ Head(answers).by = who
  /\ ~Head(answers).import
  /\ Head(answers).value # "error"
  /\ answers' = Tail(answers)

Received == Head(answers).value

(* The last step of InitTheme: the stored theme is used ...                 *)
UseSaved ==
  /\ Receive("getItem", "init")
  /\ Received # Null
  /\ isAutoMode' = FALSE
  /\ isDarkMode' = Parse(Received)
  /\ rendered' = isDarkMode'
  /\ phase' = "style"
  /\ Send("removeLoadingStyle", "init", Null)
  /\ UNCHANGED <<pageVars, moduleReady, imports, watching, history>>

(* ... or there is none, and the system's is asked for ...                  *)
AskSystem ==
  /\ Receive("getItem", "init")
  /\ Received = Null
  /\ phase' = "system"
  /\ Send("system", "init", Null)
  /\ UNCHANGED <<pageVars, isDarkMode, isAutoMode, rendered, moduleReady,
                 imports, watching, history>>

(* Without the await of the watch Init goes on before its answer.           *)
WatchUnawaited ==
  /\ Receive("system", "init")
  /\ isDarkMode' = Parse(Received)
  /\ rendered' = isDarkMode'
  /\ phase' = "style"
  /\ calls' = calls \o [i \in 1..2 |->
       [op |-> IF i = 1 THEN "watch" ELSE "removeLoadingStyle",
        by |-> "init", import |-> FALSE, value |-> Null]]
  /\ UNCHANGED <<pageVars, isAutoMode, moduleReady, imports, watching, history>>

(* ... taken over, and watched from now on.                                 *)
Watch ==
  /\ Receive("system", "init")
  /\ isDarkMode' = Parse(Received)
  /\ phase' = "watch"
  /\ Send("watch", "init", Null)
  /\ UNCHANGED <<pageVars, isAutoMode, rendered, moduleReady, imports,
                 watching, history>>

Watched ==
  /\ Receive("watch", "init")
  /\ rendered' = isDarkMode
  /\ phase' = "style"
  /\ Send("removeLoadingStyle", "init", Null)
  /\ UNCHANGED <<pageVars, isDarkMode, isAutoMode, moduleReady, imports,
                 watching, history>>

Failed(who) ==
  /\ answers # <<>>
  /\ Head(answers).by = who
  /\ Head(answers).value = "error"

(* Without the catch Init ends here and the loading style stays.            *)
InitThemeThrows ==
  /\ Failed("init")
  /\ answers' = Tail(answers)
  /\ disturbed' = TRUE
  /\ steady' = FALSE
  /\ UNCHANGED <<pageVars, service, calls, imports, watching, unseen,
                 overwritten>>

(* Whatever fails in InitTheme is caught; the page is light.                *)
InitThemeFails ==
  /\ Failed("init")
  /\ answers' = Tail(answers)
  /\ isDarkMode' = FALSE
  /\ phase' = "style"
  /\ Send("removeLoadingStyle", "init", Null)
  /\ disturbed' = TRUE
  /\ steady' = FALSE
  /\ UNCHANGED <<pageVars, isAutoMode, rendered, moduleReady, imports,
                 watching, unseen, overwritten>>

InitEnds ==
  /\ Receive("removeLoadingStyle", "init")
  /\ phase' = "done"
  /\ UNCHANGED <<pageVars, isDarkMode, isAutoMode, rendered, moduleReady,
                 calls, imports, watching, history>>

-----------------------------------------------------------------------------
(* ThemeService.ToggleTheme, OnSystemThemeChanged *)

Click ==
  /\ phase # "none"
  /\ Spend("clicks")
  /\ UNCHANGED screen

(* The button is there before Init has set _mudThemeProvider: a null        *)
(* reference, which ends a circuit and which WebAssembly survives.          *)
ToggleTooEarly ==
  /\ Click
  /\ phase = "import"
  /\ IF renderer = "Server" THEN Fail ELSE UNCHANGED <<service, wire>>
  /\ UNCHANGED history

ToggleTheme ==
  /\ Click
  /\ phase \notin {"import", "failed"}
  /\ Send("system", "toggle", Null)
  /\ disturbed' = (disturbed \/ phase \in {"get", "system", "watch"})
  /\ steady' = FALSE
  /\ UNCHANGED <<service, imports, answers, watching, unseen,
                 overwritten>>

(* Auto mode: the other theme than the system's, from now on.               *)
LeaveAuto ==
  /\ Receive("system", "toggle")
  /\ isAutoMode
  /\ isAutoMode' = FALSE
  /\ isDarkMode' = ~Parse(Received)
  /\ Storage("setItem", "toggle", ToText(isDarkMode'))
  /\ UNCHANGED <<pageVars, phase, rendered, moduleReady, imports, watching,
                 history>>

(* Without the comparison, and with the stored theme left behind.           *)
EnterAutoAlways ==
  /\ Receive("system", "toggle")
  /\ ~isAutoMode
  /\ isAutoMode' = TRUE
  /\ Storage("removeItem", "toggle", Null)
  /\ UNCHANGED <<pageVars, phase, isDarkMode, rendered, moduleReady, imports,
                 watching, history>>

EnterAutoKeepsStored ==
  /\ Receive("system", "toggle")
  /\ ~isAutoMode
  /\ isDarkMode = Parse(Received)
  /\ isAutoMode' = TRUE
  /\ Storage("setItem", "toggle", ToText(isDarkMode))
  /\ UNCHANGED <<pageVars, phase, isDarkMode, rendered, moduleReady, imports,
                 watching, history>>

(* The chosen theme is the system's: auto mode again.                       *)
EnterAuto ==
  /\ Receive("system", "toggle")
  /\ ~isAutoMode
  /\ isDarkMode = Parse(Received)
  /\ isAutoMode' = TRUE
  /\ Storage("removeItem", "toggle", Null)
  /\ UNCHANGED <<pageVars, phase, isDarkMode, rendered, moduleReady, imports,
                 watching, history>>

Flip ==
  /\ Receive("system", "toggle")
  /\ ~isAutoMode
  /\ isDarkMode # Parse(Received)
  /\ isDarkMode' = ~isDarkMode
  /\ Storage("setItem", "toggle", ToText(isDarkMode'))
  /\ UNCHANGED <<pageVars, phase, isAutoMode, rendered, moduleReady, imports,
                 watching, history>>

(* The click has been handled, and the layout is rendered.                  *)
ToggleEnds ==
  /\ Receive("setItem", "toggle") \/ Receive("removeItem", "toggle")
  /\ rendered' = isDarkMode
  /\ UNCHANGED <<pageVars, phase, isDarkMode, isAutoMode, moduleReady, calls,
                 imports, watching, history>>

(* Nobody catches it.                                                       *)
ToggleFails ==
  /\ Failed("toggle")
  /\ IF renderer = "Server" THEN Fail
     ELSE /\ answers' = Tail(answers)
          /\ UNCHANGED <<service, calls, imports, watching>>
  /\ disturbed' = TRUE
  /\ UNCHANGED <<pageVars, unseen, overwritten, steady>>

(* Without the callback nothing is drawn.                                   *)
OnSystemThemeChangedSilently ==
  /\ Receive("report", "browser")
  /\ isDarkMode' = IF isAutoMode THEN Parse(Received) ELSE isDarkMode
  /\ UNCHANGED <<pageVars, phase, isAutoMode, rendered, moduleReady, calls,
                 imports, watching, history>>

OnSystemThemeChanged ==
  /\ Receive("report", "browser")
  /\ isDarkMode' = IF isAutoMode THEN Parse(Received) ELSE isDarkMode
  /\ rendered' = IF isAutoMode THEN isDarkMode' ELSE rendered
  /\ UNCHANGED <<pageVars, phase, isAutoMode, moduleReady, calls, imports,
                 watching, history>>

(* LocalStorageService: the module has come, now the operation itself.      *)
StorageModuleImported ==
  /\ answers # <<>>
  /\ LET answer == Head(answers)
     IN  /\ answer.import
         /\ answer.value # "error"
         /\ moduleReady' = TRUE
         /\ Send(answer.op, answer.by, answer.value)
  /\ answers' = Tail(answers)
  /\ UNCHANGED <<pageVars, phase, isDarkMode, isAutoMode, rendered, imports,
                 watching, history>>

-----------------------------------------------------------------------------
(* The browser *)

(* The next call, if it is this one.                                        *)
Run(op) ==
  /\ calls # <<>>
  /\ Head(calls).op = op
  /\ ~Head(calls).import
  /\ calls' = Tail(calls)

Called == Head(calls)

Reply(message, value) ==
  answers' = Append(answers, [message EXCEPT !.value = value])

UnchangedService == UNCHANGED <<service, unseen, disturbed>>

StartImport ==
  /\ calls # <<>>
  /\ Called.import
  /\ calls' = Tail(calls)
  /\ imports' = Append(imports, Called)
  /\ UNCHANGED <<pageVars, answers, watching, overwritten, steady>>
  /\ UnchangedService

FinishImport ==
  /\ imports # <<>>
  /\ imports' = Tail(imports)
  /\ answers' = Append(answers, Head(imports))
  /\ UNCHANGED <<pageVars, calls, watching, overwritten, steady>>
  /\ UnchangedService

ImportFails ==
  /\ imports # <<>>
  /\ Spend("failures")
  /\ imports' = Tail(imports)
  /\ Reply(Head(imports), "error")
  /\ UNCHANGED <<screen, calls, watching, overwritten, steady>>
  /\ UnchangedService

RunGetItem ==
  /\ Run("getItem")
  /\ Reply(Called, GetItem("IsDarkTheme"))
  /\ overwritten' = FALSE
  /\ UNCHANGED <<pageVars, imports, watching, steady>>
  /\ UnchangedService

UnchangedPageButStorage ==
  UNCHANGED <<left, fullCount, prefersDark, visit, hooks, counters, loader,
              style, bootDark>>

RunSetItem ==
  /\ Run("setItem")
  /\ SetItem("IsDarkTheme", Called.value)
  /\ Reply(Called, Null)
  /\ overwritten' = FALSE
  /\ UNCHANGED <<imports, watching, steady>>
  /\ UnchangedPageButStorage
  /\ UnchangedService

RunRemoveItem ==
  /\ Run("removeItem")
  /\ RemoveItem("IsDarkTheme")
  /\ Reply(Called, Null)
  /\ overwritten' = FALSE
  /\ UNCHANGED <<imports, watching, steady>>
  /\ UnchangedPageButStorage
  /\ UnchangedService

RunGetSystemDarkMode ==
  /\ Run("system")
  /\ Reply(Called, ToText(prefersDark))
  /\ UNCHANGED <<pageVars, imports, watching, overwritten, steady>>
  /\ UnchangedService

RunWatchSystemDarkMode ==
  /\ Run("watch")
  /\ watching' = TRUE
  /\ Reply(Called, Null)
  /\ UNCHANGED <<pageVars, imports, overwritten, steady>>
  /\ UnchangedService

(* themeservice.module.js                                                   *)
RemoveLoadingStyle ==
  /\ Run("removeLoadingStyle")
  /\ style' = FALSE
  /\ Reply(Called, Null)
  /\ UNCHANGED <<left, store, prefersDark, visit, hooks, counters, loader,
                 bootDark, imports, watching, overwritten, steady>>
  /\ UnchangedService

(* Storage that is denied or full, a browser without matchMedia.            *)
CallFails ==
  /\ calls # <<>>
  /\ Spend("failures")
  /\ ~Called.import
  /\ Called.op # "removeLoadingStyle"
  /\ calls' = Tail(calls)
  /\ Reply(Called, "error")
  /\ UNCHANGED <<screen, imports, watching, overwritten, steady>>
  /\ UnchangedService

SystemChanges ==
  /\ SystemThemeChanges
  /\ answers' = IF watching
       THEN Append(answers, [op |-> "report", by |-> "browser",
                             import |-> FALSE, value |-> ToText(prefersDark')])
       ELSE answers
  /\ unseen' = (unseen \/ (~watching /\
       \/ phase = "watch"
       \/ \E i \in DOMAIN answers :
            answers[i].op = "system" /\ answers[i].by = "init"))
  /\ steady' = FALSE
  /\ UNCHANGED <<service, calls, imports, watching, disturbed,
                 overwritten>>

OtherTab ==
  /\ OtherTabStores
  /\ overwritten' = (overwritten
       \/ localStorage'.IsDarkTheme # localStorage.IsDarkTheme)
  /\ steady' = (steady /\ localStorage'.IsDarkTheme = localStorage.IsDarkTheme)
  /\ UNCHANGED <<service, wire, unseen, disturbed>>

-----------------------------------------------------------------------------
Boot == (Hook \/ LoadBootResource) /\ UNCHANGED themeVars

Service ==
  \/ ThemeModuleFails \/ InitTheme
  \/ UseSaved \/ AskSystem \/ Watch \/ Watched \/ InitThemeFails \/ InitEnds
  \/ LeaveAuto \/ EnterAuto \/ Flip \/ ToggleEnds \/ ToggleFails
  \/ OnSystemThemeChanged \/ StorageModuleImported

Browser ==
  \/ StartImport \/ FinishImport \/ ImportFails
  \/ RunGetItem \/ RunSetItem \/ RunRemoveItem
  \/ RunGetSystemDarkMode \/ RunWatchSystemDarkMode \/ RemoveLoadingStyle
  \/ CallFails

User == Open \/ ToggleTooEarly \/ ToggleTheme

Next ==
  \/ Boot
  \/ FirstRender
  \/ Service
  \/ Browser
  \/ User
  \/ SystemChanges
  \/ OtherTab

Spec == Init /\ [][Next]_vars

(* Blazor starts, calls are run and answers are handled; nobody has to      *)
(* click, to change a preference or to open a page.  All of this comes to   *)
(* an end of itself, so it is enough that it does not stop before.          *)
Progress == Boot \/ FirstRender \/ Service \/ Browser

Fairness == WF_vars(Progress)

FairSpec == Spec /\ Fairness

-----------------------------------------------------------------------------
(* Safety *)

Settled == phase = "done" /\ Nothing

(* The hooks, which draw the loading screen before any component runs, and  *)
(* ThemeService decide for the same theme: if nothing has changed since,    *)
(* a page that is through with its start has the theme it was loaded in.    *)
BootThemeIsAppTheme ==
  phase = "done" /\ steady => isDarkMode = bootDark

(* What is stored is what the page is in, however its toggles overlapped:   *)
(* reloading it changes nothing.                                            *)
StoredThemeAgrees ==
  Settled /\ ~disturbed /\ ~overwritten =>
    GetItem("IsDarkTheme") = IF isAutoMode THEN Null ELSE ToText(isDarkMode)

(* A page that watches the system's theme and is in auto mode has it, also  *)
(* when the theme changed while a toggle was entering or leaving that mode. *)
WatchingPageFollows ==
  Settled /\ watching /\ isAutoMode /\ ~unseen /\ ~disturbed =>
    isDarkMode = prefersDark

(* Reloading a page at rest would bring its theme back: what ThemeService   *)
(* has written, over overlapping toggles, is what the hooks make of it.  In *)
(* auto mode the page must have followed the system's theme.                *)
ReloadKeepsTheme ==
  /\ Settled /\ ~disturbed /\ ~overwritten
  /\ isAutoMode => watching /\ ~unseen
  => IsDarkModeEnabled = isDarkMode

(* A page at rest is drawn in the theme it is in, and the inline style of   *)
(* the loading screen does not lie over it (on a page the server renders    *)
(* the hook of the other runtime may put it back).                          *)
SettledPageShowsItsTheme ==
  Settled /\ ~disturbed =>
    /\ rendered = isDarkMode
    /\ renderer = "WebAssembly" => ~style

(* The answer Init waits for is owed to it, once: whatever toggles, imports *)
(* and failures do, there is one message of Init under way while it waits,  *)
(* about what it waits for, and none when it does not.                      *)
Awaited ==
  [get |-> "getItem", system |-> "system", watch |-> "watch",
   style |-> "removeLoadingStyle"]

OwesNothing(queue) == \A i \in DOMAIN queue : queue[i].by # "init"

Owes(queue, op) ==
  \E i \in DOMAIN queue :
    /\ queue[i].by = "init" /\ queue[i].op = op
    /\ \A j \in DOMAIN queue \ {i} : queue[j].by # "init"

InitIsOwedItsAnswer ==
  IF phase \in DOMAIN Awaited
  THEN LET op == Awaited[phase]
       IN  \/ Owes(calls, op) /\ OwesNothing(imports) /\ OwesNothing(answers)
           \/ OwesNothing(calls) /\ Owes(imports, op) /\ OwesNothing(answers)
           \/ OwesNothing(calls) /\ OwesNothing(imports) /\ Owes(answers, op)
  ELSE OwesNothing(calls) /\ OwesNothing(imports) /\ OwesNothing(answers)

-----------------------------------------------------------------------------
(* Liveness *)

(* The loading screen goes away, whichever runtime comes first and even if  *)
(* the storage refuses the count, unless Blazor has given up the start.     *)
LoaderGoesAway == loader ~> (~loader \/ renderer = "none")

(* Init comes to its end even if a call fails: the loading style is taken   *)
(* off.                                                                     *)
InitCompletes == phase = "get" ~> phase \notin {"get", "system", "watch", "style"}

=============================================================================
