--------------------------------- MODULE Tui ---------------------------------
(***************************************************************************)
(* The terminal interface: TuiApp and its key handlers                     *)
(* (crates/mge-cli/src/tui/app.rs) over AppService.                        *)
(*                                                                         *)
(* A handler runs to its end before the next key is read; one that calls   *)
(* the service is split where the call begins and returns, for the other   *)
(* processes' sake.  Up and Down reach every row of a screen and do        *)
(* nothing else, so Enter is taken on any row.  The text of the forms, the *)
(* results, the language and the messages are left out.                    *)
(***************************************************************************)
EXTENDS StoreAccess

CONSTANTS
    Tui,      \* the process
    TuiPass   \* the passphrase it was started with

ASSUME TuiAssumption == Tui \in Proc /\ TuiPass \in Pass \cup {NoPass}

Screens == {"setup", "dashboard", "recall", "add", "seal", "status", "export",
            "settings", "help"}

VARIABLE ui

\* The screen, the stack below it, the two confirmations, what the dashboard
\* holds of the store (NoMem without stats) and whether it may be stale, the
\* index kind chosen, and the handler whose call runs.
NewUi == [screen |-> "off", stack |-> <<>>, seal_confirm |-> FALSE,
          compact_confirm |-> FALSE, dash |-> NoMem, stale |-> FALSE,
          index_kind |-> "exact", handler |-> "none"]

ForgetConfirms(u) == [u EXCEPT !.seal_confirm = FALSE, !.compact_confirm = FALSE]

\* A mutant of Opened: the screen that is open is opened once more.
Opened_Piles(u, screen) ==
    ForgetConfirms([u EXCEPT !.screen = screen, !.stack = Append(@, u.screen)])

\* open_screen; its stack keeps the last 16 and never holds more than 3.
Opened(u, screen) ==
    ForgetConfirms([u EXCEPT !.screen = screen,
                             !.stack = IF u.screen = screen THEN @ ELSE Append(@, u.screen)])

\* go_back
WentBack(u) ==
    ForgetConfirms(
        IF u.stack # <<>>
        THEN [u EXCEPT !.screen = u.stack[Len(u.stack)], !.stack = SubSeq(@, 1, Len(@) - 1)]
        ELSE [u EXCEPT !.screen = "dashboard"])

-----------------------------------------------------------------------------
(* Handlers.                                                               *)

On(screen) == ui.screen = screen /\ IsIdle(Tui)

Becomes(u) == ui' = u /\ UNCHANGED access

\* The call a handler makes, and the handler to go on with it.
CallFor(handler, name, enc, u) ==
    /\ ui' = [u EXCEPT !.handler = handler]
    /\ Begin(Tui, Call(name, enc, TuiPass))

\* refresh_dashboard: doctor(false) reads without the lock, stats opens the
\* store.
Refreshing(u, then) == CallFor(then, "stats", FALSE, u)

\* doctor_report looks at the files and opens an engine to validate the store.
DeepDoctor == CallFor("doctor", "use", FALSE, ui)

\* TuiApp::new
Launch ==
    /\ On("off")
    /\ Refreshing([NewUi EXCEPT !.screen = IF store.made THEN "dashboard" ELSE "setup"], "new")

Quit == (On("setup") \/ On("dashboard")) /\ Becomes(NewUi)

\* F2
HelpKey == ui.screen # "off" /\ IsIdle(Tui) /\ Becomes(Opened(ui, "help"))

\* Esc, and Enter on the help screen.
EscKey == ui.screen \notin {"off", "dashboard"} /\ IsIdle(Tui) /\ Becomes(WentBack(ui))

SetupKey ==
    /\ On("setup")
    /\ \/ \E enc \in BOOLEAN : CallFor("setup", "setup", enc, ui)
       \/ DeepDoctor
       \/ Becomes(Opened(ui, "dashboard"))

DashboardKey ==
    /\ On("dashboard")
    /\ \E s \in Screens \ {"setup", "dashboard"} : Becomes(Opened(ui, s))

RecallKey == On("recall") /\ CallFor("recall", "use", FALSE, ui)

AddMemoryKey == On("add") /\ CallFor("save", "remember", FALSE, ui)

SealKey ==
    /\ On("seal")
    /\ \/ CallFor("report", "use", FALSE, ui)
       \/ IF ui.seal_confirm
          THEN CallFor("report", "use", FALSE, [ui EXCEPT !.seal_confirm = FALSE])
          ELSE Becomes([ui EXCEPT !.seal_confirm = TRUE])

\* Refresh; deep doctor, validate and rebuild-indexes; the dry run of compact,
\* and compact.
StatusKey ==
    /\ On("status")
    /\ \/ Refreshing(ui, "refresh")
       \/ DeepDoctor
       \/ \E h \in {"doctor", "report"} : CallFor(h, "use", FALSE, ui)
       \/ IF ui.compact_confirm
          THEN CallFor("report", "use", FALSE, [ui EXCEPT !.compact_confirm = FALSE])
          ELSE Becomes([ui EXCEPT !.compact_confirm = TRUE])

ExportKey ==
    /\ On("export")
    /\ \/ CallFor("doctor", "use", FALSE, ui)
       \/ CallFor("save", "import", FALSE, ui)

SettingsKey ==
    /\ On("settings")
    /\ \/ \E k \in Kinds \ {ui.index_kind} : Becomes([ui EXCEPT !.index_kind = k])
       \/ CallFor("report", ui.index_kind, FALSE, ui)

-----------------------------------------------------------------------------
(* A call returns to its handler.                                          *)

\* The dashboard after stats; without stats the index kind stays chosen.
Refreshed(u) ==
    IF At(Tui, "ok")
    THEN [u EXCEPT !.dash = calls[Tui].mem, !.index_kind = calls[Tui].mem.kind]
    ELSE [u EXCEPT !.dash = NoMem]

\* A mutant of Refreshes: saving a memory does not refresh.
Refreshes_NotSave(handler) == handler \in {"setup", "report"}

\* The handlers that call refresh_dashboard when their call was successful.
Refreshes(handler) == handler \in {"setup", "save", "report"}

\* run_setup opens the dashboard when it is refreshed.
AfterRefresh(u) == IF u.handler = "setup done" THEN Opened(u, "dashboard") ELSE u

HandlerOver(u) == ui' = [u EXCEPT !.handler = "none"] /\ Done(Tui)

Return ==
    /\ Returned(Tui)
    /\ CASE calls[Tui].name = "stats" -> HandlerOver(AfterRefresh(Refreshed(ui)))
         [] Refreshes(ui.handler) /\ At(Tui, "ok") ->
               /\ ui' = [ui EXCEPT !.handler = IF @ = "setup" THEN "setup done" ELSE "refresh"]
               /\ calls' = [calls EXCEPT ![Tui] =
                              [Call("stats", FALSE, TuiPass) EXCEPT !.step = "check"]]
               /\ UNCHANGED <<store, lock, written, acked>>
         [] OTHER -> HandlerOver(ui)

TuiDies == ui.screen # "off" /\ ui' = NewUi /\ Die(Tui)

Key ==
    \/ Launch \/ Quit \/ HelpKey \/ EscKey \/ SetupKey \/ DashboardKey \/ RecallKey
    \/ AddMemoryKey \/ SealKey \/ StatusKey \/ ExportKey \/ SettingsKey

\* A dashboard is fresh from the read of its stats to a change of the store by
\* another process, or by a call that fails; its own successful calls refresh.
TuiStep ==
    /\ Step(Tui)
    /\ ui' = [ui EXCEPT !.stale =
                 (@ \/ (store' # store /\ calls'[Tui].step = "failed"))
                 /\ ~(calls[Tui].name = "stats" /\ calls'[Tui].step = "ok")]

SeesChange == ui' = IF store' # store /\ ui.screen # "off" THEN [ui EXCEPT !.stale = TRUE] ELSE ui

UiTypeOK ==
    /\ ui.screen \in Screens \cup {"off"} /\ ui.stack \in Seq(Screens) /\ Len(ui.stack) <= 3

\* What the screen says holds: the dashboard shows the store as it is, unless
\* another process, or a call of its own that failed, changed it after it was
\* read, and Enter is taken as a confirmation only on the screen that asked for
\* it.
ScreenHonest ==
    /\ (ui.handler = "none" /\ ui.dash # NoMem /\ ~ui.stale) =>
            ui.dash = [next |-> store.next, kind |-> store.kind]
    /\ ui.seal_confirm => ui.screen = "seal"
    /\ ui.compact_confirm => ui.screen = "status"

=============================================================================
