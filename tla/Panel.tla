------------------------------- MODULE Panel -------------------------------
(***************************************************************************)
(* Panel.qml and BarWidget.qml: each bar has a widget, whose panel chooses  *)
(* the source and launches it.  All panels share the one service, so each   *)
(* must follow the choices of the others and of the command line.           *)
(*                                                                          *)
(* There is one bar per screen, and a panel is named by its bar's screen,   *)
(* which is also its pendingScreenName.  The state of a panel:              *)
(*   opened, cursorIndex    as in the source                                *)
(*   popupOpen              is the popup of languageDropdown open?          *)
(*   hacker                 has the panel the service?                      *)
(*   dropdownValue, bound   languageDropdown.value, and whether its binding *)
(*                          is still in place: an assignment removes it     *)
(*   launchDelay            is the timer running?                           *)
(*   missed                 history: did the selection pass by a panel that *)
(*                          had lost both the service and the binding, and  *)
(*                          has it not heard of another since?              *)
(***************************************************************************)
EXTENDS SourceService

CONSTANT Losers      \* the panels that may lose the service again

ASSUME LosersAssumption == Losers \subseteq ScreenNames

VARIABLE panel

panelVars == <<serviceVars, panel>>

launchIndex == 1

PanelStates ==
  [opened : BOOLEAN, cursorIndex : 0..launchIndex, popupOpen : BOOLEAN,
   hacker : BOOLEAN, dropdownValue : SourceIds \cup {None}, bound : BOOLEAN,
   launchDelay : BOOLEAN, missed : BOOLEAN]

FreshPanel ==
  [opened |-> FALSE, cursorIndex |-> 0, popupOpen |-> FALSE, hacker |-> FALSE,
   dropdownValue |-> None, bound |-> TRUE, launchDelay |-> FALSE,
   missed |-> FALSE]

PanelInit ==
  /\ ServiceInit
  /\ panel = [s \in ScreenNames |-> FreshPanel]

\* Faulty: the binding is trusted to tell the dropdown.
Notified_ByBinding(panels) ==
  [s \in ScreenNames |->
     IF panels[s].hacker /\ panels[s].bound
     THEN [panels[s] EXCEPT !.dropdownValue = selectedSourceId']
     ELSE panels[s]]

\* onSelectedSourceIdChanged, in every panel that has the service; another one
\* hears nothing, which does no harm while its binding is in place.
Notified(panels) ==
  IF selectedSourceId' = selectedSourceId THEN panels ELSE
  [s \in ScreenNames |->
     IF panels[s].hacker
     THEN [panels[s] EXCEPT !.dropdownValue = selectedSourceId',
                            !.bound = FALSE, !.missed = FALSE]
     ELSE [panels[s] EXCEPT !.missed = @ \/ ~panels[s].bound]]

-----------------------------------------------------------------------------
(* The widget: injection of the service, and the icon in the bar *)

\* serviceFor gives the widget the service or null, and the widget passes it on
\* each time it changes.  The binding of the dropdown follows if it is still in
\* place; otherwise the dropdown keeps what it shows.
InjectHacker(s) ==
  /\ panel[s].hacker => s \in Losers
  /\ panel' = [panel EXCEPT
       ![s].hacker = ~@,
       ![s].dropdownValue =
          IF ~panel[s].bound THEN @
          ELSE IF panel[s].hacker THEN None ELSE selectedSourceId]
  /\ UNCHANGED serviceVars

Shut(p) == [p EXCEPT !.opened = FALSE, !.popupOpen = FALSE]

TogglePanel(s) ==
  /\ panel' = [panel EXCEPT ![s] =
       IF @.opened THEN Shut(@)
                   ELSE [@ EXCEPT !.opened = TRUE, !.cursorIndex = 0]]
  /\ UNCHANGED serviceVars

ClosePanel(s) ==
  /\ panel[s].opened
  /\ panel' = [panel EXCEPT ![s] = Shut(@)]
  /\ UNCHANGED serviceVars

-----------------------------------------------------------------------------
(* Keys and mouse in the panel; the popup keeps the keys to itself *)

KeysReachPanel(s) == panel[s].opened /\ ~panel[s].popupOpen

\* Faulty: the cursor leaves the panel.
MoveCursor_Unclamped(s, delta) ==
  /\ KeysReachPanel(s)
  /\ panel' = [panel EXCEPT ![s].cursorIndex = @ + delta]
  /\ UNCHANGED serviceVars

MoveCursor(s, delta) ==
  /\ KeysReachPanel(s)
  /\ panel' = [panel EXCEPT ![s].cursorIndex = Clamp(@ + delta, 0, launchIndex)]
  /\ UNCHANGED serviceVars

Hover(s) ==
  /\ panel[s].opened
  /\ panel' = [panel EXCEPT ![s].cursorIndex = 0]
  /\ UNCHANGED serviceVars

\* A launch needs a text, closes the panel and starts the delay, anew if it is
\* running.
LaunchSelected(s) ==
  IF panel[s].hacker /\ sourceText # None
  THEN [Shut(panel[s]) EXCEPT !.cursorIndex = launchIndex, !.launchDelay = TRUE]
  ELSE [panel[s] EXCEPT !.cursorIndex = launchIndex]

ActivateLaunch(s) ==
  /\ KeysReachPanel(s)
  /\ panel[s].hacker
  /\ panel[s].cursorIndex = launchIndex
  /\ panel' = [panel EXCEPT ![s] = LaunchSelected(s)]
  /\ UNCHANGED serviceVars

ActivateDropdown(s) ==
  /\ KeysReachPanel(s)
  /\ panel[s].hacker
  /\ panel[s].cursorIndex # launchIndex
  /\ panel' = [panel EXCEPT ![s].popupOpen = TRUE]
  /\ UNCHANGED serviceVars

ClickLaunch(s) ==
  /\ panel[s].opened
  /\ panel[s].hacker /\ sourceText # None
  /\ panel' = [panel EXCEPT ![s] = LaunchSelected(s)]
  /\ UNCHANGED serviceVars

ClosePopup(s) ==
  /\ panel[s].popupOpen
  /\ panel' = [panel EXCEPT ![s].popupOpen = FALSE]
  /\ UNCHANGED serviceVars

\* The dropdown shows the choice itself before it reports the change; it has
\* the options of the service.
PickLanguage(s, id) ==
  /\ panel[s].popupOpen /\ panel[s].hacker
  /\ SelectSource(id)
  /\ panel' = Notified([panel EXCEPT ![s].dropdownValue = id,
                                     ![s].bound = FALSE,
                                     ![s].popupOpen = FALSE,
                                     ![s].cursorIndex = 0])
  /\ UNCHANGED <<shell, summons>>

-----------------------------------------------------------------------------
\* Faulty: the timer repeats.
LaunchDelayEnds_Repeats(s) ==
  /\ panel[s].launchDelay
  /\ UNCHANGED <<shell, viewVars, panel>>
  /\ IF panel[s].hacker THEN Launch(s) ELSE UNCHANGED summons

\* Faulty: a launch whose panel was opened again is forgotten.
LaunchDelayEnds_IfClosed(s) ==
  /\ panel[s].launchDelay
  /\ panel' = [panel EXCEPT ![s].launchDelay = FALSE]
  /\ UNCHANGED <<shell, viewVars>>
  /\ IF panel[s].hacker /\ ~panel[s].opened THEN Launch(s)
                                            ELSE UNCHANGED summons

\* The timer asks nobody whether the text is still there or the panel open.
LaunchDelayEnds(s) ==
  /\ panel[s].launchDelay
  /\ panel' = [panel EXCEPT ![s].launchDelay = FALSE]
  /\ UNCHANGED <<shell, viewVars>>
  /\ IF panel[s].hacker THEN Launch(s) ELSE UNCHANGED summons

\* What a panel does, but for launching and for changing the selection.
PanelInput(s) ==
  \/ InjectHacker(s)
  \/ TogglePanel(s) \/ ClosePanel(s)
  \/ \E delta \in {-1, 1} : MoveCursor(s, delta)
  \/ Hover(s)
  \/ ActivateDropdown(s) \/ ClosePopup(s)

AskToLaunch(s) == ActivateLaunch(s) \/ ClickLaunch(s)

PanelNext ==
  \/ ServiceNext /\ panel' = Notified(panel)
  \/ \E s \in ScreenNames :
       \/ PanelInput(s) \/ AskToLaunch(s) \/ LaunchDelayEnds(s)
       \/ \E id \in SourceIds : PickLanguage(s, id)

PanelSpec == PanelInit /\ [][PanelNext]_panelVars

-----------------------------------------------------------------------------
(* Properties *)

PanelTypeOK ==
  /\ ServiceTypeOK
  /\ panel \in [ScreenNames -> PanelStates]

\* Every panel that has the service shows the selected source as the chosen
\* language, no matter which panel, which call from the command line or which
\* late summons changed it last, and although the first assignment to the
\* dropdown removed the binding that used to keep it so.  The exception: a panel
\* that loses the service after its binding and gets it back shows what it
\* showed, until the next selection, if there was another one meanwhile.
DropdownShowsSelection ==
  \A s \in ScreenNames :
    panel[s].hacker /\ ~panel[s].missed
      => panel[s].dropdownValue = selectedSourceId
=============================================================================
