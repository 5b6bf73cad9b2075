---------------------------- MODULE HackerTyper ----------------------------
(***************************************************************************)
(* The plugin as a whole: the service, a panel on every connected screen,   *)
(* the overlay, and the shell between them, which delivers a summons some   *)
(* time after it was asked to.                                              *)
(*                                                                          *)
(* asked and sessions count the launches that were asked for, by whatever   *)
(* means, and the sessions that the overlay began; they record, and bound,  *)
(* and decide nothing.  What comes to nothing is not counted: a launch that *)
(* has no text or restarts a timer, and a call before the shell is there.   *)
(***************************************************************************)
EXTENDS Panel, Overlay, FiniteSets

CONSTANT MaxAsked    \* bound on the launches asked for

ASSUME CountAssumption == MaxAsked \in Nat /\ IsFiniteSet(ScreenNames)

VARIABLES asked, sessions

vars == <<typerVars, panel, asked, sessions>>

Connected(s) == \E i \in DOMAIN screens : screens[i] = s

Init ==
  /\ OverlayInit
  /\ panel = [s \in ScreenNames |-> FreshPanel]
  /\ asked = 0
  /\ sessions = 0

Ask == asked < MaxAsked /\ asked' = asked + 1
AskIf(something) == IF something THEN Ask ELSE UNCHANGED asked

\* What the panels and an open session see of a step of the service.
Witnessed ==
  /\ panel' = Notified(panel)
  /\ UNCHANGED hostVars
  /\ SessionWatches

-----------------------------------------------------------------------------
ServiceRuns ==
  /\ \/ \E path \in Paths : LoadEnds(path)
     \/ InjectShell
     \/ \E dir \in Dirs : InjectManifest(dir)
     \/ \E id \in SourceIds \cup UnknownIds : IpcSelect(id)
  /\ Witnessed
  /\ UNCHANGED <<asked, sessions>>

AskByCommand ==
  /\ \/ \E payload \in Payloads : ForeignSummon(payload)
     \/ \E id \in SourceIds \cup UnknownIds \cup {None},
           screenName \in ScreenNames \cup {None} : IpcLaunch(id, screenName)
  /\ AskIf(summons' # summons)
  /\ Witnessed
  /\ UNCHANGED sessions

AskByPanel(s) ==
  /\ Connected(s)
  /\ AskToLaunch(s)
  /\ AskIf(panel'[s].launchDelay /\ ~panel[s].launchDelay)
  /\ UNCHANGED <<overlayVars, sessions>>

PanelRuns(s) ==
  /\ Connected(s)
  /\ PanelInput(s)
  /\ UNCHANGED <<overlayVars, asked, sessions>>

PanelPicks(s, id) ==
  /\ Connected(s)
  /\ PickLanguage(s, id)
  /\ UNCHANGED <<hostVars, asked, sessions>>
  /\ SessionWatches

PanelLaunches(s) ==
  /\ LaunchDelayEnds(s)
  /\ UNCHANGED <<overlayVars, asked, sessions>>

OverlayOpens ==
  /\ Open
  /\ panel' = Notified(panel)
  /\ sessions' = sessions + 1
  /\ UNCHANGED asked

\* The shell toggles the overlay without a payload.
OverlayToggles ==
  /\ Toggle
  /\ IF opened THEN UNCHANGED <<asked, sessions>>
               ELSE Ask /\ sessions' = sessions + 1
  /\ UNCHANGED panel

OverlayRuns ==
  /\ Close \/ InjectService \/ Key \/ BlinkCursor
  /\ UNCHANGED <<panel, asked, sessions>>

\* The bar of a screen that goes takes its panel along, and a launch that is
\* waiting in it.
ScreenComes(s) == Connect(s) /\ UNCHANGED <<panel, asked, sessions>>
ScreenGoes(s) ==
  /\ Disconnect(s)
  /\ panel' = [panel EXCEPT ![s] = FreshPanel]
  /\ UNCHANGED <<asked, sessions>>
FocusMoves(s) == Focus(s) /\ UNCHANGED <<panel, asked, sessions>>

Next ==
  \/ ServiceRuns \/ AskByCommand
  \/ OverlayOpens \/ OverlayToggles \/ OverlayRuns
  \/ \E s \in ScreenNames :
       \/ AskByPanel(s) \/ PanelRuns(s) \/ PanelLaunches(s)
       \/ \E id \in SourceIds : PanelPicks(s, id)
       \/ ScreenComes(s) \/ ScreenGoes(s) \/ FocusMoves(s)

\* Timers run out, the shell delivers what it was given, and reads end.  No
\* user need ever press anything.
Fairness ==
  /\ \A s \in ScreenNames : WF_vars(PanelLaunches(s))
  /\ WF_vars(OverlayOpens)
  /\ \A path \in Paths : WF_vars(ServiceRuns /\ LoadEnds(path))

Spec == Init /\ [][Next]_vars /\ Fairness

-----------------------------------------------------------------------------
(* Properties *)

TypeOK ==
  /\ OverlayTypeOK
  /\ panel \in [ScreenNames -> PanelStates]
  /\ asked \in 0..MaxAsked
  /\ sessions \in Nat

WaitingPanels == {s \in ScreenNames : panel[s].launchDelay}

\* The overlay takes the whole screen and the keyboard, so it must open no more
\* often than it was asked to: not twice for one launch, not again after it was
\* dismissed because a timer or a summons was left over, whichever panels and
\* commands launch while others wait.
NoUninvitedSession ==
  sessions + Len(summons) + Cardinality(WaitingPanels) <= asked

\* A launch that waits in a panel opens the overlay, provided the service can
\* reach the shell, and the panel keeps its service and its screen.
LaunchOpensOverlay ==
  \A s \in ScreenNames :
    panel[s].launchDelay /\ shell /\ manifest # None
      ~> opened \/ ~Connected(s) \/ ~panel[s].hacker

\* The plugin as a whole treats its service by the service's own rules: the
\* panels and the overlay change the selection and the text only through it.
ServiceRules == ServiceInit /\ [][ServiceNext]_serviceVars
=============================================================================
