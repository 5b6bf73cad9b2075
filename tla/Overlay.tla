------------------------------ MODULE Overlay ------------------------------
(***************************************************************************)
(* HackerTyper.qml: the full-screen window that reveals the selected source *)
(* while keys are pressed, with its two access cards.  It reads the text of *)
(* the service at every moment, so the text may change under a session.     *)
(*                                                                          *)
(* What the window shows is Shown(progress, Length): the first progress     *)
(* characters of the text.  Their colours, the fonts and the scrolling are  *)
(* left out.  A text is read from a path, so copies of one source in two    *)
(* directories may have two lengths.                                        *)
(*                                                                          *)
(* history and replaced are history variables: they record what happened in *)
(* the session and no action depends on them but for bounds.                *)
(***************************************************************************)
EXTENDS SourceService

CONSTANTS
  TextLength,        \* length of the prepared text at each path
  CharactersPerKey,  \* charactersPerKey, 3 in the source
  Keys,              \* the kinds of keys that are pressed
  MaxPresses         \* bound on the presses of a kind recorded in a session

AllKeys == {"Escape", "Alt", "CapsLock", "Modifier", "Backspace", "Other"}

ASSUME OverlayAssumption ==
  /\ TextLength \in [Paths -> Nat \ {0}]
  /\ CharactersPerKey \in Nat \ {0}
  /\ Keys \subseteq AllKeys
  /\ MaxPresses \in Nat

VARIABLES
  opened,
  targetScreenName,   \* None ("") or the name of the screen asked for
  progress,
  accessCount, deniedCount,
  accessState,        \* the card shown: "granted", "denied" or "none" (the empty string)
  cursorVisible,
  screens,            \* names of the connected screens, in Quickshell's order
  focusedMonitor,     \* None or the screen that has the focus
  service,            \* has the shell given the overlay the service?
  history,            \* what the keys of this session did, by kind
  replaced            \* was the text in view replaced or taken away since the
                      \* last key of this session that fits progress to a text?

sessionVars == <<opened, targetScreenName, progress, accessCount, deniedCount,
                 accessState, cursorVisible, history, replaced>>
hostVars    == <<screens, focusedMonitor, service>>
overlayVars == <<sessionVars, hostVars>>
typerVars   == <<serviceVars, overlayVars>>

\* The text as the overlay reads it: none without the service.
InView   == IF service THEN sourceText ELSE None
Length   == IF InView = None THEN 0 ELSE TextLength[InView]
Revealed == Shown(progress, Length)

\* Faulty: the focus comes before the name.
resolveScreen_FocusFirst(requestedName) ==
  SourceById(screens, IF focusedMonitor # None THEN focusedMonitor
                                               ELSE requestedName)

\* The screen of that name, or the first one; without a name, the screen that
\* has the focus at the moment, so that the overlay follows the focus.
resolveScreen(requestedName) ==
  SourceById(screens, IF requestedName = None THEN focusedMonitor
                                              ELSE requestedName)
targetScreen == resolveScreen(targetScreenName)

NoHistory == [kind \in {"typed", "alt", "granted", "caps", "denied"} |-> 0]
Record(kinds) ==
  history' = [kind \in DOMAIN history |->
                history[kind] + IF kind \in kinds THEN 1 ELSE 0]

OverlayInit ==
  /\ ServiceInit
  /\ opened = FALSE
  /\ targetScreenName = None
  /\ progress = 0
  /\ accessCount = 0 /\ deniedCount = 0 /\ accessState = "none"
  /\ cursorVisible = TRUE
  /\ screens \in {<<name>> : name \in ScreenNames}
  /\ focusedMonitor \in {None, screens[1]}
  /\ service = FALSE
  /\ history = NoHistory
  /\ replaced = FALSE

-----------------------------------------------------------------------------
(* open, close, dismiss, toggle *)

\* Faulty: progress survives into the next session.
StartSession_KeepsProgress(screenName) ==
  /\ targetScreenName' = screenName
  /\ accessCount' = 0 /\ deniedCount' = 0 /\ accessState' = "none"
  /\ cursorVisible' = TRUE
  /\ opened' = TRUE
  /\ history' = NoHistory
  /\ replaced' = FALSE
  /\ UNCHANGED <<progress, hostVars>>

StartSession(screenName) ==
  /\ targetScreenName' = screenName
  /\ progress' = 0
  /\ accessCount' = 0 /\ deniedCount' = 0 /\ accessState' = "none"
  /\ cursorVisible' = TRUE
  /\ opened' = TRUE
  /\ history' = NoHistory
  /\ replaced' = FALSE
  /\ UNCHANGED hostVars

\* Faulty: closing leaves the card standing.
EndSession_KeepsCard ==
  /\ opened' = FALSE
  /\ history' = NoHistory
  /\ replaced' = FALSE
  /\ UNCHANGED <<targetScreenName, progress, accessCount, deniedCount,
                 accessState, cursorVisible, hostVars>>

EndSession ==
  /\ opened' = FALSE
  /\ accessState' = "none"
  /\ history' = NoHistory
  /\ replaced' = FALSE
  /\ UNCHANGED <<targetScreenName, progress, accessCount, deniedCount,
                 cursorVisible, hostVars>>

\* A summons that finds the overlay open starts its session afresh.
Open ==
  /\ TakeSummons(service)
  /\ StartSession(Head(summons).screenName)

\* The shell hides the overlay.
Close == EndSession /\ UNCHANGED serviceVars

\* dismiss asks the shell to hide the overlay, which closes it once more.
Dismiss == EndSession

Toggle ==
  /\ IF opened THEN Dismiss ELSE StartSession(None)
  /\ UNCHANGED serviceVars

-----------------------------------------------------------------------------
(* handleKey: one action for each of its branches *)

Pressed(key) ==
  /\ opened
  /\ key \in Keys
  /\ UNCHANGED <<serviceVars, targetScreenName, hostVars>>

EscapeKey ==
  /\ opened
  /\ "Escape" \in Keys
  /\ \/ /\ accessState # "none"
        /\ accessState' = "none"
        /\ UNCHANGED <<opened, targetScreenName, progress, accessCount,
                       deniedCount, cursorVisible, history, replaced,
                       hostVars>>
     \/ accessState = "none" /\ Dismiss
  /\ UNCHANGED serviceVars

\* Faulty: presses of one kind are counted by the counter of the other.
CapsLockKey_SharedCount(isAutoRepeat) ==
  /\ Pressed("CapsLock")
  /\ history["caps"] < MaxPresses
  /\ UNCHANGED <<opened, progress, deniedCount, cursorVisible, replaced>>
  /\ accessCount' = (accessCount + 1) % 3
  /\ accessState' = IF accessCount + 1 >= 3 THEN "denied" ELSE accessState
  /\ Record(IF accessCount + 1 >= 3 THEN {"caps", "denied"} ELSE {"caps"})

\* Only every third press shows the card; a key that repeats because it is
\* held down does not count.
AltKey(isAutoRepeat) ==
  /\ Pressed("Alt")
  /\ history["alt"] < MaxPresses
  /\ UNCHANGED <<opened, progress, deniedCount, replaced>>
  /\ \/ /\ isAutoRepeat
        /\ UNCHANGED <<accessCount, accessState, cursorVisible, history>>
     \/ /\ ~isAutoRepeat /\ accessCount + 1 < 3
        /\ accessCount' = accessCount + 1
        /\ Record({"alt"})
        /\ UNCHANGED <<accessState, cursorVisible>>
     \/ /\ ~isAutoRepeat /\ accessCount + 1 >= 3
        /\ accessCount' = 0
        /\ accessState' = "granted"
        /\ cursorVisible' = TRUE
        /\ Record({"alt", "granted"})

CapsLockKey(isAutoRepeat) ==
  /\ Pressed("CapsLock")
  /\ history["caps"] < MaxPresses
  /\ UNCHANGED <<opened, progress, accessCount, replaced>>
  /\ \/ /\ isAutoRepeat
        /\ UNCHANGED <<deniedCount, accessState, cursorVisible, history>>
     \/ /\ ~isAutoRepeat /\ deniedCount + 1 < 3
        /\ deniedCount' = deniedCount + 1
        /\ Record({"caps"})
        /\ UNCHANGED <<accessState, cursorVisible>>
     \/ /\ ~isAutoRepeat /\ deniedCount + 1 >= 3
        /\ deniedCount' = 0
        /\ accessState' = "denied"
        /\ cursorVisible' = TRUE
        /\ Record({"caps", "denied"})

ModifierKey ==
  /\ Pressed("Modifier")
  /\ UNCHANGED <<opened, progress, accessCount, deniedCount, accessState,
                 cursorVisible, history, replaced>>

\* Backspace asks for no text: on an empty view it forgets all progress.
BackspaceKey ==
  /\ Pressed("Backspace")
  /\ progress' = Retreat(progress, CharactersPerKey, Length)
  /\ cursorVisible' = TRUE
  /\ replaced' = FALSE
  /\ UNCHANGED <<opened, accessCount, deniedCount, accessState, history>>

OtherKey ==
  /\ Pressed("Other")
  /\ history["typed"] < MaxPresses
  /\ \/ /\ Length > 0
        /\ progress' = Advance(progress, CharactersPerKey, Length)
        /\ replaced' = FALSE
        /\ Record({"typed"})
     \/ /\ Length = 0
        /\ UNCHANGED <<progress, replaced, history>>
  /\ cursorVisible' = TRUE
  /\ UNCHANGED <<opened, accessCount, deniedCount, accessState>>

\* The timer runs while the overlay is open.
BlinkCursor ==
  /\ opened
  /\ cursorVisible' = ~cursorVisible
  /\ UNCHANGED <<serviceVars, hostVars, opened, targetScreenName, progress,
                 accessCount, deniedCount, accessState, history, replaced>>

-----------------------------------------------------------------------------
(* Screens come, go and take the focus *)

Connect(name) ==
  /\ \A i \in DOMAIN screens : screens[i] # name
  /\ screens' = Append(screens, name)
  /\ UNCHANGED <<serviceVars, sessionVars, focusedMonitor, service>>

\* The screens but one; each is there once.
Without(i) == SubSeq(screens, 1, i - 1) \o SubSeq(screens, i + 1, Len(screens))

Disconnect(name) ==
  /\ \E i \in DOMAIN screens :
       /\ screens[i] = name
       /\ screens' = Without(i)
       /\ focusedMonitor' = IF focusedMonitor = name
                            THEN SourceById(Without(i), None)
                            ELSE focusedMonitor
  /\ UNCHANGED <<serviceVars, sessionVars, service>>

Focus(name) ==
  /\ \E i \in DOMAIN screens : screens[i] = name
  /\ focusedMonitor' = name
  /\ UNCHANGED <<serviceVars, sessionVars, screens, service>>

-----------------------------------------------------------------------------
(* The text changes under a session *)

\* What the service does to an open session: only its text may change.
SessionWatches ==
  /\ replaced' = (opened /\ (replaced \/ InView \notin {None, InView'}))
  /\ UNCHANGED <<opened, targetScreenName, progress, accessCount, deniedCount,
                 accessState, cursorVisible, history>>

\* What reaches the service without the overlay.
ServiceStep ==
  /\ ServiceInput
  /\ UNCHANGED hostVars
  /\ SessionWatches

\* The shell gives the overlay the service.
InjectService ==
  /\ ~service
  /\ service' = TRUE
  /\ UNCHANGED <<serviceVars, screens, focusedMonitor>>
  /\ SessionWatches

Key ==
  \/ EscapeKey
  \/ \E isAutoRepeat \in BOOLEAN :
       AltKey(isAutoRepeat) \/ CapsLockKey(isAutoRepeat)
  \/ ModifierKey
  \/ BackspaceKey
  \/ OtherKey

ScreenChange ==
  \E name \in ScreenNames : Connect(name) \/ Disconnect(name) \/ Focus(name)

OverlayNext ==
  \/ ServiceStep \/ InjectService
  \/ Open \/ Close \/ Toggle
  \/ Key \/ BlinkCursor
  \/ ScreenChange

OverlaySpec == OverlayInit /\ [][OverlayNext]_typerVars
-----------------------------------------------------------------------------
(* Properties *)

OverlayTypeOK ==
  /\ ServiceTypeOK
  /\ opened \in BOOLEAN
  /\ targetScreenName \in ScreenNames \cup {None}
  /\ progress \in Nat
  /\ accessCount \in 0..2 /\ deniedCount \in 0..2
  /\ accessState \in {"none", "granted", "denied"}
  /\ cursorVisible \in BOOLEAN
  /\ screens \in Seq(ScreenNames)
  /\ focusedMonitor \in ScreenNames \cup {None}
  /\ service \in BOOLEAN
  /\ history \in [{"typed", "alt", "granted", "caps", "denied"} -> Nat]
  /\ replaced \in BOOLEAN

\* Progress runs past the end of the text only by a replacement: the text in
\* view gave way to a shorter one or to none, because another source was
\* selected (Service.qml:28-36) or the manifest moved the plugin to a directory
\* with a shorter copy or without one (Service.qml:18-23, 66-74), and no key has
\* been pressed since that fits progress to the text.  However often a key is
\* pressed at the end, no press is stored up; and an empty view that replaced
\* nothing has progress 0, so that the hint or the error shows
\* (HackerTyper.qml:270-276).
ProgressWithinText ==
  opened /\ ~replaced => progress <= Length

\* No more characters are revealed than the keys of this session released:
\* none is left from an earlier session, and the presses while a text loads are
\* not stored up.  It says how many, not which: when another text takes the
\* place of the one in view, its first progress characters show with no key.
ProgressIsTyped ==
  opened => progress <= CharactersPerKey * history["typed"]

\* "Press Alt three times for ACCESS GRANTED", "Press Caps Lock three times
\* for ACCESS DENIED" (README.md:25-26): in every session each third press and
\* no other earns a card, whatever is pressed in between, and no press counts
\* for the card of the other key or from an earlier session.
CardsAreEarned ==
  opened =>
    /\ history["alt"] = 3 * history["granted"] + accessCount
    /\ history["caps"] = 3 * history["denied"] + deniedCount

\* A card is shown only over an open overlay, and only if this session earned
\* it: every way of closing takes the card along.
CardsEndWithSession ==
  /\ accessState # "none" => opened
  /\ accessState = "granted" => history["granted"] > 0
  /\ accessState = "denied" => history["denied"] > 0

\* A key reveals the next characters up to the end, Backspace takes the same
\* number back (README.md:23-24).  This holds of what is on the screen: of the
\* keys always, of Backspace unless the text was replaced before it.
KeysActAsTold ==
  [][ /\ OtherKey =>
           Revealed' = AtMost(Length, Revealed + CharactersPerKey)
      /\ BackspaceKey /\ ~replaced =>
           Revealed' = AtLeast(0, Revealed - CharactersPerKey)
    ]_typerVars

\* "Backspace rewinds" (README.md:24), in every session.
BackspaceRewinds ==
  [][BackspaceKey /\ Revealed > 0 => Revealed' < Revealed]_typerVars

\* An overlay that was asked for by name stays on its screen while that screen
\* is connected, whatever happens to the other screens and to the focus; and
\* while any screen is connected an open overlay is on one.
OverlayKeepsScreen ==
  [][ opened /\ opened' /\ targetScreenName' = targetScreenName =>
        /\ screens' # <<>> => \E i \in DOMAIN screens' : targetScreen' = screens'[i]
        /\ targetScreenName # None /\ targetScreen = targetScreenName
             /\ (\E i \in DOMAIN screens' : screens'[i] = targetScreenName)
             => targetScreen' = targetScreen
    ]_typerVars
=============================================================================
