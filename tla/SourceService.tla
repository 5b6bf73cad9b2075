--------------------------- MODULE SourceService ---------------------------
(***************************************************************************)
(* Service.qml: the one source selection of the plugin, the text of the     *)
(* selected source, and the calls that change them.                         *)
(*                                                                          *)
(* A text is identified with the path <<directory, source id>> it was read  *)
(* from.  Reading is asynchronous: the FileView starts a read when its path *)
(* changes and calls back later, so a selection, an injection of the        *)
(* manifest and a call from the command line may all come in between.       *)
(***************************************************************************)
EXTENDS TypingModel

CONSTANTS
  Catalog,       \* SourceCatalog.sources: the ids in catalogue order
  InitialId,     \* the id selected before anybody chooses ("kernel-like")
  UnknownIds,    \* ids outside the catalogue that a caller may ask for
  Dirs,          \* directories the plugin may be installed in
  HomeDir,       \* the directory assumed while no manifest is known
  ScreenNames,   \* names of screens a caller may ask for
  MaxSummons     \* bound on the summons the shell has not delivered yet

SourceIds == {Catalog[i] : i \in DOMAIN Catalog}
Paths     == Dirs \X SourceIds
Payloads  == [sourceId : SourceIds \cup UnknownIds \cup {None},
              screenName : ScreenNames \cup {None}]

ASSUME CatalogAssumption ==
  /\ Catalog \in Seq(SourceIds) \ {<<>>}
  /\ InitialId \in SourceIds
  /\ HomeDir \in Dirs
  /\ MaxSummons \in Nat

ASSUME NoneAssumption ==
  None \notin SourceIds \cup UnknownIds \cup Dirs \cup Paths \cup ScreenNames

VARIABLES
  shell,             \* has the shell injected itself into the service?
  manifest,          \* None, or the injected manifest, known by its directory
  selectedSourceId,
  sourceText,        \* None ("") or the path the text was read from
  sourceError,       \* None ("") or the source that the message names
  loading,           \* None or the path that the FileView is reading
  summons            \* payloads handed to shell.summon, not delivered yet

viewVars    == <<manifest, selectedSourceId, sourceText, sourceError, loading>>
serviceVars == <<shell, manifest, selectedSourceId, sourceText, sourceError,
                 loading, summons>>

sourceDir == IF manifest = None THEN HomeDir ELSE manifest

selectedSourcePath == <<sourceDir, SourceById(Catalog, selectedSourceId)>>

\* Faulty: a read under way is not dropped.
FileViewFollowsPath_Busy ==
  loading' = IF selectedSourcePath' = selectedSourcePath \/ loading # None
             THEN loading ELSE selectedSourcePath'

\* A FileView starts to read when its path changes, and drops the read of the
\* path it had before.
FileViewFollowsPath ==
  loading' = IF selectedSourcePath' = selectedSourcePath
             THEN loading ELSE selectedSourcePath'

ServiceInit ==
  /\ shell = FALSE
  /\ manifest = None
  /\ selectedSourceId = InitialId
  /\ sourceText = None
  /\ sourceError = None
  /\ loading = selectedSourcePath
  /\ summons = <<>>

-----------------------------------------------------------------------------
(* selectSource and the two callbacks of the FileView *)

\* Faulty: the old text stays until the new one is read.
SelectSource_KeepsText(id) ==
  LET source == SourceById(Catalog, id) IN
  IF source \in {None, selectedSourceId}
  THEN UNCHANGED viewVars
  ELSE /\ sourceError' = None
       /\ selectedSourceId' = source
       /\ UNCHANGED <<manifest, sourceText>>
       /\ FileViewFollowsPath

\* Faulty: choosing what is chosen already empties the view too.
SelectSource_AlwaysClears(id) ==
  /\ sourceText' = None
  /\ sourceError' = None
  /\ selectedSourceId' = SourceById(Catalog, id)
  /\ UNCHANGED manifest
  /\ FileViewFollowsPath

\* Choosing what is chosen already keeps the text; choosing another source
\* empties the view first.
SelectSource(id) ==
  LET source == SourceById(Catalog, id) IN
  \/ /\ source \in {None, selectedSourceId}
     /\ UNCHANGED viewVars
  \/ /\ source \notin {None, selectedSourceId}
     /\ sourceText' = None
     /\ sourceError' = None
     /\ selectedSourceId' = source
     /\ UNCHANGED manifest
     /\ FileViewFollowsPath

OnLoaded(path) ==
  /\ loading = path
  /\ sourceText' = path
  /\ sourceError' = None
  /\ loading' = None
  /\ UNCHANGED <<shell, manifest, selectedSourceId, summons>>

\* Faulty: a read that fails leaves no message.
OnLoadFailed_Silent(path) ==
  /\ loading = path
  /\ sourceText' = None
  /\ loading' = None
  /\ UNCHANGED <<shell, manifest, selectedSourceId, sourceError, summons>>

\* The message names the source selected now, whatever path was being read.
OnLoadFailed(path) ==
  /\ loading = path
  /\ sourceText' = None
  /\ sourceError' = SourceById(Catalog, selectedSourceId)
  /\ loading' = None
  /\ UNCHANGED <<shell, manifest, selectedSourceId, summons>>

LoadEnds(path) == OnLoaded(path) \/ OnLoadFailed(path)

-----------------------------------------------------------------------------
(* What the shell does to the service *)

InjectShell ==
  /\ ~shell
  /\ shell' = TRUE
  /\ UNCHANGED <<viewVars, summons>>

\* Faulty: a change of directory empties the view.
InjectManifest_Clears(dir) ==
  /\ manifest = None
  /\ manifest' = dir
  /\ sourceText' = None
  /\ UNCHANGED <<shell, selectedSourceId, sourceError, summons>>
  /\ FileViewFollowsPath

\* The manifest moves the plugin to its own directory, where it stays as long
\* as the service lives; the text in view stays until the new read ends.
InjectManifest(dir) ==
  /\ manifest = None
  /\ manifest' = dir
  /\ UNCHANGED <<shell, selectedSourceId, sourceText, sourceError, summons>>
  /\ FileViewFollowsPath

\* shell.summon hands a payload to the overlay, at once or when the overlay has
\* been created: delivery is a step of its own.
Summon(payload) ==
  /\ Len(summons) < MaxSummons
  /\ summons' = Append(summons, payload)

\* The shell can be asked to summon the overlay without the service.
ForeignSummon(payload) ==
  /\ Summon(payload)
  /\ UNCHANGED <<shell, viewVars>>

-----------------------------------------------------------------------------
(* launch, and the calls from the command line *)

\* launch passes the selection as it is at that moment: primed, because the
\* caller may have changed it in the same call.
Launch(screenName) ==
  \/ /\ shell /\ manifest # None
     /\ Summon([sourceId |-> selectedSourceId', screenName |-> screenName])
  \/ /\ ~(shell /\ manifest # None)
     /\ UNCHANGED summons

IpcSelect(id) ==
  /\ SelectSource(id)
  /\ UNCHANGED <<shell, summons>>

\* An empty id launches what is selected.
IpcLaunch(id, screenName) ==
  /\ IF id = None THEN UNCHANGED viewVars ELSE SelectSource(id)
  /\ Launch(screenName)
  /\ UNCHANGED shell

\* The first lines of HackerTyper.open, which act on the service if the overlay
\* has been given it: the payload may bring back a source that is no longer the
\* selected one.
TakeSummons(hasService) ==
  /\ summons # <<>>
  /\ summons' = Tail(summons)
  /\ IF hasService /\ Head(summons).sourceId # None
     THEN SelectSource(Head(summons).sourceId)
     ELSE UNCHANGED viewVars
  /\ UNCHANGED shell

-----------------------------------------------------------------------------
\* Everything that reaches the service but the overlay's taking of a summons.
ServiceInput ==
  \/ \E path \in Paths : LoadEnds(path)
  \/ InjectShell
  \/ \E dir \in Dirs : InjectManifest(dir)
  \/ \E payload \in Payloads : ForeignSummon(payload)
  \/ \E id \in SourceIds \cup UnknownIds : IpcSelect(id)
  \/ \E id \in SourceIds \cup UnknownIds \cup {None},
        screenName \in ScreenNames \cup {None} : IpcLaunch(id, screenName)

ServiceNext == ServiceInput \/ \E hasService \in BOOLEAN : TakeSummons(hasService)

\* The disk answers every read that is not dropped.  A read that is dropped
\* again and again need never end, so the fairness is per path.
LoadFairness == \A path \in Paths : WF_serviceVars(LoadEnds(path))

ServiceSpec == ServiceInit /\ [][ServiceNext]_serviceVars /\ LoadFairness
-----------------------------------------------------------------------------
(* Properties *)

ServiceTypeOK ==
  /\ shell \in BOOLEAN
  /\ manifest \in Dirs \cup {None}
  /\ selectedSourceId \in SourceIds
  /\ sourceText \in Paths \cup {None}
  /\ sourceError \in SourceIds \cup {None}
  /\ loading \in Paths \cup {None}
  /\ summons \in Seq(Payloads)

\* Whatever is selected in whatever order while reads are on their way, the
\* text and the error message that the panel and the overlay show are those of
\* the selected source, and never both at once: highlighting a text by the
\* language of another source, or blaming the wrong source, is impossible.
ViewMatchesSelection ==
  /\ sourceText # None => sourceText[2] = selectedSourceId
  /\ sourceError # None => sourceError = selectedSourceId
  /\ sourceText = None \/ sourceError = None

\* Only the read of the selected path is ever under way, and an empty view
\* without an error has one under way: "Loading source..." (Panel.qml:157,
\* HackerTyper.qml:276) never stays for want of a reader.
LoadingIsTruthful ==
  /\ loading \in {None, selectedSourcePath}
  /\ sourceText = None /\ sourceError = None => loading = selectedSourcePath

\* A text of another directory than the plugin's is shown only while the text
\* that will replace it is being read.
StaleTextIsReplaced ==
  sourceText \notin {None, selectedSourcePath} => loading = selectedSourcePath

\* What makes the three above inductive: when no read is under way, the last
\* one has left its mark, the text of the selected path or an error.
IdleViewIsFilled ==
  loading = None => sourceText = selectedSourcePath \/ sourceError # None

ViewInv ==
  /\ ServiceTypeOK
  /\ ViewMatchesSelection
  /\ loading \in {None, selectedSourcePath}
  /\ IdleViewIsFilled

\* Once a text is there and nothing is being read, nothing but another
\* selection or another directory takes it away: every launch selects its
\* source again (HackerTyper.qml:96) under the eyes of whoever is typing.
SettledTextStays ==
  [][sourceText # None /\ loading = None
       /\ selectedSourcePath' = selectedSourcePath
     => sourceText' = sourceText]_serviceVars

\* A selection that stays gets its text or an error message.
SelectionSettles ==
  \A path \in Paths :
    selectedSourcePath = path
      ~> \/ selectedSourcePath # path
         \/ sourceText = path
         \/ sourceError # None

\* The view of the service as the panel and the overlay see it.
View == INSTANCE SourceView
  WITH Choices <- SourceIds,
       First   <- InitialId,
       chosen  <- selectedSourceId,
       text    <- IF sourceText = None THEN {} ELSE {sourceText[2]},
       error   <- IF sourceError = None THEN {} ELSE {sourceError}

\* The service does what SourceView.tla promises of it, the filling of an
\* empty view included: dropped reads, the change of directory and calls from
\* three sides cannot be told from a service that reads at once.
ImplementsSourceView == View!Spec
=============================================================================
