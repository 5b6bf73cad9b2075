------------------------- MODULE HackerTyperProofs -------------------------
(***************************************************************************)
(* What the service promises, what a session reveals and which cards it     *)
(* shows, and that the plugin as a whole keeps what its parts promise: for  *)
(* any catalogue, texts of any length, any number of characters per key,    *)
(* and any number of directories, screens, summons, presses and launches.   *)
(* The three parts follow each other, as each rests on the ones before.     *)
(***************************************************************************)
EXTENDS HackerTyper, FiniteSetTheorems, SequenceTheorems, TLAPS

-----------------------------------------------------------------------------
(* The service (SourceService)                                               *)

\* A lookup in the catalogue finds an entry, and an id of the catalogue finds
\* itself (HackerTyperModel.js:57-64).
LEMMA LookupFindsEntry ==
  ASSUME NEW id
  PROVE  /\ SourceById(Catalog, id) \in SourceIds
         /\ id \in SourceIds => SourceById(Catalog, id) = id
<1>1. /\ Catalog \in Seq(SourceIds)
      /\ Catalog # <<>>
  BY CatalogAssumption
<1>2. 1 \in DOMAIN Catalog
  BY <1>1
<1>3. Catalog[1] \in SourceIds
  BY <1>2 DEF SourceIds
<1>4. (\E i \in DOMAIN Catalog : Catalog[i] = id) <=> id \in SourceIds
  BY DEF SourceIds
<1> QED
  BY <1>1, <1>3, <1>4 DEF SourceById

\* The path is that of the selected source, in a known directory.
LEMMA PathOfSelection ==
  ASSUME ServiceTypeOK
  PROVE  /\ selectedSourcePath = <<sourceDir, selectedSourceId>>
         /\ sourceDir \in Dirs
         /\ selectedSourcePath \in Paths
<1>1. sourceDir \in Dirs
  BY CatalogAssumption DEF ServiceTypeOK, sourceDir
<1>2. SourceById(Catalog, selectedSourceId) = selectedSourceId
  BY LookupFindsEntry DEF ServiceTypeOK
<1> QED
  BY <1>1, <1>2 DEF selectedSourcePath, Paths, ServiceTypeOK

\* Nothing of the view changes: its part of the invariant is carried over.
LEMMA IdleStep ==
  ASSUME ViewInv, UNCHANGED viewVars,
         shell' \in BOOLEAN, summons' \in Seq(Payloads)
  PROVE  ViewInv'
BY DEF ViewInv, ServiceTypeOK, ViewMatchesSelection, IdleViewIsFilled,
       selectedSourcePath, sourceDir, viewVars

LEMMA SelectedStaysInCatalog ==
  ASSUME ServiceTypeOK, NEW id, SelectSource(id)
  PROVE  selectedSourceId' \in SourceIds
BY LookupFindsEntry DEF SelectSource, ServiceTypeOK, viewVars

\* selectSource (Service.qml:28-36): what it selects is being read, and the
\* view is empty until the read ends.
LEMMA SelectStep ==
  ASSUME ViewInv, NEW id, SelectSource(id),
         shell' \in BOOLEAN, summons' \in Seq(Payloads)
  PROVE  ViewInv'
<1> DEFINE source == SourceById(Catalog, id)
<1>1. CASE source \in {None, selectedSourceId}
  <2>1. UNCHANGED viewVars
    BY <1>1 DEF SelectSource
  <2> QED
    BY <2>1, IdleStep
<1>2. CASE source \notin {None, selectedSourceId}
  <2>1. /\ sourceText' = None /\ sourceError' = None
        /\ selectedSourceId' = source /\ manifest' = manifest
        /\ FileViewFollowsPath
    BY <1>2 DEF SelectSource
  <2>2. source \in SourceIds
    BY LookupFindsEntry
  <2>3. /\ selectedSourcePath = <<sourceDir, selectedSourceId>>
        /\ selectedSourcePath' = <<sourceDir, source>>
        /\ selectedSourcePath' \in Paths
    BY <2>1, <2>2, LookupFindsEntry, PathOfSelection
       DEF ViewInv, selectedSourcePath, sourceDir, Paths
  <2>4. loading' = selectedSourcePath'
    BY <1>2, <2>1, <2>3 DEF FileViewFollowsPath
  <2>5. loading' # None
    BY <2>3, <2>4, NoneAssumption
  <2> QED
    BY <2>1, <2>2, <2>3, <2>4, <2>5
       DEF ViewInv, ServiceTypeOK, ViewMatchesSelection, IdleViewIsFilled
<1> QED
  BY <1>1, <1>2

\* The callbacks of the FileView (Service.qml:66-74): only the selected path
\* is being read, so what they write is about the selected source.
LEMMA LoadStep ==
  ASSUME ViewInv, NEW path \in Paths, LoadEnds(path)
  PROVE  ViewInv'
<1>1. /\ path = selectedSourcePath
      /\ selectedSourcePath = <<sourceDir, selectedSourceId>>
      /\ path[2] = selectedSourceId
  BY NoneAssumption, PathOfSelection
     DEF ViewInv, LoadEnds, OnLoaded, OnLoadFailed
<1>2. /\ UNCHANGED <<shell, manifest, selectedSourceId, summons>>
      /\ loading' = None
      /\ selectedSourcePath' = selectedSourcePath
  BY DEF LoadEnds, OnLoaded, OnLoadFailed, selectedSourcePath, sourceDir
<1>3. SourceById(Catalog, selectedSourceId) = selectedSourceId
  BY LookupFindsEntry DEF ViewInv, ServiceTypeOK
<1>4. \/ sourceText' = path /\ sourceError' = None
      \/ sourceText' = None /\ sourceError' = selectedSourceId
  BY <1>3 DEF LoadEnds, OnLoaded, OnLoadFailed
<1>5. ServiceTypeOK'
  BY <1>2, <1>4 DEF ViewInv, ServiceTypeOK
<1>6. ViewMatchesSelection'
  BY <1>1, <1>2, <1>4 DEF ViewMatchesSelection
<1>7. IdleViewIsFilled'
  BY <1>1, <1>2, <1>4, NoneAssumption
     DEF IdleViewIsFilled, ViewInv, ServiceTypeOK
<1> QED
  BY <1>2, <1>5, <1>6, <1>7 DEF ViewInv

\* The manifest may move the plugin while a text is in view or being read.
LEMMA ManifestStep ==
  ASSUME ViewInv, NEW dir \in Dirs, InjectManifest(dir)
  PROVE  ViewInv'
<1>1. /\ manifest' = dir
      /\ UNCHANGED <<shell, selectedSourceId, sourceText, sourceError, summons>>
      /\ FileViewFollowsPath
  BY DEF InjectManifest
<1>2. /\ selectedSourcePath' = <<dir, selectedSourceId>>
      /\ selectedSourcePath' \in Paths
  BY <1>1, LookupFindsEntry, NoneAssumption
     DEF ViewInv, ServiceTypeOK, selectedSourcePath, sourceDir, Paths
<1>3. \/ /\ selectedSourcePath' = selectedSourcePath
         /\ loading' = loading
      \/ loading' = selectedSourcePath'
  BY <1>1 DEF FileViewFollowsPath
<1>4. loading' \in Paths \cup {None}
  BY <1>2, <1>3 DEF ViewInv, ServiceTypeOK
<1>5. loading' \in {None, selectedSourcePath'}
  BY <1>3 DEF ViewInv
<1>6. IdleViewIsFilled'
  BY <1>1, <1>2, <1>3, NoneAssumption DEF ViewInv, IdleViewIsFilled
<1> QED
  BY <1>1, <1>4, <1>5, <1>6 DEF ViewInv, ServiceTypeOK, ViewMatchesSelection

-----------------------------------------------------------------------------
(* Summons are payloads, whoever asks for them *)

LEMMA SummonKeepsType ==
  ASSUME summons \in Seq(Payloads), NEW payload \in Payloads, Summon(payload)
  PROVE  summons' \in Seq(Payloads)
BY DEF Summon

LEMMA LaunchKeepsType ==
  ASSUME summons \in Seq(Payloads), selectedSourceId' \in SourceIds,
         NEW screenName \in ScreenNames \cup {None}, Launch(screenName)
  PROVE  summons' \in Seq(Payloads)
<1> DEFINE payload == [sourceId |-> selectedSourceId', screenName |-> screenName]
<1>1. payload \in Payloads
  BY DEF Payloads
<1>2. CASE shell /\ manifest # None
  BY <1>1, <1>2, SummonKeepsType DEF Launch
<1>3. CASE ~(shell /\ manifest # None)
  BY <1>3 DEF Launch
<1> QED
  BY <1>2, <1>3
-----------------------------------------------------------------------------
(* The invariant *)

LEMMA InitEstablishesInv == ServiceInit => ViewInv
<1> SUFFICES ASSUME ServiceInit PROVE ViewInv
  OBVIOUS
<1>1. selectedSourceId \in SourceIds
  BY CatalogAssumption DEF ServiceInit
<1>2. selectedSourcePath \in Paths
  BY <1>1, LookupFindsEntry, CatalogAssumption
     DEF ServiceInit, selectedSourcePath, sourceDir, Paths
<1>3. loading # None
  BY <1>2, NoneAssumption DEF ServiceInit
<1>4. summons \in Seq(Payloads)
  BY DEF ServiceInit
<1> QED
  BY <1>1, <1>2, <1>3, <1>4
     DEF ServiceInit, ViewInv, ServiceTypeOK, ViewMatchesSelection,
         IdleViewIsFilled

LEMMA StepKeepsInv == ViewInv /\ [ServiceNext]_serviceVars => ViewInv'
<1> SUFFICES ASSUME ViewInv, [ServiceNext]_serviceVars PROVE ViewInv'
  OBVIOUS
<1>0. /\ shell \in BOOLEAN
      /\ summons \in Seq(Payloads)
  BY DEF ViewInv, ServiceTypeOK
<1>1. ASSUME NEW path \in Paths, LoadEnds(path) PROVE ViewInv'
  BY <1>1, LoadStep
<1>2. CASE InjectShell
  <2>1. UNCHANGED viewVars /\ shell' \in BOOLEAN /\ UNCHANGED summons
    BY <1>2 DEF InjectShell
  <2> QED
    BY <1>0, <2>1, IdleStep
<1>3. ASSUME NEW dir \in Dirs, InjectManifest(dir) PROVE ViewInv'
  BY <1>3, ManifestStep
<1>4. ASSUME NEW payload \in Payloads, ForeignSummon(payload) PROVE ViewInv'
  <2>1. UNCHANGED <<shell, viewVars>> /\ summons' \in Seq(Payloads)
    BY <1>0, <1>4, SummonKeepsType DEF ForeignSummon
  <2> QED
    BY <1>0, <2>1, IdleStep
<1>5. ASSUME NEW id \in SourceIds \cup UnknownIds, IpcSelect(id) PROVE ViewInv'
  <2>1. SelectSource(id) /\ UNCHANGED <<shell, summons>>
    BY <1>5 DEF IpcSelect
  <2> QED
    BY <1>0, <2>1, SelectStep
<1>6. ASSUME NEW id \in SourceIds \cup UnknownIds \cup {None},
             NEW screenName \in ScreenNames \cup {None},
             IpcLaunch(id, screenName)
      PROVE  ViewInv'
  <2>1. /\ UNCHANGED viewVars \/ SelectSource(id)
        /\ Launch(screenName)
        /\ shell' \in BOOLEAN
    BY <1>0, <1>6 DEF IpcLaunch
  <2>2. selectedSourceId' \in SourceIds
    BY <2>1, SelectedStaysInCatalog DEF ViewInv, ServiceTypeOK, viewVars
  <2>3. summons' \in Seq(Payloads)
    BY <1>0, <2>1, <2>2, LaunchKeepsType
  <2> QED
    BY <2>1, <2>3, IdleStep, SelectStep
<1>7. ASSUME NEW hasService \in BOOLEAN, TakeSummons(hasService)
      PROVE  ViewInv'
  <2>1. /\ UNCHANGED viewVars \/ SelectSource(Head(summons).sourceId)
        /\ shell' \in BOOLEAN
    BY <1>0, <1>7 DEF TakeSummons
  <2>2. summons' \in Seq(Payloads)
    BY <1>0, <1>7 DEF TakeSummons
  <2> QED
    BY <2>1, <2>2, IdleStep, SelectStep
<1>8. CASE UNCHANGED serviceVars
  BY <1>0, <1>8, IdleStep DEF serviceVars, viewVars
<1> QED
  BY <1>1, <1>2, <1>3, <1>4, <1>5, <1>6, <1>7, <1>8
     DEF ServiceNext, ServiceInput

\* The view is always that of the selection, and what it lacks is being read:
\* Service.qml as a whole.
THEOREM ServiceInvariant == ServiceSpec => []ViewInv
BY InitEstablishesInv, StepKeepsInv, PTL DEF ServiceSpec

\* The variables of the service keep their types.
THEOREM ServiceTypeCorrect == ServiceSpec => []ServiceTypeOK
<1>1. ViewInv => ServiceTypeOK
  BY DEF ViewInv
<1> QED
  BY <1>1, ServiceInvariant, PTL

\* Text and error in view are those of the selected source (Service.qml:28-36,
\* 66-74).
THEOREM ViewAlwaysMatches == ServiceSpec => []ViewMatchesSelection
<1>1. ViewInv => ViewMatchesSelection
  BY DEF ViewInv
<1> QED
  BY <1>1, ServiceInvariant, PTL

\* "Loading source..." is never a lie (Panel.qml:157, HackerTyper.qml:276).
THEOREM LoadingAlwaysTruthful == ServiceSpec => []LoadingIsTruthful
<1>1. ViewInv => LoadingIsTruthful
  <2> SUFFICES ASSUME ViewInv PROVE LoadingIsTruthful
    OBVIOUS
  <2>1. selectedSourcePath # None
    BY PathOfSelection, NoneAssumption DEF ViewInv
  <2> QED
    BY <2>1 DEF ViewInv, IdleViewIsFilled, LoadingIsTruthful
<1> QED
  BY <1>1, ServiceInvariant, PTL

\* A text from another directory is on its way out (Service.qml:18-23).
THEOREM StaleTextAlwaysReplaced == ServiceSpec => []StaleTextIsReplaced
<1>1. ViewInv => StaleTextIsReplaced
  BY DEF ViewInv, ViewMatchesSelection, IdleViewIsFilled, StaleTextIsReplaced
<1> QED
  BY <1>1, ServiceInvariant, PTL

-----------------------------------------------------------------------------
(* What a step may do to a view that is settled *)

LEMMA SelectKeepsSettledText ==
  ASSUME NEW id, SelectSource(id), ServiceTypeOK,
         selectedSourcePath' = selectedSourcePath
  PROVE  sourceText' = sourceText
<1> SUFFICES ASSUME SourceById(Catalog, id) \notin {None, selectedSourceId}
             PROVE  FALSE
  BY DEF SelectSource, viewVars
<1>1. selectedSourceId' = SourceById(Catalog, id)
  BY DEF SelectSource
<1>2. selectedSourceId' \in SourceIds
  BY SelectedStaysInCatalog
<1>3. SourceById(Catalog, selectedSourceId') = selectedSourceId'
  BY <1>2, LookupFindsEntry
<1>4. SourceById(Catalog, selectedSourceId) = selectedSourceId
  BY LookupFindsEntry DEF ServiceTypeOK
<1> QED
  BY <1>1, <1>3, <1>4 DEF selectedSourcePath

\* A text that is there stays until the selection or the directory changes, so
\* a launch that selects its source again does not blank a running session
\* (Service.qml:31, HackerTyper.qml:96).
THEOREM SettledTextAlwaysStays == ServiceSpec => SettledTextStays
<1> DEFINE Stays == sourceText # None /\ loading = None
                      /\ selectedSourcePath' = selectedSourcePath
                    => sourceText' = sourceText
<1>1. ViewInv /\ [ServiceNext]_serviceVars => [Stays]_serviceVars
  <2> SUFFICES ASSUME ViewInv, ServiceNext,
                      sourceText # None, loading = None,
                      selectedSourcePath' = selectedSourcePath
               PROVE  sourceText' = sourceText
    OBVIOUS
  <2>0. ServiceTypeOK
    BY DEF ViewInv
  <2>1. ASSUME NEW path \in Paths, LoadEnds(path) PROVE FALSE
    BY <2>1, NoneAssumption DEF LoadEnds, OnLoaded, OnLoadFailed
  <2>2. CASE InjectShell
    BY <2>2 DEF InjectShell, viewVars
  <2>3. ASSUME NEW dir \in Dirs, InjectManifest(dir)
        PROVE  sourceText' = sourceText
    BY <2>3 DEF InjectManifest
  <2>4. ASSUME NEW payload \in Payloads, ForeignSummon(payload)
        PROVE  sourceText' = sourceText
    BY <2>4 DEF ForeignSummon, viewVars
  <2>5. ASSUME NEW id, SelectSource(id) PROVE sourceText' = sourceText
    BY <2>0, <2>5, SelectKeepsSettledText
  <2>6. ASSUME NEW id, NEW screenName, IpcLaunch(id, screenName)
        PROVE  sourceText' = sourceText
    BY <2>5, <2>6 DEF IpcLaunch, viewVars
  <2>7. ASSUME NEW hasService, TakeSummons(hasService)
        PROVE  sourceText' = sourceText
    BY <2>5, <2>7 DEF TakeSummons, viewVars
  <2> QED
    BY <2>1, <2>2, <2>3, <2>4, <2>5, <2>6, <2>7
       DEF ServiceNext, ServiceInput, IpcSelect
<1>2. ServiceSpec => [][ViewInv /\ [ServiceNext]_serviceVars]_serviceVars
  BY ServiceInvariant, PTL DEF ServiceSpec
<1> QED
  BY <1>1, <1>2, PTL DEF SettledTextStays

-----------------------------------------------------------------------------
(* The service implements SourceView *)

LEMMA SelectMaps ==
  ASSUME ServiceTypeOK, NEW id, SelectSource(id)
  PROVE  [View!Next]_(View!vars)
<1> DEFINE source == SourceById(Catalog, id)
<1>1. CASE source \in {None, selectedSourceId}
  BY <1>1 DEF SelectSource, viewVars, View!vars
<1>2. CASE source \notin {None, selectedSourceId}
  <2>1. source \in SourceIds
    BY LookupFindsEntry
  <2>2. View!Choose(source)
    BY <1>2 DEF SelectSource, View!Choose
  <2> QED
    BY <2>1, <2>2 DEF View!Next
<1> QED
  BY <1>1, <1>2

LEMMA LoadMaps ==
  ASSUME ViewInv, NEW path \in Paths, LoadEnds(path)
  PROVE  View!Next
<1>1. path[2] = selectedSourceId
  BY NoneAssumption, PathOfSelection
     DEF ViewInv, LoadEnds, OnLoaded, OnLoadFailed
<1>2. /\ selectedSourceId \in SourceIds
      /\ SourceById(Catalog, selectedSourceId) = selectedSourceId
  BY LookupFindsEntry DEF ViewInv, ServiceTypeOK
<1>3. path # None /\ selectedSourceId # None
  BY <1>2, NoneAssumption
<1>4. View!Fill(selectedSourceId)
  BY <1>1, <1>2, <1>3 DEF LoadEnds, OnLoaded, OnLoadFailed, View!Fill
<1> QED
  BY <1>2, <1>4 DEF View!Next

\* What every user of the service may rely on: every step of Service.qml
\* chooses a source and empties the view, fills the view of the chosen source,
\* or changes nothing that can be seen.
THEOREM ServiceImplementsView ==
  ServiceSpec => View!Init /\ [][View!Next]_(View!vars)
<1>1. ServiceInit => View!Init
  BY DEF ServiceInit, View!Init
<1>2. ViewInv /\ [ServiceNext]_serviceVars => [View!Next]_(View!vars)
  <2> SUFFICES ASSUME ViewInv, [ServiceNext]_serviceVars
               PROVE  [View!Next]_(View!vars)
    OBVIOUS
  <2>0. ServiceTypeOK
    BY DEF ViewInv
  <2>1. ASSUME NEW path \in Paths, LoadEnds(path)
        PROVE  [View!Next]_(View!vars)
    BY <2>1, LoadMaps
  <2>2. ASSUME NEW id, SelectSource(id) PROVE [View!Next]_(View!vars)
    BY <2>0, <2>2, SelectMaps
  <2>3. CASE UNCHANGED viewVars
    BY <2>3 DEF viewVars, View!vars
  <2>4. CASE \E dir \in Dirs : InjectManifest(dir)
    BY <2>4 DEF InjectManifest, View!vars
  <2>5. CASE InjectShell \/ \E payload \in Payloads : ForeignSummon(payload)
    BY <2>3, <2>5 DEF InjectShell, ForeignSummon
  <2>6. ASSUME NEW id, NEW screenName, IpcLaunch(id, screenName)
        PROVE  [View!Next]_(View!vars)
    BY <2>2, <2>3, <2>6 DEF IpcLaunch
  <2>7. ASSUME NEW hasService, TakeSummons(hasService)
        PROVE  [View!Next]_(View!vars)
    BY <2>2, <2>3, <2>7 DEF TakeSummons
  <2>8. CASE UNCHANGED serviceVars
    BY <2>3, <2>8 DEF serviceVars, viewVars
  <2> QED
    BY <2>1, <2>2, <2>4, <2>5, <2>6, <2>7, <2>8
       DEF ServiceNext, ServiceInput, IpcSelect
<1> QED
  BY <1>1, <1>2, ServiceInvariant, PTL DEF ServiceSpec

-----------------------------------------------------------------------------
(* The sessions of the overlay (Overlay)                                     *)

SessionTypeOK ==
  /\ opened \in BOOLEAN
  /\ replaced \in BOOLEAN
  /\ progress \in Nat
  /\ accessCount \in 0..2 /\ deniedCount \in 0..2
  /\ accessState \in {"none", "granted", "denied"}
  /\ history \in [{"typed", "alt", "granted", "caps", "denied"} -> Nat]

SessionInv ==
  /\ SessionTypeOK
  /\ ProgressWithinText
  /\ ProgressIsTyped
  /\ CardsAreEarned
  /\ CardsEndWithSession

OverlayInv == ViewInv /\ SessionInv /\ service \in BOOLEAN

-----------------------------------------------------------------------------
(* Steps and typing, as numbers *)

LEMMA AdvanceBounds ==
  ASSUME NEW p \in Nat, NEW amount \in Nat \ {0}, NEW length \in Nat
  PROVE  /\ Advance(p, amount, length) \in Nat
         /\ Advance(p, amount, length) <= length
         /\ Advance(p, amount, length) <= p + amount
BY DEF Advance, Clamp, AtLeast, AtMost

LEMMA RetreatBounds ==
  ASSUME NEW p \in Nat, NEW amount \in Nat \ {0}, NEW length \in Nat
  PROVE  /\ Retreat(p, amount, length) \in Nat
         /\ Retreat(p, amount, length) <= length
         /\ Retreat(p, amount, length) <= p
BY DEF Retreat, Clamp, AtLeast, AtMost

\* The text in view has a length, and none without a text.
LEMMA LengthOfView ==
  ASSUME ViewInv
  PROVE  Length \in Nat /\ (InView = None => Length = 0)
<1>1. InView \in Paths \cup {None}
  BY DEF ViewInv, ServiceTypeOK, InView
<1>2. \A path \in Paths : TextLength[path] \in Nat
  BY OverlayAssumption
<1> QED
  BY <1>1, <1>2 DEF Length

\* It is that of the text in view.
LEMMA SameViewSameLength == InView' = InView => Length' = Length
BY DEF Length

LEMMA SameViewStays ==
  UNCHANGED <<serviceVars, service>> => Length' = Length
BY SameViewSameLength DEF serviceVars, InView

LEMMA RecordAdds ==
  ASSUME SessionTypeOK, NEW kinds, Record(kinds)
  PROVE  /\ history' \in [{"typed", "alt", "granted", "caps", "denied"} -> Nat]
         /\ \A kind \in {"typed", "alt", "granted", "caps", "denied"} :
              /\ kind \in kinds => history'[kind] = history[kind] + 1
              /\ kind \notin kinds => history'[kind] = history[kind]
<1> DEFINE Kinds == {"typed", "alt", "granted", "caps", "denied"}
<1>1. history \in [Kinds -> Nat]
  BY DEF SessionTypeOK
<1>2. history' = [kind \in Kinds |->
                    history[kind] + IF kind \in kinds THEN 1 ELSE 0]
  BY <1>1 DEF Record
<1>3. ASSUME NEW kind \in Kinds
      PROVE  /\ history'[kind] \in Nat
             /\ kind \in kinds => history'[kind] = history[kind] + 1
             /\ kind \notin kinds => history'[kind] = history[kind]
  <2>1. history[kind] \in Nat
    BY <1>1
  <2>2. history'[kind] = history[kind] + IF kind \in kinds THEN 1 ELSE 0
    BY <1>2
  <2>3. CASE kind \in kinds
    BY <2>1, <2>2, <2>3
  <2>4. CASE kind \notin kinds
    BY <2>1, <2>2, <2>4
  <2> QED
    BY <2>3, <2>4
<1>4. history' \in [Kinds -> Nat]
  BY <1>2, <1>3
<1> QED
  BY <1>3, <1>4

-----------------------------------------------------------------------------
(* Beginning and ending a session *)

LEMMA EmptyHistory ==
  /\ NoHistory \in [{"typed", "alt", "granted", "caps", "denied"} -> Nat]
  /\ \A kind \in {"typed", "alt", "granted", "caps", "denied"} :
       NoHistory[kind] = 0
BY DEF NoHistory

LEMMA StartEstablishesSession ==
  \A screenName : ViewInv' /\ StartSession(screenName) => SessionInv'
<1> SUFFICES ASSUME NEW screenName, ViewInv', StartSession(screenName)
             PROVE  SessionInv'
  OBVIOUS
<1>1. Length' \in Nat
  <2>1. InView' \in Paths \cup {None}
    BY DEF ViewInv, ServiceTypeOK, InView
  <2>2. \A path \in Paths : TextLength[path] \in Nat
    BY OverlayAssumption
  <2> QED
    BY <2>1, <2>2 DEF Length
<1>2. CharactersPerKey \in Nat
  BY OverlayAssumption
<1>3. /\ progress' = 0 /\ accessCount' = 0 /\ deniedCount' = 0
      /\ accessState' = "none" /\ opened' = TRUE /\ replaced' = FALSE
      /\ history' = NoHistory
  BY DEF StartSession
<1>4. SessionTypeOK'
  <2>1. history' \in [{"typed", "alt", "granted", "caps", "denied"} -> Nat]
    BY <1>3, EmptyHistory
  <2>2. opened' \in BOOLEAN /\ replaced' \in BOOLEAN
    BY <1>3
  <2>3. /\ progress' \in Nat /\ accessCount' \in 0..2 /\ deniedCount' \in 0..2
        /\ accessState' \in {"none", "granted", "denied"}
    BY <1>3
  <2> QED
    BY <2>1, <2>2, <2>3 DEF SessionTypeOK
<1>5. ProgressWithinText'
  BY <1>1, <1>3 DEF ProgressWithinText
<1>6. /\ history'["typed"] = 0
      /\ history'["alt"] = 0 /\ history'["granted"] = 0
      /\ history'["caps"] = 0 /\ history'["denied"] = 0
  BY <1>3, EmptyHistory
<1>7. ProgressIsTyped'
  BY <1>2, <1>3, <1>6 DEF ProgressIsTyped
<1>8. CardsAreEarned'
  BY <1>3, <1>6 DEF CardsAreEarned
<1>9. CardsEndWithSession'
  BY <1>3, <1>6 DEF CardsEndWithSession
<1> QED
  BY <1>4, <1>5, <1>7, <1>8, <1>9 DEF SessionInv

LEMMA EndKeepsSession == SessionInv /\ EndSession => SessionInv'
<1> SUFFICES ASSUME SessionInv, EndSession PROVE SessionInv'
  OBVIOUS
<1>1. /\ ~opened' /\ accessState' = "none"
      /\ UNCHANGED <<progress, accessCount, deniedCount>>
  BY DEF EndSession
<1>2. SessionTypeOK'
  <2>1. history' \in [{"typed", "alt", "granted", "caps", "denied"} -> Nat]
    BY EmptyHistory DEF EndSession
  <2>2. opened' \in BOOLEAN /\ replaced' \in BOOLEAN
    BY DEF EndSession
  <2>3. /\ progress' \in Nat /\ accessCount' \in 0..2 /\ deniedCount' \in 0..2
        /\ accessState' \in {"none", "granted", "denied"}
    BY <1>1 DEF SessionInv, SessionTypeOK
  <2> QED
    BY <2>1, <2>2, <2>3 DEF SessionTypeOK
<1>3. /\ ProgressWithinText' /\ ProgressIsTyped' /\ CardsAreEarned'
      /\ CardsEndWithSession'
  BY <1>1 DEF ProgressWithinText, ProgressIsTyped, CardsAreEarned,
              CardsEndWithSession
<1> QED
  BY <1>2, <1>3 DEF SessionInv

\* The text in view stays, and so does everything the session counts.
LEMMA QuietStep ==
  /\ SessionInv
  /\ Length' = Length
  /\ UNCHANGED <<opened, replaced, progress, accessCount, deniedCount,
                 accessState, history>>
  => SessionInv'
BY DEF SessionInv, SessionTypeOK, ProgressWithinText, ProgressIsTyped,
       CardsAreEarned, CardsEndWithSession

\* What the service does to a session: a text that gives way marks it, and one
\* that comes into an empty view finds progress 0 or the mark.
LEMMA WatchedStep ==
  ASSUME ViewInv, ViewInv', SessionInv, SessionWatches
  PROVE  SessionInv'
<1>1. /\ replaced' = (opened /\ (replaced \/ InView \notin {None, InView'}))
      /\ UNCHANGED <<opened, progress, accessCount, deniedCount, accessState,
                     history>>
  BY DEF SessionWatches
<1>2. Length' \in Nat
  <2>1. InView' \in Paths \cup {None}
    BY DEF ViewInv, ServiceTypeOK, InView
  <2>2. \A path \in Paths : TextLength[path] \in Nat
    BY OverlayAssumption
  <2> QED
    BY <2>1, <2>2 DEF Length
<1>3. SessionTypeOK'
  BY <1>1 DEF SessionInv, SessionTypeOK
<1>4. ProgressWithinText'
  <2> SUFFICES ASSUME opened', ~replaced' PROVE progress' <= Length'
    BY DEF ProgressWithinText
  <2>1. progress \in Nat /\ progress <= Length /\ InView \in {None, InView'}
    BY <1>1 DEF SessionInv, SessionTypeOK, ProgressWithinText
  <2>2. CASE InView = None
    BY <1>1, <1>2, <2>1, <2>2, LengthOfView
  <2>3. CASE InView = InView'
    BY <1>1, <2>1, <2>3, SameViewSameLength
  <2> QED
    BY <2>1, <2>2, <2>3
<1>5. ProgressIsTyped' /\ CardsAreEarned' /\ CardsEndWithSession'
  BY <1>1 DEF SessionInv, ProgressIsTyped, CardsAreEarned, CardsEndWithSession
<1> QED
  BY <1>3, <1>4, <1>5 DEF SessionInv

-----------------------------------------------------------------------------
(* Keys *)

LEMMA AltStep ==
  ASSUME SessionInv, NEW isAutoRepeat \in BOOLEAN, AltKey(isAutoRepeat)
  PROVE  SessionInv'
<1>0. /\ opened
      /\ UNCHANGED <<opened, replaced, progress, deniedCount>>
      /\ Length' = Length
      /\ accessCount \in 0..2
      /\ SessionTypeOK
  BY SameViewStays DEF AltKey, Pressed, hostVars, SessionInv, SessionTypeOK
<1>1. CASE UNCHANGED <<accessCount, accessState, cursorVisible, history>>
  BY <1>0, <1>1, QuietStep
<1>2. CASE /\ accessCount + 1 < 3
           /\ accessCount' = accessCount + 1
           /\ Record({"alt"})
           /\ UNCHANGED <<accessState, cursorVisible>>
  <2>1. /\ history' \in [{"typed", "alt", "granted", "caps", "denied"} -> Nat]
        /\ history'["alt"] = history["alt"] + 1
        /\ \A other \in {"typed", "alt", "granted", "caps", "denied"} \ {"alt"} :
             history'[other] = history[other]
    BY <1>0, <1>2, RecordAdds
  <2>2. SessionTypeOK'
    BY <1>0, <1>2, <2>1 DEF SessionTypeOK
  <2>3. CardsAreEarned'
    BY <1>0, <1>2, <2>1 DEF SessionInv, SessionTypeOK, CardsAreEarned
  <2> QED
    BY <1>0, <1>2, <2>1, <2>2, <2>3
       DEF SessionInv, ProgressWithinText, ProgressIsTyped,
           CardsEndWithSession
<1>3. CASE /\ accessCount + 1 >= 3
           /\ accessCount' = 0
           /\ accessState' = "granted"
           /\ Record({"alt", "granted"})
  <2>1. /\ history' \in [{"typed", "alt", "granted", "caps", "denied"} -> Nat]
        /\ history'["alt"] = history["alt"] + 1
        /\ history'["granted"] = history["granted"] + 1
        /\ \A other \in {"typed", "alt", "granted", "caps", "denied"}
                         \ {"alt", "granted"} :
             history'[other] = history[other]
    BY <1>0, <1>3, RecordAdds
  <2>2. accessCount = 2
    BY <1>0, <1>3
  <2>3. SessionTypeOK'
    BY <1>0, <1>3, <2>1 DEF SessionTypeOK
  <2>4. CardsAreEarned'
    BY <1>0, <1>3, <2>1, <2>2 DEF SessionInv, SessionTypeOK, CardsAreEarned
  <2>5. CardsEndWithSession'
    BY <1>0, <1>3, <2>1 DEF SessionTypeOK, CardsEndWithSession
  <2> QED
    BY <1>0, <1>3, <2>1, <2>3, <2>4, <2>5
       DEF SessionInv, ProgressWithinText, ProgressIsTyped
<1> QED
  BY <1>1, <1>2, <1>3 DEF AltKey

LEMMA CapsLockStep ==
  ASSUME SessionInv, NEW isAutoRepeat \in BOOLEAN, CapsLockKey(isAutoRepeat)
  PROVE  SessionInv'
<1>0. /\ opened
      /\ UNCHANGED <<opened, replaced, progress, accessCount>>
      /\ Length' = Length
      /\ deniedCount \in 0..2
      /\ SessionTypeOK
  BY SameViewStays DEF CapsLockKey, Pressed, hostVars, SessionInv, SessionTypeOK
<1>1. CASE UNCHANGED <<deniedCount, accessState, cursorVisible, history>>
  BY <1>0, <1>1, QuietStep
<1>2. CASE /\ deniedCount + 1 < 3
           /\ deniedCount' = deniedCount + 1
           /\ Record({"caps"})
           /\ UNCHANGED <<accessState, cursorVisible>>
  <2>1. /\ history' \in [{"typed", "alt", "granted", "caps", "denied"} -> Nat]
        /\ history'["caps"] = history["caps"] + 1
        /\ \A other \in {"typed", "alt", "granted", "caps", "denied"} \ {"caps"} :
             history'[other] = history[other]
    BY <1>0, <1>2, RecordAdds
  <2>2. SessionTypeOK'
    BY <1>0, <1>2, <2>1 DEF SessionTypeOK
  <2>3. CardsAreEarned'
    BY <1>0, <1>2, <2>1 DEF SessionInv, SessionTypeOK, CardsAreEarned
  <2> QED
    BY <1>0, <1>2, <2>1, <2>2, <2>3
       DEF SessionInv, ProgressWithinText, ProgressIsTyped,
           CardsEndWithSession
<1>3. CASE /\ deniedCount + 1 >= 3
           /\ deniedCount' = 0
           /\ accessState' = "denied"
           /\ Record({"caps", "denied"})
  <2>1. /\ history' \in [{"typed", "alt", "granted", "caps", "denied"} -> Nat]
        /\ history'["caps"] = history["caps"] + 1
        /\ history'["denied"] = history["denied"] + 1
        /\ \A other \in {"typed", "alt", "granted", "caps", "denied"}
                         \ {"caps", "denied"} :
             history'[other] = history[other]
    BY <1>0, <1>3, RecordAdds
  <2>2. deniedCount = 2
    BY <1>0, <1>3
  <2>3. SessionTypeOK'
    BY <1>0, <1>3, <2>1 DEF SessionTypeOK
  <2>4. CardsAreEarned'
    BY <1>0, <1>3, <2>1, <2>2 DEF SessionInv, SessionTypeOK, CardsAreEarned
  <2>5. CardsEndWithSession'
    BY <1>0, <1>3, <2>1 DEF SessionTypeOK, CardsEndWithSession
  <2> QED
    BY <1>0, <1>3, <2>1, <2>3, <2>4, <2>5
       DEF SessionInv, ProgressWithinText, ProgressIsTyped
<1> QED
  BY <1>1, <1>2, <1>3 DEF CapsLockKey

LEMMA BackspaceStep == ViewInv /\ SessionInv /\ BackspaceKey => SessionInv'
<1> SUFFICES ASSUME ViewInv, SessionInv, BackspaceKey PROVE SessionInv'
  OBVIOUS
<1>1. /\ CharactersPerKey \in Nat \ {0}
      /\ progress \in Nat
      /\ Length \in Nat
  BY OverlayAssumption, LengthOfView DEF SessionInv, SessionTypeOK
<1>2. /\ progress' = Retreat(progress, CharactersPerKey, Length)
      /\ replaced' = FALSE /\ Length' = Length
      /\ UNCHANGED <<opened, accessCount, deniedCount, accessState, history>>
  BY SameViewStays DEF BackspaceKey, Pressed, hostVars
<1>3. progress' \in Nat /\ progress' <= Length /\ progress' <= progress
  BY <1>1, <1>2, RetreatBounds
<1>4. SessionTypeOK'
  BY <1>2, <1>3 DEF SessionInv, SessionTypeOK
<1>5. ProgressWithinText'
  BY <1>1, <1>2, <1>3 DEF ProgressWithinText
<1>6. ProgressIsTyped'
  <2>1. history["typed"] \in Nat
    BY DEF SessionInv, SessionTypeOK
  <2>2. CharactersPerKey * history["typed"] \in Nat
    BY <1>1, <2>1
  <2>3. ASSUME opened'
        PROVE  progress' <= CharactersPerKey * history'["typed"]
    <3>1. progress <= CharactersPerKey * history["typed"]
      BY <1>2, <2>3 DEF SessionInv, ProgressIsTyped
    <3> QED
      BY <1>1, <1>2, <1>3, <2>2, <3>1
  <2> QED
    BY <2>3 DEF ProgressIsTyped
<1>7. CardsAreEarned' /\ CardsEndWithSession'
  BY <1>2 DEF SessionInv, CardsAreEarned, CardsEndWithSession
<1> QED
  BY <1>4, <1>5, <1>6, <1>7 DEF SessionInv

\* Advance without a text leaves progress alone: the code asks for a text
\* first, and a press that finds none is not counted.
LEMMA OtherStep == ViewInv /\ SessionInv /\ OtherKey => SessionInv'
<1> SUFFICES ASSUME ViewInv, SessionInv, OtherKey PROVE SessionInv'
  OBVIOUS
<1> DEFINE typed == history["typed"]
<1>1. /\ CharactersPerKey \in Nat \ {0}
      /\ progress \in Nat /\ typed \in Nat
      /\ Length \in Nat
  BY OverlayAssumption, LengthOfView DEF SessionInv, SessionTypeOK
<1>2. /\ opened /\ Length' = Length
      /\ UNCHANGED <<opened, accessCount, deniedCount, accessState>>
  BY SameViewStays DEF OtherKey, Pressed, hostVars
<1>3. CASE UNCHANGED <<progress, replaced, history>>
  BY <1>2, <1>3, QuietStep
<1>4. CASE /\ progress' = Advance(progress, CharactersPerKey, Length)
           /\ replaced' = FALSE
           /\ Record({"typed"})
  <2>1. /\ progress' \in Nat
        /\ progress' <= progress + CharactersPerKey
        /\ progress' <= Length
    BY <1>1, <1>4, AdvanceBounds
  <2>2. /\ history' \in [{"typed", "alt", "granted", "caps", "denied"} -> Nat]
        /\ history'["typed"] = typed + 1
        /\ \A other \in {"typed", "alt", "granted", "caps", "denied"}
                         \ {"typed"} :
             history'[other] = history[other]
    BY <1>4, RecordAdds DEF SessionInv
  <2>3. SessionTypeOK'
    BY <1>2, <1>4, <2>1, <2>2 DEF SessionInv, SessionTypeOK
  <2>4. ProgressWithinText'
    BY <1>2, <2>1 DEF ProgressWithinText
  <2>5. ProgressIsTyped'
    <3>1. progress <= CharactersPerKey * typed
      BY <1>2 DEF SessionInv, ProgressIsTyped
    <3>2. /\ CharactersPerKey * typed \in Nat
          /\ CharactersPerKey * (typed + 1)
               = CharactersPerKey * typed + CharactersPerKey
      BY <1>1
    <3>3. progress' <= CharactersPerKey * (typed + 1)
      <4> HIDE DEF typed
      <4> QED
        BY <1>1, <2>1, <3>1, <3>2
    <3> QED
      BY <2>2, <3>3 DEF ProgressIsTyped
  <2>6. CardsAreEarned'
    BY <1>2, <2>2 DEF SessionInv, CardsAreEarned
  <2>7. CardsEndWithSession'
    BY <1>2, <2>2 DEF SessionInv, CardsEndWithSession
  <2> QED
    BY <2>3, <2>4, <2>5, <2>6, <2>7 DEF SessionInv
<1> QED
  BY <1>3, <1>4 DEF OtherKey

LEMMA EscapeStep == SessionInv /\ EscapeKey => SessionInv'
<1> SUFFICES ASSUME SessionInv, EscapeKey PROVE SessionInv'
  OBVIOUS
<1>1. CASE EndSession
  BY <1>1, EndKeepsSession
<1>2. CASE /\ accessState' = "none"
           /\ UNCHANGED <<opened, progress, accessCount, deniedCount, history,
                          replaced>>
           /\ Length' = Length
  BY <1>2 DEF SessionInv, SessionTypeOK, ProgressWithinText,
              ProgressIsTyped, CardsAreEarned, CardsEndWithSession
<1> QED
  BY <1>1, <1>2, SameViewStays DEF EscapeKey, Dismiss, hostVars

-----------------------------------------------------------------------------
(* Every step *)

LEMMA OverlayStepKeepsInv ==
  OverlayInv /\ [OverlayNext]_typerVars => OverlayInv'
<1> SUFFICES ASSUME OverlayInv, [OverlayNext]_typerVars PROVE OverlayInv'
  OBVIOUS
<1>0. ViewInv /\ SessionInv /\ service \in BOOLEAN
  BY DEF OverlayInv
<1>1. ViewInv'
  <2>1. [ServiceNext]_serviceVars
    BY <1>0
       DEF OverlayNext, ServiceStep, InjectService, ServiceNext, Open, Close,
           Toggle, Key, ScreenChange, EscapeKey, AltKey, CapsLockKey,
           ModifierKey, BackspaceKey, OtherKey, Pressed, BlinkCursor, Connect,
           Disconnect, Focus, typerVars, serviceVars
  <2> QED
    BY <1>0, <2>1, StepKeepsInv
<1>10. service' \in BOOLEAN
  BY <1>0
     DEF OverlayNext, ServiceStep, InjectService, Open, Close, Toggle, Dismiss,
         StartSession, EndSession, Key, ScreenChange, EscapeKey, AltKey,
         CapsLockKey, ModifierKey, BackspaceKey, OtherKey, Pressed,
         BlinkCursor, Connect, Disconnect, Focus, typerVars, overlayVars,
         hostVars
<1> SUFFICES SessionInv'
  BY <1>1, <1>10 DEF OverlayInv
<1>2. CASE ServiceStep \/ InjectService
  BY <1>0, <1>1, <1>2, WatchedStep DEF ServiceStep, InjectService
<1>3. CASE Open
  BY <1>1, <1>3, StartEstablishesSession DEF Open
<1>4. CASE Close
  BY <1>0, <1>4, EndKeepsSession DEF Close
<1>5. CASE Toggle
  <2>1. CASE EndSession
    BY <1>0, <2>1, EndKeepsSession
  <2>2. CASE StartSession(None)
    BY <1>1, <2>2, StartEstablishesSession
  <2> QED
    BY <1>5, <2>1, <2>2 DEF Toggle, Dismiss
<1>6. CASE Key
  <2>1. CASE EscapeKey
    BY <1>0, <2>1, EscapeStep
  <2>2. ASSUME NEW isAutoRepeat \in BOOLEAN, AltKey(isAutoRepeat)
        PROVE  SessionInv'
    BY <1>0, <2>2, AltStep
  <2>3. ASSUME NEW isAutoRepeat \in BOOLEAN, CapsLockKey(isAutoRepeat)
        PROVE  SessionInv'
    BY <1>0, <2>3, CapsLockStep
  <2>4. CASE ModifierKey
    BY <1>0, <2>4, QuietStep, SameViewStays DEF ModifierKey, Pressed, hostVars
  <2>5. CASE BackspaceKey
    BY <1>0, <2>5, BackspaceStep
  <2>6. CASE OtherKey
    BY <1>0, <2>6, OtherStep
  <2> QED
    BY <1>6, <2>1, <2>2, <2>3, <2>4, <2>5, <2>6 DEF Key
<1>7. CASE BlinkCursor
  BY <1>0, <1>7, QuietStep, SameViewStays DEF BlinkCursor, hostVars
<1>8. CASE ScreenChange
  BY <1>0, <1>8, QuietStep, SameViewStays
     DEF ScreenChange, Connect, Disconnect, Focus, sessionVars
<1>9. CASE UNCHANGED typerVars
  BY <1>0, <1>9, QuietStep, SameViewStays
     DEF typerVars, overlayVars, sessionVars, hostVars
<1> QED
  BY <1>2, <1>3, <1>4, <1>5, <1>6, <1>7, <1>8, <1>9 DEF OverlayNext

LEMMA OverlayInitEstablishesInv == OverlayInit => OverlayInv
<1> SUFFICES ASSUME OverlayInit PROVE OverlayInv
  OBVIOUS
<1>1. ViewInv
  BY InitEstablishesInv DEF OverlayInit
<1>2. SessionTypeOK
  <2>1. history \in [{"typed", "alt", "granted", "caps", "denied"} -> Nat]
    BY EmptyHistory DEF OverlayInit
  <2>2. opened \in BOOLEAN /\ replaced \in BOOLEAN
    BY DEF OverlayInit
  <2>3. /\ progress \in Nat /\ accessCount \in 0..2 /\ deniedCount \in 0..2
        /\ accessState \in {"none", "granted", "denied"}
    BY DEF OverlayInit
  <2> QED
    BY <2>1, <2>2, <2>3 DEF SessionTypeOK
<1>3. SessionInv /\ service \in BOOLEAN
  BY <1>2 DEF OverlayInit, SessionInv, ProgressWithinText,
              ProgressIsTyped, CardsAreEarned, CardsEndWithSession
<1> QED
  BY <1>1, <1>3 DEF OverlayInv

-----------------------------------------------------------------------------
(* What holds in every state of the overlay *)

THEOREM OverlayInvariant == OverlaySpec => []OverlayInv
BY OverlayInitEstablishesInv, OverlayStepKeepsInv, PTL DEF OverlaySpec

\* Progress passes the end of the text only where another text, or none, took
\* the place of the one in view and no key has fitted progress to it since:
\* handleKey clamps against the length that it reads at that moment, and typing
\* into an empty view stores nothing up.
THEOREM ProgressAlwaysWithinText == OverlaySpec => []ProgressWithinText
<1>1. OverlayInv => ProgressWithinText
  BY DEF OverlayInv, SessionInv
<1> QED
  BY <1>1, OverlayInvariant, PTL

\* A session reveals no more characters than its own keys released,
\* CharactersPerKey at each press that found a text: open() and toggle() reset
\* progress, and a press without a text adds nothing to it.
THEOREM ProgressIsAlwaysTyped == OverlaySpec => []ProgressIsTyped
<1>1. OverlayInv => ProgressIsTyped
  BY DEF OverlayInv, SessionInv
<1> QED
  BY <1>1, OverlayInvariant, PTL

\* Each third press of Alt or Caps Lock in a session, and no other, earned the
\* card, for sessions of any length.
THEOREM CardsAreAlwaysEarned == OverlaySpec => []CardsAreEarned
<1>1. OverlayInv => CardsAreEarned
  BY DEF OverlayInv, SessionInv
<1> QED
  BY <1>1, OverlayInvariant, PTL

\* No way of closing or reopening the overlay leaves a card of the last
\* session standing.
THEOREM CardsAlwaysEndWithSession == OverlaySpec => []CardsEndWithSession
<1>1. OverlayInv => CardsEndWithSession
  BY DEF OverlayInv, SessionInv
<1> QED
  BY <1>1, OverlayInvariant, PTL

-----------------------------------------------------------------------------
(* Screens *)

PlacesTypeOK ==
  /\ targetScreenName \in ScreenNames \cup {None}
  /\ cursorVisible \in BOOLEAN
  /\ screens \in Seq(ScreenNames)
  /\ focusedMonitor \in ScreenNames \cup {None}

LEMMA ChosenFromList ==
  ASSUME NEW S, NEW list \in Seq(S), NEW id
  PROVE  /\ SourceById(list, id) \in S \cup {None}
         /\ list # <<>> => \E i \in DOMAIN list : SourceById(list, id) = list[i]
BY DEF SourceById

LEMMA OneScreenLess ==
  ASSUME PlacesTypeOK, NEW i \in DOMAIN screens
  PROVE  Without(i) \in Seq(ScreenNames)
<1>1. /\ SubSeq(screens, 1, i - 1) \in Seq(ScreenNames)
      /\ SubSeq(screens, i + 1, Len(screens)) \in Seq(ScreenNames)
  BY DEF PlacesTypeOK
<1> QED
  BY <1>1 DEF Without

LEMMA ScreensKeepPlaces ==
  ASSUME PlacesTypeOK, NEW name \in ScreenNames,
         Connect(name) \/ Disconnect(name) \/ Focus(name)
  PROVE  PlacesTypeOK'
<1>1. UNCHANGED <<targetScreenName, cursorVisible>>
  BY DEF Connect, Disconnect, Focus, sessionVars
<1>2. CASE Connect(name)
  <2>1. screens' \in Seq(ScreenNames) /\ focusedMonitor' = focusedMonitor
    BY <1>2 DEF Connect, PlacesTypeOK
  <2> QED
    BY <1>1, <2>1 DEF PlacesTypeOK
<1>3. CASE Disconnect(name)
  <2>1. PICK i \in DOMAIN screens :
          /\ screens' = Without(i)
          /\ focusedMonitor' = IF focusedMonitor = name
                               THEN SourceById(Without(i), None)
                               ELSE focusedMonitor
    BY <1>3 DEF Disconnect
  <2>2. Without(i) \in Seq(ScreenNames)
    BY OneScreenLess
  <2>3. focusedMonitor' \in ScreenNames \cup {None}
    BY <2>1, <2>2, ChosenFromList DEF PlacesTypeOK
  <2> QED
    BY <1>1, <2>1, <2>2, <2>3 DEF PlacesTypeOK
<1>4. CASE Focus(name)
  BY <1>1, <1>4 DEF Focus, PlacesTypeOK
<1> QED
  BY <1>2, <1>3, <1>4

LEMMA OverlayStepKeepsPlaces ==
  OverlayInv /\ PlacesTypeOK /\ [OverlayNext]_typerVars => PlacesTypeOK'
<1> SUFFICES ASSUME OverlayInv, PlacesTypeOK, [OverlayNext]_typerVars
             PROVE  PlacesTypeOK'
  OBVIOUS
<1>1. ASSUME UNCHANGED <<targetScreenName, hostVars>>, cursorVisible' \in BOOLEAN
      PROVE  PlacesTypeOK'
  BY <1>1 DEF hostVars, PlacesTypeOK
<1>2. CASE ServiceStep
  BY <1>1, <1>2 DEF ServiceStep, SessionWatches, PlacesTypeOK
<1>10. CASE InjectService
  BY <1>10 DEF InjectService, SessionWatches, PlacesTypeOK
<1>3. CASE Open
  <2>1. summons \in Seq(Payloads) /\ summons # <<>>
    BY <1>3 DEF OverlayInv, ViewInv, ServiceTypeOK, Open, TakeSummons
  <2>2. Head(summons) \in Payloads
    BY <2>1
  <2>3. Head(summons).screenName \in ScreenNames \cup {None}
    BY <2>2 DEF Payloads
  <2> QED
    BY <1>3, <2>3 DEF Open, StartSession, hostVars, PlacesTypeOK
<1>4. CASE Close
  BY <1>1, <1>4 DEF Close, EndSession, PlacesTypeOK
<1>5. CASE Toggle
  <2>1. CASE EndSession
    BY <1>1, <2>1 DEF EndSession, PlacesTypeOK
  <2>2. CASE StartSession(None)
    BY <2>2 DEF StartSession, hostVars, PlacesTypeOK
  <2> QED
    BY <1>5, <2>1, <2>2 DEF Toggle, Dismiss
<1>6. CASE Key
  <2>1. CASE EscapeKey
    BY <1>1, <2>1 DEF EscapeKey, Dismiss, EndSession, hostVars, PlacesTypeOK
  <2>2. ASSUME NEW isAutoRepeat \in BOOLEAN,
               AltKey(isAutoRepeat) \/ CapsLockKey(isAutoRepeat)
        PROVE  PlacesTypeOK'
    BY <1>1, <2>2 DEF AltKey, CapsLockKey, Pressed, PlacesTypeOK
  <2>3. CASE ModifierKey \/ BackspaceKey \/ OtherKey
    BY <1>1, <2>3 DEF ModifierKey, BackspaceKey, OtherKey, Pressed, PlacesTypeOK
  <2> QED
    BY <1>6, <2>1, <2>2, <2>3 DEF Key
<1>7. CASE BlinkCursor
  <2>1. cursorVisible' \in BOOLEAN
    BY <1>7 DEF BlinkCursor, PlacesTypeOK
  <2> QED
    BY <1>1, <1>7, <2>1 DEF BlinkCursor
<1>8. CASE ScreenChange
  BY <1>8, ScreensKeepPlaces DEF ScreenChange
<1>9. CASE UNCHANGED typerVars
  BY <1>1, <1>9 DEF typerVars, overlayVars, sessionVars, PlacesTypeOK
<1> QED
  BY <1>2, <1>3, <1>4, <1>5, <1>6, <1>7, <1>8, <1>9, <1>10 DEF OverlayNext

LEMMA InitEstablishesPlaces == OverlayInit => PlacesTypeOK
<1> SUFFICES ASSUME OverlayInit PROVE PlacesTypeOK
  OBVIOUS
<1>1. PICK name \in ScreenNames : screens = <<name>>
  BY DEF OverlayInit
<1>2. screens[1] = name /\ screens \in Seq(ScreenNames)
  BY <1>1
<1> QED
  BY <1>1, <1>2 DEF OverlayInit, PlacesTypeOK

\* The variables of the overlay and of its service keep their types, for any
\* number of screens that come and go.
THEOREM OverlayTypeCorrect == OverlaySpec => []OverlayTypeOK
<1>1. OverlayInv /\ PlacesTypeOK => OverlayTypeOK
  <2> SUFFICES ASSUME OverlayInv, PlacesTypeOK PROVE OverlayTypeOK
    OBVIOUS
  <2>1. ServiceTypeOK
    BY DEF OverlayInv, ViewInv
  <2>2. SessionTypeOK /\ service \in BOOLEAN
    BY DEF OverlayInv, SessionInv
  <2> QED
    BY <2>1, <2>2 DEF SessionTypeOK, PlacesTypeOK, OverlayTypeOK
<1> QED
  BY <1>1, OverlayInitEstablishesInv, OverlayStepKeepsInv,
     InitEstablishesPlaces, OverlayStepKeepsPlaces, PTL DEF OverlaySpec

\* An overlay that was asked for by name stays on its screen while that is
\* connected, and an open overlay is on some screen while any is, for any number
\* of screens.  One without a name follows the focus, and one whose screen went
\* moves back when it returns.
THEOREM OverlayAlwaysKeepsScreen == OverlaySpec => OverlayKeepsScreen
<1> DEFINE Kept ==
      opened /\ opened' /\ targetScreenName' = targetScreenName =>
        /\ screens' # <<>> => \E i \in DOMAIN screens' : targetScreen' = screens'[i]
        /\ targetScreenName # None /\ targetScreen = targetScreenName
             /\ (\E i \in DOMAIN screens' : screens'[i] = targetScreenName)
             => targetScreen' = targetScreen
<1>1. PlacesTypeOK' => Kept
  <2> SUFFICES ASSUME PlacesTypeOK' PROVE Kept
    OBVIOUS
  <2>1. screens' \in Seq(ScreenNames)
    BY DEF PlacesTypeOK
  <2>2. screens' # <<>> => \E i \in DOMAIN screens' : targetScreen' = screens'[i]
    BY <2>1, ChosenFromList DEF targetScreen, resolveScreen
  <2>3. ASSUME targetScreenName' = targetScreenName, targetScreenName # None,
               targetScreen = targetScreenName,
               \E i \in DOMAIN screens' : screens'[i] = targetScreenName
        PROVE  targetScreen' = targetScreen
    BY <2>3 DEF targetScreen, resolveScreen, SourceById
  <2> QED
    BY <2>2, <2>3
<1>2. OverlayInv /\ PlacesTypeOK /\ [OverlayNext]_typerVars => [Kept]_typerVars
  BY <1>1, OverlayStepKeepsPlaces
<1> QED
  BY <1>2, OverlayInitEstablishesInv, OverlayStepKeepsInv,
     InitEstablishesPlaces, OverlayStepKeepsPlaces, PTL
     DEF OverlaySpec, OverlayKeepsScreen

-----------------------------------------------------------------------------
(* Keys *)

LEMMA TypingReveals ==
  OverlayInv /\ OtherKey
    => Revealed' = AtMost(Length, Revealed + CharactersPerKey)
<1> SUFFICES ASSUME OverlayInv, OtherKey
             PROVE  Revealed' = AtMost(Length, Revealed + CharactersPerKey)
  OBVIOUS
<1>1. /\ Length \in Nat /\ progress \in Nat
      /\ CharactersPerKey \in Nat \ {0}
  BY OverlayAssumption, LengthOfView DEF OverlayInv, SessionInv, SessionTypeOK
<1>2. Length' = Length
  BY SameViewStays DEF OtherKey, Pressed, hostVars
<1>3. IF Length > 0
      THEN progress' = Advance(progress, CharactersPerKey, Length)
      ELSE progress' = progress
  BY <1>1 DEF OtherKey
<1>4. /\ Revealed = AtMost(Length, progress)
      /\ Revealed' = AtMost(Length, progress')
  BY <1>2 DEF Revealed, Shown
<1>5. CASE Length > 0
  <2>1. progress' = AtLeast(0, AtMost(Length, progress + CharactersPerKey))
    BY <1>1, <1>3, <1>5 DEF Advance, Clamp, AtLeast
  <2> QED
    BY <1>1, <1>4, <2>1 DEF AtLeast, AtMost
<1>6. CASE ~(Length > 0)
  BY <1>1, <1>3, <1>4, <1>6 DEF AtMost
<1> QED
  BY <1>5, <1>6

LEMMA BackspaceHides ==
  OverlayInv /\ BackspaceKey /\ ~replaced
    => Revealed' = AtLeast(0, Revealed - CharactersPerKey)
<1> SUFFICES ASSUME OverlayInv, BackspaceKey, ~replaced
             PROVE  Revealed' = AtLeast(0, Revealed - CharactersPerKey)
  OBVIOUS
<1>1. /\ Length \in Nat /\ progress \in Nat
      /\ CharactersPerKey \in Nat \ {0}
  BY OverlayAssumption, LengthOfView DEF OverlayInv, SessionInv, SessionTypeOK
<1>2. Length' = Length
  BY SameViewStays DEF BackspaceKey, Pressed, hostVars
<1>3. progress' = Retreat(progress, CharactersPerKey, Length)
  BY DEF BackspaceKey
<1>4. progress <= Length
  BY DEF BackspaceKey, Pressed, OverlayInv, SessionInv, ProgressWithinText
<1> QED
  BY <1>1, <1>2, <1>3, <1>4
     DEF Revealed, Shown, Retreat, Clamp, AtLeast, AtMost

\* A key reveals the next characters up to the end, and Backspace, unless the
\* text was replaced before it, hides as many: advance and retreat, both clamped,
\* act on what is on the screen as the README tells, whatever the lengths of the
\* copies that the text is read from.
THEOREM KeysAlwaysActAsTold == OverlaySpec => KeysActAsTold
<1>1. OverlayInv =>
        /\ OtherKey =>
             Revealed' = AtMost(Length, Revealed + CharactersPerKey)
        /\ BackspaceKey /\ ~replaced =>
             Revealed' = AtLeast(0, Revealed - CharactersPerKey)
  BY TypingReveals, BackspaceHides
<1> QED
  BY <1>1, OverlayInvariant, PTL DEF KeysActAsTold

-----------------------------------------------------------------------------
(* The panels with their service: every panel shows the selection *)

\* A panel without the service shows the selection too if its binding is gone
\* and it has missed none; if the binding is still there, it gives the panel
\* the right value when the service arrives.
PanelOK(p, selection) ==
  /\ p \in PanelStates
  /\ ~p.missed /\ (p.hacker \/ ~p.bound) => p.dropdownValue = selection

PanelInv ==
  /\ ViewInv
  /\ panel \in [ScreenNames -> PanelStates]
  /\ \A s \in ScreenNames : PanelOK(panel[s], selectedSourceId)

\* Updates of one field keep a panel in order.
LEMMA FieldUpdates ==
  ASSUME NEW p, NEW selection, PanelOK(p, selection)
  PROVE  /\ PanelOK([p EXCEPT !.opened = TRUE], selection)
         /\ PanelOK([p EXCEPT !.cursorIndex = 0], selection)
         /\ PanelOK([p EXCEPT !.cursorIndex = launchIndex], selection)
         /\ PanelOK([p EXCEPT !.launchDelay = TRUE], selection)
<1>1. PanelOK([p EXCEPT !.opened = TRUE], selection)
  BY DEF PanelOK, PanelStates
<1>2. PanelOK([p EXCEPT !.cursorIndex = 0], selection)
  BY DEF PanelOK, PanelStates, launchIndex
<1>3. PanelOK([p EXCEPT !.cursorIndex = launchIndex], selection)
  BY DEF PanelOK, PanelStates, launchIndex
<1>4. PanelOK([p EXCEPT !.launchDelay = TRUE], selection)
  BY DEF PanelOK, PanelStates
<1> QED
  BY <1>1, <1>2, <1>3, <1>4

\* One panel changed, the selection did not.
LEMMA OnePanelStep ==
  ASSUME PanelInv, UNCHANGED <<serviceVars>>,
         NEW s \in ScreenNames, NEW p,
         panel' = [panel EXCEPT ![s] = p],
         PanelOK(p, selectedSourceId)
  PROVE  PanelInv'
<1>1. ViewInv'
  BY StepKeepsInv DEF PanelInv
<1>2. selectedSourceId' = selectedSourceId
  BY DEF serviceVars
<1>3. p \in PanelStates
  BY DEF PanelOK
<1>4. \A t \in ScreenNames : PanelOK(panel'[t], selectedSourceId')
  BY <1>2 DEF PanelInv
<1> QED
  BY <1>1, <1>3, <1>4 DEF PanelInv

\* All panels are told of the selection, after at most one of them changed.  A
\* new selection puts every panel in order: those with the service are told of
\* it, the others have their binding or have missed it.
LEMMA NotifiedStep ==
  ASSUME ViewInv', selectedSourceId' \in SourceIds,
         NEW panels \in [ScreenNames -> PanelStates],
         selectedSourceId' = selectedSourceId =>
           \A s \in ScreenNames : PanelOK(panels[s], selectedSourceId'),
         panel' = Notified(panels)
  PROVE  PanelInv'
<1>1. ASSUME NEW s \in ScreenNames
      PROVE  PanelOK(panel'[s], selectedSourceId')
  <2>1. CASE selectedSourceId' = selectedSourceId
    BY <2>1 DEF Notified
  <2>2. CASE selectedSourceId' # selectedSourceId
    <3> DEFINE told == [panels[s] EXCEPT !.dropdownValue = selectedSourceId',
                                         !.bound = FALSE, !.missed = FALSE]
               rest == [panels[s] EXCEPT !.missed = @ \/ ~panels[s].bound]
    <3>1. panels[s] \in PanelStates
      OBVIOUS
    <3>2. panel'[s] = IF panels[s].hacker THEN told ELSE rest
      BY <2>2 DEF Notified
    <3>3. PanelOK(told, selectedSourceId')
      BY <3>1 DEF PanelOK, PanelStates
    <3>4. /\ rest \in PanelStates
          /\ rest.bound = panels[s].bound
          /\ rest.hacker = panels[s].hacker
          /\ rest.missed = (panels[s].missed \/ ~panels[s].bound)
      BY <3>1 DEF PanelStates
    <3>5. CASE panels[s].hacker
      BY <3>2, <3>3, <3>5
    <3>6. CASE ~panels[s].hacker
      <4> HIDE DEF rest
      <4> QED
        BY <3>2, <3>4, <3>6 DEF PanelOK
    <3> QED
      BY <3>5, <3>6
  <2> QED
    BY <2>1, <2>2
<1>2. \A s \in ScreenNames : panel'[s] \in PanelStates
  BY <1>1 DEF PanelOK
<1>3. panel' \in [ScreenNames -> PanelStates]
  BY <1>2 DEF Notified
<1> QED
  BY <1>1, <1>3 DEF PanelInv

-----------------------------------------------------------------------------
(* The actions of a panel *)

LEMMA PanelInputStep ==
  ASSUME PanelInv, NEW s \in ScreenNames, PanelInput(s)
  PROVE  PanelInv'
<1> DEFINE p == panel[s]
<1>0. /\ p \in PanelStates
      /\ PanelOK(p, selectedSourceId)
      /\ selectedSourceId \in SourceIds
  BY DEF PanelInv, ViewInv, ServiceTypeOK
<1>1. CASE InjectHacker(s)
  <2> DEFINE value == IF ~p.bound THEN p.dropdownValue
                      ELSE IF p.hacker THEN None ELSE selectedSourceId
             q == [p EXCEPT !.hacker = ~@, !.dropdownValue = value]
  <2>1. /\ UNCHANGED serviceVars
        /\ panel' = [panel EXCEPT ![s] = q]
    BY <1>1 DEF InjectHacker, PanelInv
  <2>2. value \in SourceIds \cup {None}
    BY <1>0 DEF PanelStates
  <2>3. /\ q \in PanelStates
        /\ q.hacker = ~p.hacker
        /\ q.bound = p.bound /\ q.missed = p.missed
        /\ q.dropdownValue = value
    <3> HIDE DEF value
    <3> QED
      BY <1>0, <2>2 DEF PanelStates
  <2>4. PanelOK(q, selectedSourceId)
    <3> HIDE DEF q
    <3> QED
      BY <1>0, <2>3 DEF PanelOK
  <2> QED
    BY <2>1, <2>4, OnePanelStep
<1>2. CASE TogglePanel(s)
  <2> DEFINE q == IF p.opened THEN Shut(p)
                  ELSE [p EXCEPT !.opened = TRUE, !.cursorIndex = 0]
  <2>1. UNCHANGED serviceVars /\ panel' = [panel EXCEPT ![s] = q]
    BY <1>2 DEF TogglePanel, PanelInv
  <2>2. PanelOK(Shut(p), selectedSourceId)
    BY <1>0 DEF PanelOK, PanelStates, Shut
  <2>3. PanelOK([p EXCEPT !.opened = TRUE, !.cursorIndex = 0], selectedSourceId)
    <3> DEFINE r == [p EXCEPT !.opened = TRUE]
    <3>1. PanelOK(r, selectedSourceId)
      BY <1>0, FieldUpdates
    <3> HIDE DEF r
    <3>2. PanelOK([r EXCEPT !.cursorIndex = 0], selectedSourceId)
      BY <3>1, FieldUpdates
    <3> QED
      BY <3>2 DEF r
  <2>4. PanelOK(q, selectedSourceId)
    BY <2>2, <2>3
  <2> QED
    BY <2>1, <2>4, OnePanelStep
<1>3. CASE ClosePanel(s)
  <2> DEFINE q == Shut(p)
  <2>1. UNCHANGED serviceVars /\ panel' = [panel EXCEPT ![s] = q]
    BY <1>3 DEF ClosePanel, PanelInv
  <2>2. PanelOK(q, selectedSourceId)
    BY <1>0 DEF PanelOK, PanelStates, Shut
  <2> QED
    BY <2>1, <2>2, OnePanelStep
<1>4. ASSUME NEW delta \in {-1, 1}, MoveCursor(s, delta) PROVE PanelInv'
  <2> DEFINE q == [p EXCEPT !.cursorIndex = Clamp(@ + delta, 0, launchIndex)]
  <2>1. UNCHANGED serviceVars /\ panel' = [panel EXCEPT ![s] = q]
    BY <1>4 DEF MoveCursor, PanelInv
  <2>2. Clamp(p.cursorIndex + delta, 0, launchIndex) \in 0..launchIndex
    BY <1>0 DEF PanelStates, Clamp, AtLeast, AtMost, launchIndex
  <2>3. PanelOK(q, selectedSourceId)
    BY <1>0, <2>2 DEF PanelOK, PanelStates
  <2> QED
    BY <2>1, <2>3, OnePanelStep
<1>5. CASE Hover(s)
  <2> DEFINE q == [p EXCEPT !.cursorIndex = 0]
  <2>1. UNCHANGED serviceVars /\ panel' = [panel EXCEPT ![s] = q]
    BY <1>5 DEF Hover, PanelInv
  <2>2. PanelOK(q, selectedSourceId)
    BY <1>0 DEF PanelOK, PanelStates, launchIndex
  <2> QED
    BY <2>1, <2>2, OnePanelStep
<1>6. CASE ActivateDropdown(s)
  <2> DEFINE q == [p EXCEPT !.popupOpen = TRUE]
  <2>1. UNCHANGED serviceVars /\ panel' = [panel EXCEPT ![s] = q]
    BY <1>6 DEF ActivateDropdown, PanelInv
  <2>2. PanelOK(q, selectedSourceId)
    BY <1>0, <2>1 DEF PanelOK, PanelStates
  <2> QED
    BY <2>1, <2>2, OnePanelStep
<1>7. CASE ClosePopup(s)
  <2> DEFINE q == [p EXCEPT !.popupOpen = FALSE]
  <2>1. UNCHANGED serviceVars /\ panel' = [panel EXCEPT ![s] = q]
    BY <1>7 DEF ClosePopup, PanelInv
  <2>2. PanelOK(q, selectedSourceId)
    BY <1>0 DEF PanelOK, PanelStates
  <2> QED
    BY <2>1, <2>2, OnePanelStep
<1> QED
  BY <1>1, <1>2, <1>3, <1>4, <1>5, <1>6, <1>7 DEF PanelInput

LEMMA AskStep ==
  ASSUME PanelInv, NEW s \in ScreenNames, AskToLaunch(s)
  PROVE  PanelInv'
<1> DEFINE q == LaunchSelected(s)
<1>1. UNCHANGED serviceVars /\ panel' = [panel EXCEPT ![s] = q]
  BY DEF AskToLaunch, ActivateLaunch, ClickLaunch
<1>2. /\ panel[s] \in PanelStates
      /\ PanelOK(panel[s], selectedSourceId)
  BY DEF PanelInv
<1>3. PanelOK(Shut(panel[s]), selectedSourceId)
  BY <1>2 DEF PanelOK, PanelStates, Shut
<1>4. ASSUME NEW p, PanelOK(p, selectedSourceId)
      PROVE  /\ PanelOK([p EXCEPT !.cursorIndex = launchIndex], selectedSourceId)
             /\ PanelOK([p EXCEPT !.cursorIndex = launchIndex,
                                  !.launchDelay = TRUE], selectedSourceId)
  <2> DEFINE r == [p EXCEPT !.cursorIndex = launchIndex]
  <2>1. PanelOK(r, selectedSourceId)
    BY <1>4, FieldUpdates
  <2> HIDE DEF r
  <2>2. PanelOK([r EXCEPT !.launchDelay = TRUE], selectedSourceId)
    BY <2>1, FieldUpdates
  <2> QED
    BY <2>1, <2>2 DEF r
<1>5. PanelOK(q, selectedSourceId)
  BY <1>2, <1>3, <1>4 DEF LaunchSelected
<1> QED
  BY <1>1, <1>5, OnePanelStep

\* The service sees a launch of its own when the delay ends.
LEMMA DelayStep ==
  ASSUME PanelInv, NEW s \in ScreenNames, LaunchDelayEnds(s)
  PROVE  PanelInv'
<1> DEFINE q == [panel[s] EXCEPT !.launchDelay = FALSE]
<1>0. /\ panel[s] \in PanelStates
      /\ PanelOK(panel[s], selectedSourceId)
      /\ panel \in [ScreenNames -> PanelStates]
      /\ shell \in BOOLEAN
      /\ summons \in Seq(Payloads)
      /\ selectedSourceId \in SourceIds
  BY DEF PanelInv, ViewInv, ServiceTypeOK
<1>1. /\ panel' = [panel EXCEPT ![s] = q]
      /\ UNCHANGED <<shell, viewVars>>
      /\ Launch(s) \/ UNCHANGED summons
  BY DEF LaunchDelayEnds
<1>2. summons' \in Seq(Payloads)
  BY <1>0, <1>1, LaunchKeepsType DEF viewVars
<1>3. ViewInv'
  BY <1>0, <1>1, <1>2, IdleStep DEF PanelInv
<1>4. PanelOK(q, selectedSourceId) /\ q \in PanelStates
  BY <1>0 DEF PanelOK, PanelStates
<1>5. selectedSourceId' = selectedSourceId
  BY <1>1 DEF viewVars
<1>6. panel' \in [ScreenNames -> PanelStates]
  BY <1>0, <1>1, <1>4
<1>7. \A t \in ScreenNames : PanelOK(panel'[t], selectedSourceId')
  BY <1>0, <1>1, <1>4, <1>5 DEF PanelInv
<1> QED
  BY <1>3, <1>6, <1>7 DEF PanelInv

\* Picking from the dropdown shows the choice in one panel, the notification
\* brings the others along.
LEMMA PickStep ==
  ASSUME PanelInv, NEW s \in ScreenNames, NEW id \in SourceIds,
         PickLanguage(s, id)
  PROVE  PanelInv'
<1> DEFINE q == [panel[s] EXCEPT !.dropdownValue = id, !.bound = FALSE,
                                 !.popupOpen = FALSE, !.cursorIndex = 0]
           panels == [panel EXCEPT ![s] = q]
<1>0. /\ panel \in [ScreenNames -> PanelStates]
      /\ panel[s] \in PanelStates
      /\ PanelOK(panel[s], selectedSourceId)
      /\ ServiceTypeOK
  BY DEF PanelInv, ViewInv
<1>1. /\ SelectSource(id)
      /\ UNCHANGED <<shell, summons>>
  BY DEF PickLanguage
<1>2. panel' = Notified(panels)
  BY <1>0 DEF PickLanguage
<1>3. ViewInv'
  BY <1>0, <1>1, SelectStep DEF PanelInv, ServiceTypeOK
<1>4. SourceById(Catalog, id) = id
  BY LookupFindsEntry
<1>5. selectedSourceId' = id
  BY <1>1, <1>4, NoneAssumption DEF SelectSource, viewVars
<1>6. q \in PanelStates /\ PanelOK(q, id)
  <2> DEFINE r == [panel[s] EXCEPT !.dropdownValue = id, !.bound = FALSE,
                                   !.popupOpen = FALSE]
  <2>1. PanelOK(r, id)
    BY <1>0 DEF PanelOK, PanelStates
  <2> HIDE DEF r
  <2>2. PanelOK([r EXCEPT !.cursorIndex = 0], id)
    BY <2>1, FieldUpdates
  <2>4. PanelOK(q, id)
    BY <2>2 DEF r
  <2> HIDE DEF q
  <2> QED
    BY <2>4 DEF PanelOK
<1>7. panels \in [ScreenNames -> PanelStates]
  BY <1>0, <1>6
<1>8. selectedSourceId' = selectedSourceId =>
        \A t \in ScreenNames : PanelOK(panels[t], selectedSourceId')
  BY <1>0, <1>5, <1>6 DEF PanelInv
<1> QED
  BY <1>2, <1>3, <1>5, <1>7, <1>8, NotifiedStep

-----------------------------------------------------------------------------
LEMMA PanelInitEstablishesInv == PanelInit => PanelInv
<1> SUFFICES ASSUME PanelInit PROVE PanelInv
  OBVIOUS
<1>1. ViewInv
  BY InitEstablishesInv DEF PanelInit
<1>2. FreshPanel \in PanelStates /\ PanelOK(FreshPanel, selectedSourceId)
  BY DEF FreshPanel, PanelStates, PanelOK, launchIndex
<1> QED
  BY <1>1, <1>2 DEF PanelInit, PanelInv

LEMMA PanelStepKeepsInv == PanelInv /\ [PanelNext]_panelVars => PanelInv'
<1> SUFFICES ASSUME PanelInv, [PanelNext]_panelVars PROVE PanelInv'
  OBVIOUS
<1>1. CASE ServiceNext /\ panel' = Notified(panel)
  <2>1. ViewInv'
    BY <1>1, StepKeepsInv DEF PanelInv
  <2>2. selectedSourceId' \in SourceIds
    BY <2>1 DEF ViewInv, ServiceTypeOK
  <2> QED
    BY <1>1, <2>1, <2>2, NotifiedStep DEF PanelInv
<1>2. CASE UNCHANGED panelVars
  <2>1. ViewInv'
    BY <1>2, StepKeepsInv DEF panelVars, PanelInv
  <2> QED
    BY <1>2, <2>1 DEF panelVars, serviceVars, PanelInv
<1> QED
  BY <1>1, <1>2, PanelInputStep, AskStep, DelayStep, PickStep DEF PanelNext

\* All dropdowns show the one selection (Panel.qml:59-64, 135-148), however
\* many panels, commands and late summons change it, and although the first
\* assignment to a dropdown removes its binding; but for a panel that has
\* missed a selection because it had lost the service as well.
THEOREM DropdownAlwaysShowsSelection == PanelSpec => []DropdownShowsSelection
<1>1. PanelInv => DropdownShowsSelection
  BY DEF PanelInv, PanelOK, DropdownShowsSelection
<1> QED
  BY <1>1, PanelInitEstablishesInv, PanelStepKeepsInv, PTL DEF PanelSpec

\* The panels keep their types.
THEOREM PanelTypeCorrect == PanelSpec => []PanelTypeOK
<1>1. PanelInv => PanelTypeOK
  BY DEF PanelInv, ViewInv, PanelTypeOK
<1> QED
  BY <1>1, PanelInitEstablishesInv, PanelStepKeepsInv, PTL DEF PanelSpec

-----------------------------------------------------------------------------
(* The service keeps its rules *)

\* A launch is what the command line's launch of the selected source is.
LEMMA LaunchIsServiceStep ==
  ASSUME NEW s \in ScreenNames, LaunchDelayEnds(s)
  PROVE  ServiceInput \/ UNCHANGED serviceVars
<1>1. CASE panel[s].hacker
  <2>1. IpcLaunch(None, s)
    BY <1>1 DEF LaunchDelayEnds, IpcLaunch
  <2> QED
    BY <2>1 DEF ServiceInput
<1>2. CASE ~panel[s].hacker
  BY <1>2 DEF LaunchDelayEnds, serviceVars, viewVars
<1> QED
  BY <1>1, <1>2

LEMMA PickIsServiceStep ==
  ASSUME NEW s \in ScreenNames, NEW id \in SourceIds, PickLanguage(s, id)
  PROVE  ServiceInput
<1>1. IpcSelect(id)
  BY DEF PickLanguage, IpcSelect
<1> QED
  BY <1>1 DEF ServiceInput

LEMMA OverlayLeavesService ==
  ASSUME Close \/ Toggle \/ InjectService \/ Key \/ BlinkCursor \/ ScreenChange
  PROVE  UNCHANGED serviceVars
BY DEF Close, Toggle, InjectService, Key, EscapeKey, AltKey, CapsLockKey, ModifierKey,
       BackspaceKey, OtherKey, Pressed, BlinkCursor, ScreenChange, Connect,
       Disconnect, Focus

LEMMA PanelLeavesService ==
  ASSUME NEW s \in ScreenNames, PanelInput(s) \/ AskToLaunch(s)
  PROVE  UNCHANGED serviceVars
BY DEF PanelInput, AskToLaunch, InjectHacker, TogglePanel, ClosePanel,
       MoveCursor, Hover, ActivateDropdown, ClosePopup, ActivateLaunch,
       ClickLaunch

LEMMA StepKeepsServiceRules ==
  service \in BOOLEAN /\ [Next]_vars => [ServiceNext]_serviceVars
<1> SUFFICES ASSUME service \in BOOLEAN, [Next]_vars
             PROVE  [ServiceNext]_serviceVars
  OBVIOUS
<1>1. CASE ServiceRuns \/ AskByCommand
  BY <1>1 DEF ServiceRuns, AskByCommand, ServiceNext, ServiceInput
<1>2. CASE OverlayOpens
  BY <1>2 DEF OverlayOpens, Open, ServiceNext
<1>3. CASE OverlayToggles \/ OverlayRuns
  BY <1>3, OverlayLeavesService DEF OverlayToggles, OverlayRuns
<1>4. ASSUME NEW s \in ScreenNames, AskByPanel(s) \/ PanelRuns(s)
      PROVE  UNCHANGED serviceVars
  BY <1>4, PanelLeavesService DEF AskByPanel, PanelRuns
<1>5. ASSUME NEW s \in ScreenNames, PanelLaunches(s)
      PROVE  [ServiceNext]_serviceVars
  BY <1>5, LaunchIsServiceStep DEF PanelLaunches, ServiceNext
<1>6. ASSUME NEW s \in ScreenNames, NEW id \in SourceIds, PanelPicks(s, id)
      PROVE  [ServiceNext]_serviceVars
  BY <1>6, PickIsServiceStep DEF PanelPicks, ServiceNext
<1>7. ASSUME NEW s \in ScreenNames,
             ScreenComes(s) \/ ScreenGoes(s) \/ FocusMoves(s)
      PROVE  UNCHANGED serviceVars
  BY <1>7 DEF ScreenComes, ScreenGoes, FocusMoves, Connect, Disconnect, Focus
<1>8. CASE UNCHANGED vars
  BY <1>8 DEF vars, typerVars
<1> QED
  BY <1>1, <1>2, <1>3, <1>4, <1>5, <1>6, <1>7, <1>8 DEF Next

-----------------------------------------------------------------------------
(* The overlay keeps its specification *)

SwitchInv ==
  /\ opened \in BOOLEAN
  /\ service \in BOOLEAN
  /\ replaced \in BOOLEAN
  /\ replaced => opened

\* Each step of the plugin is one that the overlay alone may take.
LEMMA StepIsOverlayStep == SwitchInv /\ [Next]_vars => [OverlayNext]_typerVars
<1> SUFFICES ASSUME SwitchInv, [Next]_vars PROVE [OverlayNext]_typerVars
  OBVIOUS
<1>1. CASE ServiceRuns \/ AskByCommand
  <2>1. ServiceInput
    BY <1>1 DEF ServiceRuns, AskByCommand, ServiceInput
  <2>2. ServiceStep
    BY <1>1, <2>1 DEF ServiceRuns, AskByCommand, Witnessed, ServiceStep
  <2> QED
    BY <2>2 DEF OverlayNext
<1>2. CASE OverlayOpens \/ OverlayToggles \/ OverlayRuns
  BY <1>2 DEF OverlayOpens, OverlayToggles, OverlayRuns, OverlayNext
<1>3. ASSUME NEW s \in ScreenNames, AskByPanel(s) \/ PanelRuns(s)
      PROVE  [OverlayNext]_typerVars
  BY <1>3, PanelLeavesService DEF AskByPanel, PanelRuns, typerVars
<1>4. ASSUME NEW s \in ScreenNames, PanelLaunches(s)
      PROVE  [OverlayNext]_typerVars
  <2>1. UNCHANGED <<overlayVars, viewVars>>
    BY <1>4 DEF PanelLaunches, LaunchDelayEnds
  <2>2. CASE ServiceInput
    <3>1. /\ UNCHANGED <<opened, targetScreenName, progress, accessCount,
                         deniedCount, accessState, cursorVisible, history>>
          /\ UNCHANGED hostVars
      BY <2>1 DEF overlayVars, sessionVars
    <3>2. InView' = InView /\ replaced' = replaced
      BY <2>1 DEF InView, viewVars, overlayVars, sessionVars, hostVars
    <3>3. replaced' = (opened /\ (replaced \/ InView \notin {None, InView'}))
      BY <3>2 DEF SwitchInv
    <3>4. SessionWatches
      BY <3>1, <3>3 DEF SessionWatches
    <3>5. ServiceStep
      BY <2>2, <3>1, <3>4 DEF ServiceStep
    <3> QED
      BY <3>5 DEF OverlayNext
  <2>3. CASE UNCHANGED serviceVars
    BY <2>1, <2>3 DEF typerVars
  <2> QED
    BY <1>4, <2>2, <2>3, LaunchIsServiceStep DEF PanelLaunches
<1>5. ASSUME NEW s \in ScreenNames, NEW id \in SourceIds, PanelPicks(s, id)
      PROVE  [OverlayNext]_typerVars
  <2>1. ServiceInput
    BY <1>5, PickIsServiceStep DEF PanelPicks
  <2>2. ServiceStep
    BY <1>5, <2>1 DEF PanelPicks, ServiceStep
  <2> QED
    BY <2>2 DEF OverlayNext
<1>6. ASSUME NEW s \in ScreenNames,
             ScreenComes(s) \/ ScreenGoes(s) \/ FocusMoves(s)
      PROVE  [OverlayNext]_typerVars
  BY <1>6 DEF ScreenComes, ScreenGoes, FocusMoves, ScreenChange, OverlayNext
<1>7. CASE UNCHANGED vars
  BY <1>7 DEF vars
<1> QED
  BY <1>1, <1>2, <1>3, <1>4, <1>5, <1>6, <1>7 DEF Next

LEMMA OverlayStepKeepsSwitch == SwitchInv /\ [OverlayNext]_typerVars => SwitchInv'
<1> SUFFICES ASSUME SwitchInv, [OverlayNext]_typerVars PROVE SwitchInv'
  OBVIOUS
<1>1. ASSUME SessionWatches, service' \in BOOLEAN PROVE SwitchInv'
  BY <1>1 DEF SessionWatches, SwitchInv
<1>2. CASE ServiceStep \/ InjectService
  BY <1>1, <1>2 DEF ServiceStep, InjectService, hostVars, SwitchInv
<1>3. CASE Open \/ Close \/ Toggle \/ EscapeKey
  BY <1>3 DEF Open, Close, Toggle, Dismiss, EscapeKey, StartSession,
              EndSession, hostVars, SwitchInv
<1>4. CASE UNCHANGED <<opened, replaced, service>>
  BY <1>4 DEF SwitchInv
<1>5. CASE BackspaceKey \/ OtherKey
  <2>1. UNCHANGED <<opened, service>>
    BY <1>5 DEF BackspaceKey, OtherKey, Pressed, hostVars
  <2>2. replaced' = FALSE \/ UNCHANGED <<opened, replaced, service>>
    BY <1>5, <2>1 DEF BackspaceKey, OtherKey
  <2>3. ASSUME replaced' = FALSE PROVE SwitchInv'
    BY <2>1, <2>3, Zenon DEF SwitchInv
  <2> QED
    BY <1>4, <2>2, <2>3
<1>6. ASSUME Key, ~EscapeKey, ~BackspaceKey, ~OtherKey
      PROVE  UNCHANGED <<opened, replaced, service>>
  BY <1>6 DEF Key, AltKey, CapsLockKey, ModifierKey, Pressed, hostVars
<1>7. CASE BlinkCursor \/ ScreenChange \/ UNCHANGED typerVars
  BY <1>4, <1>7 DEF BlinkCursor, ScreenChange, Connect, Disconnect, Focus,
                    sessionVars, hostVars, typerVars, overlayVars
<1> QED
  BY <1>2, <1>3, <1>4, <1>5, <1>6, <1>7 DEF OverlayNext

LEMMA StepKeepsSwitch == SwitchInv /\ [Next]_vars => SwitchInv'
BY StepIsOverlayStep, OverlayStepKeepsSwitch

LEMMA InitEstablishesSwitch == Init => SwitchInv
BY DEF Init, OverlayInit, SwitchInv

\* In the plugin the overlay behaves as Overlay.tla says it does alone: panels
\* and commands are to it what the service's callers are there.
THEOREM PluginImplementsOverlay == Spec => OverlaySpec
<1>1. Init => OverlayInit
  BY DEF Init
<1> QED
  BY <1>1, InitEstablishesSwitch, StepKeepsSwitch, StepIsOverlayStep, PTL
     DEF Spec, OverlaySpec

\* So all that is proved of the overlay holds in the plugin.
COROLLARY PluginKeepsSessions == Spec => []OverlayInv
BY PluginImplementsOverlay, OverlayInvariant, PTL

\* Panels, overlay, shell and commands together change the service only by its
\* own operations, so whatever its specification promises it keeps in the
\* plugin.
THEOREM PluginKeepsServiceRules == Spec => ServiceRules
<1>1. Init => ServiceInit
  BY DEF Init, OverlayInit
<1>2. SwitchInv /\ [Next]_vars => [ServiceNext]_serviceVars
  BY StepKeepsServiceRules DEF SwitchInv
<1> QED
  BY <1>1, <1>2, InitEstablishesSwitch, StepKeepsSwitch, PTL
     DEF Spec, ServiceRules

-----------------------------------------------------------------------------
(* The panels keep showing the selection *)

LEMMA NotifiedServiceStep ==
  PanelInv /\ [ServiceNext]_serviceVars /\ panel' = Notified(panel) => PanelInv'
<1> SUFFICES ASSUME PanelInv, [ServiceNext]_serviceVars, panel' = Notified(panel)
             PROVE  PanelInv'
  OBVIOUS
<1>1. ViewInv'
  BY StepKeepsInv DEF PanelInv
<1>2. selectedSourceId' \in SourceIds
  BY <1>1 DEF ViewInv, ServiceTypeOK
<1> QED
  BY <1>1, <1>2, NotifiedStep DEF PanelInv

LEMMA StepKeepsPanels == PanelInv /\ SwitchInv /\ [Next]_vars => PanelInv'
<1> SUFFICES ASSUME PanelInv, SwitchInv, [Next]_vars PROVE PanelInv'
  OBVIOUS
<1>0. [ServiceNext]_serviceVars
  BY StepKeepsServiceRules DEF SwitchInv
<1>1. CASE ServiceRuns \/ AskByCommand \/ OverlayOpens
  BY <1>0, <1>1, NotifiedServiceStep
     DEF ServiceRuns, AskByCommand, OverlayOpens, Witnessed
<1>2. CASE UNCHANGED panelVars
  BY <1>2, PanelStepKeepsInv
<1>3. ASSUME OverlayToggles \/ OverlayRuns PROVE UNCHANGED panelVars
  BY <1>3, OverlayLeavesService DEF OverlayToggles, OverlayRuns, panelVars
<1>4. ASSUME NEW s \in ScreenNames,
             \/ AskByPanel(s) \/ PanelRuns(s) \/ PanelLaunches(s)
             \/ \E id \in SourceIds : PanelPicks(s, id)
      PROVE  PanelInv'
  BY <1>4, PanelStepKeepsInv
     DEF AskByPanel, PanelRuns, PanelLaunches, PanelPicks, PanelNext
<1>5. ASSUME NEW s \in ScreenNames, ScreenComes(s) \/ FocusMoves(s)
      PROVE  UNCHANGED panelVars
  BY <1>5 DEF ScreenComes, FocusMoves, Connect, Focus, panelVars
<1>6. ASSUME NEW s \in ScreenNames, ScreenGoes(s) PROVE PanelInv'
  <2>1. /\ UNCHANGED serviceVars
        /\ panel' = [panel EXCEPT ![s] = FreshPanel]
    BY <1>6 DEF ScreenGoes, Disconnect
  <2>2. PanelOK(FreshPanel, selectedSourceId)
    BY DEF FreshPanel, PanelStates, PanelOK, launchIndex
  <2> QED
    BY <2>1, <2>2, OnePanelStep
<1>7. ASSUME UNCHANGED vars PROVE UNCHANGED panelVars
  BY <1>7 DEF vars, typerVars, panelVars
<1> QED
  BY <1>1, <1>2, <1>3, <1>4, <1>5, <1>6, <1>7 DEF Next

LEMMA InitEstablishesPanels == Init => PanelInv
BY PanelInitEstablishesInv DEF Init, OverlayInit, PanelInit

\* In the plugin, too, every dropdown shows the selection, a late summons and
\* a bar that is built anew on a screen that returns included, and with the
\* same exception.
THEOREM PluginShowsSelection == Spec => []DropdownShowsSelection
<1>1. PanelInv => DropdownShowsSelection
  BY DEF PanelInv, PanelOK, DropdownShowsSelection
<1> QED
  BY <1>1, InitEstablishesPanels, StepKeepsPanels, InitEstablishesSwitch,
     StepKeepsSwitch, PTL DEF Spec

-----------------------------------------------------------------------------
(* No session nobody asked for *)

AskInv ==
  /\ PanelInv
  /\ SwitchInv
  /\ sessions \in Nat
  /\ asked \in Nat
  /\ NoUninvitedSession

\* Sums that grow by no more than what was asked for.
LEMMA SumsStayWithin ==
  ASSUME NEW a \in Nat, NEW b \in Nat, NEW c \in Nat, NEW d \in Nat,
         NEW b1 \in Nat, NEW c1 \in Nat, NEW i \in Nat, NEW j \in Nat,
         a + b + c <= d, b1 <= b + i, c1 <= c + j
  PROVE  a + b1 + c1 <= d + i + j
OBVIOUS

LEMMA WaitingIsFinite ==
  IsFiniteSet(WaitingPanels) /\ Cardinality(WaitingPanels) \in Nat
BY CountAssumption, FS_Subset, FS_CardinalityType DEF WaitingPanels

\* Notifications leave the delays alone.
LEMMA NotifiedKeepsWaiting ==
  ASSUME panel \in [ScreenNames -> PanelStates],
         NEW panels \in [ScreenNames -> PanelStates],
         \A s \in ScreenNames : panels[s].launchDelay = panel[s].launchDelay,
         panel' = Notified(panels)
  PROVE  WaitingPanels' = WaitingPanels
<1>1. ASSUME NEW s \in ScreenNames
      PROVE  panel'[s].launchDelay = panel[s].launchDelay
  <2>1. panels[s] \in PanelStates
    OBVIOUS
  <2>2. panel'[s] = panels[s]
        \/ panel'[s] = [panels[s] EXCEPT !.dropdownValue = selectedSourceId',
                                         !.bound = FALSE, !.missed = FALSE]
        \/ panel'[s] = [panels[s] EXCEPT !.missed = @ \/ ~panels[s].bound]
    BY DEF Notified
  <2>3. panel'[s].launchDelay = panels[s].launchDelay
    BY <2>1, <2>2 DEF PanelStates
  <2> QED
    BY <2>3
<1> QED
  BY <1>1 DEF WaitingPanels

\* A panel that changes without touching its delay, or the delays of others.
LEMMA OnePanelWaiting ==
  ASSUME panel \in [ScreenNames -> PanelStates],
         NEW s \in ScreenNames, NEW p,
         panel' = [panel EXCEPT ![s] = p]
  PROVE  /\ p.launchDelay = panel[s].launchDelay => WaitingPanels' = WaitingPanels
         /\ p.launchDelay = FALSE => WaitingPanels' = WaitingPanels \ {s}
         /\ WaitingPanels' \subseteq WaitingPanels \cup {s}
<1>1. \A t \in ScreenNames : panel'[t] = IF t = s THEN p ELSE panel[t]
  OBVIOUS
<1> QED
  BY <1>1 DEF WaitingPanels

LEMMA PanelInputKeepsWaiting ==
  ASSUME panel \in [ScreenNames -> PanelStates],
         NEW s \in ScreenNames, PanelInput(s)
  PROVE  WaitingPanels' = WaitingPanels
<1> DEFINE p == panel[s]
<1>0. p \in PanelStates
  OBVIOUS
<1>1. Shut(p).launchDelay = p.launchDelay
  BY <1>0 DEF Shut, PanelStates
<1>2. PICK q : panel' = [panel EXCEPT ![s] = q] /\ q.launchDelay = p.launchDelay
  <2>1. CASE InjectHacker(s)
    <3> DEFINE q == [p EXCEPT
                       !.hacker = ~@,
                       !.dropdownValue =
                          IF ~p.bound THEN @
                          ELSE IF p.hacker THEN None ELSE selectedSourceId]
    <3>1. q.launchDelay = p.launchDelay
      BY <1>0 DEF PanelStates
    <3>2. panel' = [panel EXCEPT ![s] = q]
      BY <2>1 DEF InjectHacker
    <3> QED
      BY <3>1, <3>2
  <2>2. CASE TogglePanel(s)
    <3> DEFINE q == [p EXCEPT !.opened = TRUE, !.cursorIndex = 0]
    <3>1. q.launchDelay = p.launchDelay
      BY <1>0 DEF PanelStates
    <3>2. panel' = [panel EXCEPT ![s] = IF p.opened THEN Shut(p) ELSE q]
      BY <2>2 DEF TogglePanel
    <3> QED
      BY <1>1, <3>1, <3>2
  <2>3. CASE ClosePanel(s)
    BY <1>1, <2>3 DEF ClosePanel
  <2>4. ASSUME NEW delta \in {-1, 1}, MoveCursor(s, delta)
        PROVE  \E q : panel' = [panel EXCEPT ![s] = q]
                      /\ q.launchDelay = p.launchDelay
    <3> DEFINE q == [p EXCEPT !.cursorIndex = Clamp(@ + delta, 0, launchIndex)]
    <3>1. q.launchDelay = p.launchDelay
      BY <1>0 DEF PanelStates
    <3>2. panel' = [panel EXCEPT ![s] = q]
      BY <2>4 DEF MoveCursor
    <3> QED
      BY <3>1, <3>2
  <2>5. CASE Hover(s)
    <3> DEFINE q == [p EXCEPT !.cursorIndex = 0]
    <3>1. q.launchDelay = p.launchDelay
      BY <1>0 DEF PanelStates
    <3>2. panel' = [panel EXCEPT ![s] = q]
      BY <2>5 DEF Hover
    <3> QED
      BY <3>1, <3>2
  <2>6. ASSUME NEW b \in BOOLEAN,
               panel' = [panel EXCEPT ![s].popupOpen = b]
        PROVE  \E q : panel' = [panel EXCEPT ![s] = q]
                      /\ q.launchDelay = p.launchDelay
    <3> DEFINE q == [p EXCEPT !.popupOpen = b]
    <3>1. q.launchDelay = p.launchDelay
      BY <1>0 DEF PanelStates
    <3>2. panel' = [panel EXCEPT ![s] = q]
      BY <2>6
    <3> QED
      BY <3>1, <3>2
  <2> QED
    BY <2>1, <2>2, <2>3, <2>4, <2>5, <2>6
       DEF PanelInput, ActivateDropdown, ClosePopup
<1> QED
  BY <1>2, OnePanelWaiting

\* The summons that wait grow by at most one, and only by a launch.
LEMMA LaunchAddsOne ==
  ASSUME ViewInv, ViewInv',
         summons' = summons \/ \E payload : Summon(payload)
  PROVE  Len(summons) \in Nat /\ Len(summons') \in Nat
         /\ Len(summons') <= Len(summons) + 1
<1>1. summons \in Seq(Payloads) /\ summons' \in Seq(Payloads)
  BY DEF ViewInv, ServiceTypeOK
<1>2. Len(summons) \in Nat /\ Len(summons') \in Nat
  BY <1>1, LenProperties
<1>3. CASE summons' = summons
  BY <1>2, <1>3
<1>4. ASSUME NEW payload, Summon(payload)
      PROVE  Len(summons') = Len(summons) + 1
  BY <1>1, <1>4 DEF Summon
<1> QED
  BY <1>2, <1>3, <1>4

\* Every step by what it does to the four numbers.
LEMMA StepKeepsAsk == AskInv /\ [Next]_vars => AskInv'
<1> SUFFICES ASSUME AskInv, [Next]_vars PROVE AskInv'
  OBVIOUS
<1> DEFINE n == Len(summons)
           w == Cardinality(WaitingPanels)
<1>0. /\ PanelInv' /\ SwitchInv' /\ ViewInv /\ ViewInv'
      /\ panel \in [ScreenNames -> PanelStates]
  BY StepKeepsPanels, StepKeepsSwitch DEF AskInv, PanelInv
<1>1. /\ IsFiniteSet(WaitingPanels)
      /\ w \in Nat /\ w' \in Nat
  <2>1. w \in Nat /\ IsFiniteSet(WaitingPanels)
    BY WaitingIsFinite
  <2>2. WaitingPanels' \subseteq ScreenNames
    BY DEF WaitingPanels
  <2>3. w' \in Nat
    BY <2>2, CountAssumption, FS_Subset, FS_CardinalityType
  <2> QED
    BY <2>1, <2>3
<1>2. n \in Nat /\ n' \in Nat
  BY <1>0, LenProperties DEF ViewInv, ServiceTypeOK
<1>3. sessions \in Nat /\ asked \in Nat /\ sessions + n + w <= asked
  BY DEF AskInv, NoUninvitedSession
<1> SUFFICES /\ sessions' \in Nat /\ asked' \in Nat
             /\ sessions' + n' + w' <= asked'
  BY <1>0 DEF AskInv, NoUninvitedSession
<1> HIDE DEF n, w
<1>4. ASSUME summons' = summons \/ \E payload : Summon(payload)
      PROVE  n' <= n + 1
  BY <1>0, <1>4, LaunchAddsOne DEF n
<1>5. ASSUME panel' = Notified(panel) PROVE w' = w
  BY <1>0, <1>5, NotifiedKeepsWaiting DEF w
<1>6. ASSUME UNCHANGED panel PROVE w' = w
  BY <1>6 DEF w, WaitingPanels
<1>7. ASSUME UNCHANGED summons PROVE n' = n
  BY <1>7 DEF n
<1>8. CASE ServiceRuns
  <2>1. UNCHANGED <<summons, asked, sessions>> /\ panel' = Notified(panel)
    BY <1>8 DEF ServiceRuns, Witnessed, LoadEnds, OnLoaded, OnLoadFailed,
                InjectShell, InjectManifest, IpcSelect
  <2> QED
    BY <1>1, <1>2, <1>3, <1>5, <1>7, <2>1
<1>9. CASE AskByCommand
  <2>1. /\ summons' = summons \/ \E payload : Summon(payload)
        /\ panel' = Notified(panel)
        /\ sessions' = sessions
        /\ IF summons' # summons THEN asked' = asked + 1 ELSE asked' = asked
    BY <1>9 DEF AskByCommand, Witnessed, AskIf, Ask, ForeignSummon, IpcLaunch,
                Launch
  <2>2. n' <= n + 1 /\ w' = w
    BY <1>4, <1>5, <2>1
  <2>3. CASE summons' # summons
    <3>1. n' <= n + 1 /\ w' <= w + 0
      BY <1>1, <1>2, <2>2
    <3>2. sessions + n' + w' <= asked + 1 + 0
      BY <1>1, <1>2, <1>3, <3>1, SumsStayWithin
    <3>3. asked' = asked + 1 /\ sessions' = sessions
      BY <2>1, <2>3
    <3> QED
      BY <1>3, <3>2, <3>3
  <2>4. CASE summons' = summons
    BY <1>1, <1>2, <1>3, <1>7, <2>1, <2>2, <2>4
  <2> QED
    BY <2>3, <2>4
<1>10. ASSUME NEW s \in ScreenNames, AskByPanel(s)
       PROVE  /\ sessions' \in Nat /\ asked' \in Nat
              /\ sessions' + n' + w' <= asked'
  <2>1. /\ IF panel'[s].launchDelay /\ ~panel[s].launchDelay
           THEN asked' = asked + 1 ELSE asked' = asked
        /\ sessions' = sessions
        /\ UNCHANGED summons
        /\ panel' = [panel EXCEPT ![s] = LaunchSelected(s)]
    BY <1>10 DEF AskByPanel, AskIf, Ask, AskToLaunch, ActivateLaunch,
                 ClickLaunch, serviceVars
  <2>2. WaitingPanels' \subseteq WaitingPanels \cup {s}
    BY <1>0, <2>1, OnePanelWaiting
  <2>3. n' = n
    BY <1>7, <2>1
  <2>4. CASE panel'[s].launchDelay /\ ~panel[s].launchDelay
    <3>1. /\ IsFiniteSet(WaitingPanels \cup {s})
          /\ Cardinality(WaitingPanels \cup {s}) \in {w, w + 1}
      BY <1>1, FS_AddElement DEF w
    <3>2. w' <= Cardinality(WaitingPanels \cup {s})
      BY <2>2, <3>1, FS_Subset DEF w
    <3>3. asked' = asked + 1 /\ sessions' = sessions
      BY <2>1, <2>4
    <3>4. n' <= n + 0 /\ w' <= w + 1
      BY <1>1, <1>2, <2>3, <3>1, <3>2
    <3>5. sessions + n' + w' <= asked + 0 + 1
      BY <1>1, <1>2, <1>3, <3>4, SumsStayWithin
    <3> QED
      BY <1>3, <3>3, <3>5
  <2>5. CASE ~(panel'[s].launchDelay /\ ~panel[s].launchDelay)
    <3>1. WaitingPanels' \subseteq WaitingPanels
      BY <2>2, <2>5 DEF WaitingPanels
    <3>2. w' <= w
      BY <1>1, <3>1, FS_Subset DEF w
    <3>3. asked' = asked /\ sessions' = sessions
      BY <2>1, <2>5
    <3>4. n' <= n + 0 /\ w' <= w + 0
      BY <1>1, <1>2, <2>3, <3>2
    <3>5. sessions + n' + w' <= asked + 0 + 0
      BY <1>1, <1>2, <1>3, <3>4, SumsStayWithin
    <3> QED
      BY <1>3, <3>3, <3>5
  <2> QED
    BY <2>4, <2>5
<1>11. ASSUME NEW s \in ScreenNames, PanelRuns(s)
       PROVE  /\ sessions' \in Nat /\ asked' \in Nat
              /\ sessions' + n' + w' <= asked'
  <2>1. /\ UNCHANGED <<summons, asked, sessions>>
        /\ WaitingPanels' = WaitingPanels
    BY <1>0, <1>11, PanelLeavesService, PanelInputKeepsWaiting
       DEF PanelRuns, serviceVars
  <2>2. w' = w
    BY <2>1 DEF w
  <2> QED
    BY <1>1, <1>2, <1>3, <1>7, <2>1, <2>2
<1>12. ASSUME NEW s \in ScreenNames, PanelLaunches(s)
       PROVE  /\ sessions' \in Nat /\ asked' \in Nat
              /\ sessions' + n' + w' <= asked'
  <2> DEFINE q == [panel[s] EXCEPT !.launchDelay = FALSE]
  <2>1. /\ panel[s].launchDelay
        /\ panel' = [panel EXCEPT ![s] = q]
        /\ summons' = summons \/ \E payload : Summon(payload)
        /\ UNCHANGED <<asked, sessions>>
    BY <1>12 DEF PanelLaunches, LaunchDelayEnds, Launch
  <2>2. q.launchDelay = FALSE
    BY <1>0 DEF PanelStates
  <2>3. WaitingPanels' = WaitingPanels \ {s}
    <3> HIDE DEF q
    <3> QED
      BY <1>0, <2>1, <2>2, OnePanelWaiting
  <2>4. s \in WaitingPanels
    BY <2>1 DEF WaitingPanels
  <2>5. w' = w - 1
    BY <1>1, <2>3, <2>4, FS_RemoveElement DEF w
  <2> QED
    BY <1>1, <1>2, <1>3, <1>4, <2>1, <2>5
<1>13. ASSUME NEW s \in ScreenNames, NEW id \in SourceIds, PanelPicks(s, id)
       PROVE  /\ sessions' \in Nat /\ asked' \in Nat
              /\ sessions' + n' + w' <= asked'
  <2> DEFINE q == [panel[s] EXCEPT !.dropdownValue = id, !.bound = FALSE,
                                   !.popupOpen = FALSE, !.cursorIndex = 0]
             panels == [panel EXCEPT ![s] = q]
  <2>1. /\ UNCHANGED <<summons, asked, sessions>>
        /\ panel' = Notified(panels)
    BY <1>0, <1>13 DEF PanelPicks, PickLanguage
  <2>2. q \in PanelStates /\ q.launchDelay = panel[s].launchDelay
    <3>1. panel[s] \in PanelStates
      BY <1>0
    <3>2. 0 \in 0..launchIndex
      BY DEF launchIndex
    <3> QED
      BY <3>1, <3>2 DEF PanelStates
  <2>3. /\ panels \in [ScreenNames -> PanelStates]
        /\ \A t \in ScreenNames : panels[t].launchDelay = panel[t].launchDelay
    <3> HIDE DEF q
    <3> QED
      BY <1>0, <2>2
  <2>4. WaitingPanels' = WaitingPanels
    <3> HIDE DEF panels
    <3> QED
      BY <1>0, <2>1, <2>3, NotifiedKeepsWaiting
  <2>5. w' = w
    BY <2>4 DEF w
  <2> QED
    BY <1>1, <1>2, <1>3, <1>7, <2>1, <2>5
<1>14. CASE OverlayOpens
  <2>1. /\ summons # <<>> /\ summons' = Tail(summons)
        /\ panel' = Notified(panel)
        /\ asked' = asked /\ sessions' = sessions + 1
    BY <1>14 DEF OverlayOpens, Open, TakeSummons
  <2>2. n' = n - 1
    BY <1>0, <2>1, HeadTailProperties DEF n, ViewInv, ServiceTypeOK
  <2> QED
    BY <1>1, <1>2, <1>3, <1>5, <2>1, <2>2
<1>15. CASE OverlayToggles
  <2>1. /\ UNCHANGED <<summons, panel>>
        /\ \/ asked' = asked /\ sessions' = sessions
           \/ asked' = asked + 1 /\ sessions' = sessions + 1
    BY <1>15 DEF OverlayToggles, Toggle, Ask, serviceVars
  <2> QED
    BY <1>1, <1>2, <1>3, <1>6, <1>7, <2>1
<1>16. CASE OverlayRuns \/ UNCHANGED vars
  <2>1. UNCHANGED <<summons, panel, asked, sessions>>
    BY <1>16, OverlayLeavesService DEF OverlayRuns, vars, typerVars, serviceVars
  <2> QED
    BY <1>1, <1>2, <1>3, <1>6, <1>7, <2>1
<1>17. ASSUME NEW s \in ScreenNames, ScreenComes(s) \/ FocusMoves(s)
       PROVE  /\ sessions' \in Nat /\ asked' \in Nat
              /\ sessions' + n' + w' <= asked'
  <2>1. UNCHANGED <<summons, panel, asked, sessions>>
    BY <1>17 DEF ScreenComes, FocusMoves, Connect, Focus, serviceVars
  <2> QED
    BY <1>1, <1>2, <1>3, <1>6, <1>7, <2>1
<1>18. ASSUME NEW s \in ScreenNames, ScreenGoes(s)
       PROVE  /\ sessions' \in Nat /\ asked' \in Nat
              /\ sessions' + n' + w' <= asked'
  <2>1. /\ UNCHANGED <<summons, asked, sessions>>
        /\ panel' = [panel EXCEPT ![s] = FreshPanel]
    BY <1>18 DEF ScreenGoes, Disconnect, serviceVars
  <2>2. FreshPanel.launchDelay = FALSE
    BY DEF FreshPanel
  <2>3. WaitingPanels' = WaitingPanels \ {s}
    BY <1>0, <2>1, <2>2, OnePanelWaiting
  <2>4. w' <= w
    BY <1>1, <2>3, FS_Subset DEF w
  <2>5. n' = n /\ asked' = asked /\ sessions' = sessions
    BY <1>7, <2>1
  <2>6. n' <= n + 0 /\ w' <= w + 0
    BY <1>1, <1>2, <2>4, <2>5
  <2>7. sessions + n' + w' <= asked + 0 + 0
    BY <1>1, <1>2, <1>3, <2>6, SumsStayWithin
  <2> QED
    BY <1>3, <2>5, <2>7
<1> QED
  BY <1>8, <1>9, <1>10, <1>11, <1>12, <1>13, <1>14, <1>15, <1>16, <1>17, <1>18
     DEF Next

LEMMA InitEstablishesAsk == Init => AskInv
<1> SUFFICES ASSUME Init PROVE AskInv
  OBVIOUS
<1>1. /\ PanelInv /\ SwitchInv
      /\ sessions = 0 /\ asked = 0 /\ summons = <<>>
  BY InitEstablishesPanels, InitEstablishesSwitch DEF Init, OverlayInit, ServiceInit
<1>2. WaitingPanels = {}
  BY DEF Init, WaitingPanels, FreshPanel
<1>3. Cardinality(WaitingPanels) = 0 /\ Len(summons) = 0
  BY <1>1, <1>2, FS_EmptySet
<1> QED
  BY <1>1, <1>3 DEF AskInv, NoUninvitedSession

\* However many panels wait and however many summons are on their way when the
\* overlay is dismissed or toggled: it opens no more often than launchDelay, a
\* command or the shell asked it to, for any number of screens and launches.
THEOREM NeverUninvited == Spec => []NoUninvitedSession
<1>1. AskInv => NoUninvitedSession
  BY DEF AskInv
<1> QED
  BY <1>1, InitEstablishesAsk, StepKeepsAsk, PTL DEF Spec

-----------------------------------------------------------------------------
(* The types *)

AskedTypeOK == asked \in 0..MaxAsked

LEMMA StepKeepsAsked == AskedTypeOK /\ [Next]_vars => AskedTypeOK'
<1> SUFFICES ASSUME asked \in 0..MaxAsked, [Next]_vars
             PROVE  asked' \in 0..MaxAsked
  BY DEF AskedTypeOK
<1>1. ASSUME Ask \/ UNCHANGED asked PROVE asked' \in 0..MaxAsked
  BY <1>1, CountAssumption DEF Ask
<1>2. CASE ServiceRuns \/ OverlayOpens \/ OverlayRuns
  BY <1>2 DEF ServiceRuns, OverlayOpens, OverlayRuns
<1>3. CASE AskByCommand
  BY <1>1, <1>3 DEF AskByCommand, AskIf
<1>4. CASE OverlayToggles
  BY <1>1, <1>4 DEF OverlayToggles
<1>5. ASSUME NEW s \in ScreenNames, AskByPanel(s)
      PROVE  asked' \in 0..MaxAsked
  BY <1>1, <1>5 DEF AskByPanel, AskIf
<1>6. ASSUME NEW s \in ScreenNames,
             \/ PanelRuns(s) \/ PanelLaunches(s)
             \/ \E id \in SourceIds : PanelPicks(s, id)
             \/ ScreenComes(s) \/ ScreenGoes(s) \/ FocusMoves(s)
      PROVE  asked' \in 0..MaxAsked
  BY <1>6 DEF PanelRuns, PanelLaunches, PanelPicks, ScreenComes, ScreenGoes,
              FocusMoves
<1>7. CASE UNCHANGED vars
  BY <1>7 DEF vars
<1> QED
  BY <1>2, <1>3, <1>4, <1>5, <1>6, <1>7 DEF Next

\* All variables of the plugin keep their types.
THEOREM PluginTypeCorrect == Spec => []TypeOK
<1>1. Init => AskInv /\ AskedTypeOK
  BY InitEstablishesAsk, CountAssumption DEF Init, AskedTypeOK
<1>2. AskInv /\ AskedTypeOK /\ OverlayTypeOK => TypeOK
  BY DEF AskInv, PanelInv, AskedTypeOK, TypeOK
<1> QED
  BY <1>1, <1>2, StepKeepsAsk, StepKeepsAsked, PluginImplementsOverlay,
     OverlayTypeCorrect, PTL DEF Spec
=============================================================================
