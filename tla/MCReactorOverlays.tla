-------------------------- MODULE MCReactorOverlays -------------------------
(* An instance of ReactorOverlays for TLC.                                 *)
EXTENDS ReactorOverlays

CONSTANTS home, away, key1, key2

MCUrls == {home, away}
MCVisited == <<away>>
MCChords == {key1, key2}
MCLimits == {0, 1}

(* Bound: a behaviour goes on only while one of the three, the pages, the  *)
(* settings or the key bindings, is not as it was at the start, apart from *)
(* the overlay: their handlers share no state but that.                    *)
PagesMoved == nextId > 1 \/ ui.query # NoText \/ \E p \in Ids : url[p] # url[0]
SettingsMoved == settings.limit # Unlimited \/ ui.drafts # LoadedDrafts(settings)
KeysMoved == ui.listening # NoAction \/ ui.text # NoText \/ \E a \in Actions : bindings[a] # {}
OneSubject == /\ ~(PagesMoved /\ SettingsMoved)
              /\ ~(PagesMoved /\ KeysMoved /\ ui.text # NoText)
              /\ ~(SettingsMoved /\ KeysMoved)
=============================================================================
