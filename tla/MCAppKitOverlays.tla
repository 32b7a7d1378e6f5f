-------------------------- MODULE MCAppKitOverlays --------------------------
(* Instances of AppKitOverlays for TLC.                                    *)
EXTENDS AppKitOverlays

CONSTANTS home, away, reload, key1, key2, old, new

MCUrls == {home, away}
MCVisited == <<away>>
MCActions == {reload}
MCChords == {key1, key2}
(* key2 is one for which AppKit has no equivalent, as Tab.                 *)
MCKeyEquivalent == [c \in MCChords |-> IF c = key1 THEN key1 ELSE NoChord]
MCContents == {old, new}
MCSite == [c \in {old, new} |-> IF c = old THEN home ELSE away]

(* Bound: a behaviour changes the pages and bookmarks, or the logins, or   *)
(* the key bindings.  The three share the overlay and nothing else.        *)
OneSubject ==
  Cardinality({i \in 1..3 :
     <<nextId > 2 \/ pages # <<1>> \/ bookmarks # <<>> \/ url[1] # home, born > 0 \/ unlocked,
       bindings # [a \in Actions |-> <<key2>>]>>[i]}) <= 1

(* States are told apart by what a handler can still read: a panel that is *)
(* closed fills its rows anew before it shows them, the URL of a page that *)
(* is not open is never asked for.                                         *)
Shown(o, what) == IF overlay = o THEN what ELSE <<>>
MCView ==
  <<pages, active, nextId, [p \in Open |-> url[p]], overlay, panels,
    Shown("switcher", <<text, rows>>), selected, bookmarks, Shown("bookmarks", bookmarkRows),
    star, starOf, vaultVars, logins, nextLogin, born,
    Shown("passwords", <<loginRows, editing, editingBorn>>), bindings,
    Shown("settings", <<bindingRows, listening>>), menu, aborted>>
=============================================================================
