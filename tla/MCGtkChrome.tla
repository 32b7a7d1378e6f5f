---------------------------- MODULE MCGtkChrome ----------------------------
(* Instances of GtkChrome for TLC.                                         *)
EXTENDS GtkChrome

CONSTANTS home, settings, vault

MCUrls == {home, settings, vault}
(* Several logins for one site, one for another.                           *)
MCSavedLogins == [u \in MCUrls |-> IF u = home THEN 2 ELSE IF u = settings THEN 1 ELSE 0]

(* What the pages there are, and a process there is, can make of the state.*)
OpenPages ==
  <<pages, active, nextId, [p \in Ids \cap Range(pages) |-> <<url[p], title[p]>>]>>
(* What the switcher's page has matters once its script has run, and its   *)
(* rows only while no others are asked for.                                *)
Content ==
  IF script THEN <<search, query, asking, IF asking THEN <<>> ELSE grid>> ELSE <<>>
ChromeView ==
  IF ~up THEN <<>>
  ELSE <<OpenPages, toolbarVars, switcher, panel, sensitive, text, script, Content, vaultVars,
         built, busy>>

(* Bound: a behaviour has the switcher's page, once its script has run, or *)
(* bookmarks, the picker and three URLs.  What that page has is read by no *)
(* other handler, and its script need never run: what the run says of      *)
(* input, overlays and star it says with either.                           *)
OneSubject ==
  script => /\ bookmarks = {} /\ ~star /\ picker = Blank
            /\ vault \notin {text, search, query, busy.url} \cup {url[p] : p \in Range(pages)}
=============================================================================
