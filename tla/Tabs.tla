-------------------------------- MODULE Tabs --------------------------------
(***************************************************************************)
(* What a front end promises about a window's tabs and the session file,   *)
(* whatever its engines, views and limits do: the file names the open tabs *)
(* in their order, with the one in front marked, at every moment at which  *)
(* the process can die; while a session is being restored it stays as it   *)
(* is; closing the tab in front brings the first of the others there.      *)
(***************************************************************************)
EXTENDS PageManagerOps

CONSTANT TabIds    (* the names a tab may have *)

VARIABLES
  up,        (* the process runs *)
  loading,   (* it is restoring its session *)
  tabs,      (* the open tabs, in order *)
  front,     (* the tab in front, or one that is gone *)
  file       (* the tabs in the session file, and which of them was in front *)

tabsVars == <<up, loading, tabs, front, file>>

Listed == [tabs |-> tabs,
           front |-> IF \E i \in 1..Len(tabs) : tabs[i] = front
                     THEN CHOOSE i \in 1..Len(tabs) : tabs[i] = front
                     ELSE 0]

TabsInit ==
  /\ up = FALSE /\ loading = FALSE
  /\ tabs = <<>> /\ front = NoPage
  /\ file = [tabs |-> <<>>, front |-> 0]

(* A tab opens in front or behind, under a name no open tab has.           *)
OpenTab ==
  /\ \E t \in TabIds \ Elements(tabs) :
       /\ tabs' = Append(tabs, t)
       /\ front' \in {front, t}
  /\ UNCHANGED <<up, loading>>

(* A tab comes to the front.  Who chooses one from a list that is out of   *)
(* date may choose one that has been closed.                               *)
ShowTab ==
  /\ front' \in TabIds
  /\ UNCHANGED <<up, loading, tabs>>

(* The last tab to close may be replaced by a new one at once.             *)
CloseTab ==
  /\ \E i \in 1..Len(tabs) :
       LET rest == VecRemove(tabs, i)
       IN \/ /\ tabs' = rest
             /\ front' = IF tabs[i] = front /\ rest # <<>> THEN rest[1] ELSE front
          \/ /\ rest = <<>>
             /\ \E t \in TabIds : tabs' = <<t>> /\ front' = t
  /\ UNCHANGED <<up, loading>>

Finish ==
  /\ loading /\ ~loading'
  /\ front' \in Elements(tabs) \cup {front}
  /\ UNCHANGED <<up, tabs>>

Start ==
  /\ ~up /\ up' /\ loading'
  /\ UNCHANGED <<tabs, front, file>>

Die ==
  /\ up /\ ~up' /\ ~loading'
  /\ tabs' = <<>> /\ front' = NoPage
  /\ UNCHANGED file

TabsNext ==
  \/ Start
  \/ Die
  \/ /\ up /\ loading
     /\ OpenTab /\ UNCHANGED file
  \/ /\ up
     /\ Finish \/ (~loading /\ (OpenTab \/ ShowTab \/ CloseTab))
     /\ file' = Listed'

TabsSpec == TabsInit /\ [][TabsNext]_tabsVars
=============================================================================
