------------------------------ MODULE WindowDesk -----------------------------
(***************************************************************************)
(* The panels of a session page (packages/windows): what each window of a  *)
(* page shows, where it is docked, and the layout the page saves, half a   *)
(* second after the last change, in a storage all tabs of the browser      *)
(* share.  A page is one tab; loading it restores the docks and then opens *)
(* every window.  Geometry and the stacking order of floating windows are  *)
(* left out.                                                               *)
(***************************************************************************)
EXTENDS Naturals, Sequences, SequencesExt, Filters

CONSTANTS Pages,         \* browser tabs that show a session
          StartOrder,    \* windows, in the order the page opens them
          HomeSide,      \* WindowOptions.defaultDockState
          StartVisible,  \* windows with WindowOptions.startVisible
          Hideable,      \* windows whose "hide" is not disabled
          Closable,      \* windows whose "close" is not disabled
          MaxMoves       \* bound: what people do, loads included

Windows == ToSet(StartOrder)
Sides == {"left", "right"}
WindowStates == {"closed", "normal", "minimized", "maximized", "hidden"}

ASSUME DeskAssumption ==
  /\ StartOrder \in Seq(Windows)
  /\ HomeSide \in [Windows -> Sides \cup {"none"}]
  /\ StartVisible \subseteq Windows /\ Hideable \subseteq Windows /\ Closable \subseteq Windows
  /\ MaxMoves \in Nat

VARIABLES desk,    \* of each page: its WindowStoreImpl and a debounced save
          layout,  \* the layout in localStorage
          shown,   \* history: the desk that was saved last
          moves

deskVars == <<desk, layout, shown, moves>>

Bare ==
  [up |-> FALSE,
   state |-> [w \in Windows |-> "closed"],   \* WindowModel.state, or no model
   before |-> [w \in Windows |-> "none"],    \* WindowModel.previousState
   dock |-> [w \in Windows |-> "none"],      \* WindowModel.dockState
   order |-> [s \in Sides |-> <<>>],         \* dockAreas[s].windowOrder
   collapsed |-> [s \in Sides |-> FALSE],
   unsaved |-> FALSE]                        \* a save is waiting for its half second

NoLayout ==
  [saved |-> FALSE, known |-> {}, minimized |-> {}, hidden |-> {},
   dock |-> Bare.dock, order |-> Bare.order, collapsed |-> Bare.collapsed]

DeskInit ==
  /\ desk = [p \in Pages |-> Bare]
  /\ layout = NoLayout /\ shown = Bare /\ moves = 0

-----------------------------------------------------------------------------
(* Helpers of the store and the model *)

Undocked(order, w) ==
  IF Contains(order["left"], w) THEN [order EXCEPT !["left"] = Without(@, {w})]
                                ELSE [order EXCEPT !["right"] = Without(@, {w})]

\* Behind the first i windows of a side.
Docked(order, w, side, i) == [Undocked(order, w) EXCEPT ![side] = InsertAt(@, i + 1, w)]

Registered(order, side, w) ==
  IF side = "none" \/ Contains(order[side], w) THEN order
  ELSE [order EXCEPT ![side] = Append(@, w)]

\* saveSnapshot, then the new state; restoreSnapshot.
Turned(d, w, state) == [d EXCEPT !.before[w] = d.state[w], !.state[w] = state]

Restored(d, w) ==
  [d EXCEPT !.state[w] = IF d.before[w] \in {"maximized", "none"} THEN "normal" ELSE d.before[w],
            !.before[w] = "none"]

\* Mutant of StartDock: the side the window is opened with wins over the saved one.
StartDockAtHome(w) ==
  IF HomeSide[w] = "none" /\ w \in layout.known THEN layout.dock[w] ELSE HomeSide[w]

\* What is saved of a window wins over what it is opened with.
StartDock(w) == IF w \in layout.known THEN layout.dock[w] ELSE HomeSide[w]

StartsHidden(w) ==
  /\ w \notin StartVisible
  /\ IF w \in layout.known THEN w \in layout.hidden ELSE ~layout.saved

StartState(w) ==
  CASE StartsHidden(w) -> "hidden"
    [] ~StartsHidden(w) /\ w \in layout.minimized /\ StartDock(w) # "none" -> "minimized"
    [] OTHER -> "normal"

Opened(d, w) ==
  [d EXCEPT !.state[w] = StartState(w),
            !.before[w] = IF StartState(w) = "normal" THEN "none" ELSE "normal",
            !.dock[w] = StartDock(w),
            !.order = Registered(@, StartDock(w), w)]

\* Every window of the page is opened, one after the other.
AllOpened(d) ==
  LET opened[n \in 0 .. Len(StartOrder)] ==
        IF n = 0 THEN d ELSE Opened(opened[n - 1], StartOrder[n])
  IN  opened[Len(StartOrder)]

\* Hidden windows, and docked ones of a collapsed area, are not drawn.
Drawn(d, w) ==
  /\ d.state[w] \notin {"closed", "hidden"}
  /\ d.dock[w] \in Sides => ~d.collapsed[d.dock[w]]

Changes(p, d) ==
  /\ moves < MaxMoves /\ moves' = moves + 1
  /\ desk' = [desk EXCEPT ![p] = [d EXCEPT !.unsaved = TRUE]]
  /\ UNCHANGED <<layout, shown>>

-----------------------------------------------------------------------------
(* The page comes and goes *)

\* useWindowPersistence restores the docks, then useSessionChatWindows opens.
LoadPage(p) ==
  /\ ~desk[p].up
  /\ LET docks == [Bare EXCEPT !.up = TRUE, !.order = layout.order, !.collapsed = layout.collapsed]
     IN Changes(p, AllOpened(docks))

\* The clean-up cancels a save that is waiting.
LeavePage(p) ==
  /\ desk[p].up
  /\ desk' = [desk EXCEPT ![p] = Bare]
  /\ UNCHANGED <<layout, shown, moves>>

SaveLayout(p) ==
  LET d == desk[p]
      open == {w \in Windows : d.state[w] # "closed"}
      Kept(field, now) == (field \ open) \cup {w \in open : now[w]}
  IN /\ d.up /\ d.unsaved
     /\ layout' =
          [saved |-> TRUE, known |-> layout.known \cup open,
           minimized |-> Kept(layout.minimized, [w \in Windows |-> d.state[w] = "minimized"]),
           hidden |-> Kept(layout.hidden, [w \in Windows |-> d.state[w] = "hidden"]),
           dock |-> [w \in Windows |-> IF w \in open THEN d.dock[w] ELSE layout.dock[w]],
           order |-> [s \in Sides |-> Only(d.order[s], open)],
           collapsed |-> d.collapsed]
     /\ shown' = d
     /\ desk' = [desk EXCEPT ![p].unsaved = FALSE]
     /\ UNCHANGED moves

-----------------------------------------------------------------------------
(* What people do with a window *)

ToggleMinimize(p, w) ==
  LET d == desk[p]
  IN /\ Drawn(d, w) /\ d.dock[w] # "none"
     /\ Changes(p, IF d.state[w] = "minimized" THEN Restored(d, w) ELSE Turned(d, w, "minimized"))

ToggleMaximize(p, w) ==
  LET d == desk[p]
  IN /\ Drawn(d, w)
     /\ Changes(p, IF d.state[w] = "maximized" THEN Restored(d, w) ELSE Turned(d, w, "maximized"))

HideWindow(p, w) ==
  /\ w \in Hideable /\ Drawn(desk[p], w)
  /\ Changes(p, Turned(desk[p], w, "hidden"))

CloseWindow(p, w) ==
  /\ w \in Closable \ Hideable /\ Drawn(desk[p], w)
  /\ Changes(p, [desk[p] EXCEPT !.order = Undocked(@, w), !.state[w] = "closed",
                                !.before[w] = "none", !.dock[w] = "none"])

\* openWindow on an id that may be open already.
OpenWindow(p, w) ==
  LET d == desk[p]
  IN /\ d.up
     /\ d.state[w] \in {"closed", "hidden", "minimized"}
     /\ w \in Closable \cup Hideable
     /\ Changes(p, IF d.state[w] = "closed" THEN Opened(d, w) ELSE Restored(d, w))

\* Mutant of DragOut: a minimized window stays minimized when it floats.
DragOutAsIs(p, w) ==
  LET d == desk[p]
  IN /\ Drawn(d, w) /\ d.dock[w] # "none" /\ d.state[w] # "maximized"
     /\ Changes(p, [d EXCEPT !.order = Undocked(@, w), !.dock[w] = "none"])

\* A header dragged past the threshold undocks; a maximized one has no handle.
DragOut(p, w) ==
  LET d == desk[p]
  IN /\ Drawn(d, w) /\ d.dock[w] # "none" /\ d.state[w] # "maximized"
     /\ Changes(p, [d EXCEPT !.order = Undocked(@, w), !.dock[w] = "none",
                             !.state[w] = IF @ = "minimized" THEN "normal" ELSE @])

\* dockWindow with an index, or at the end when dropped at an edge.
DropAt(p, w, side, i) ==
  LET d == desk[p]
  IN /\ Drawn(d, w) /\ d.dock[w] = "none" /\ d.state[w] # "maximized"
     /\ i \in 0 .. Len(d.order[side])
     /\ Changes(p, [d EXCEPT !.order = Docked(@, w, side, i), !.dock[w] = side,
                             !.collapsed[side] = FALSE])

ToggleCollapsed(p, side) ==
  LET d == desk[p]
  IN /\ \E w \in ToSet(d.order[side]) : d.state[w] \notin {"closed", "hidden"}
     /\ Changes(p, [d EXCEPT !.collapsed[side] = ~@])

DeskNext ==
  \E p \in Pages :
    \/ LoadPage(p) \/ LeavePage(p) \/ SaveLayout(p)
    \/ \E side \in Sides : ToggleCollapsed(p, side)
    \/ \E w \in Windows :
         \/ ToggleMinimize(p, w) \/ ToggleMaximize(p, w) \/ HideWindow(p, w)
         \/ CloseWindow(p, w) \/ OpenWindow(p, w) \/ DragOut(p, w)
         \/ \E side \in Sides, i \in 0 .. Len(StartOrder) : DropAt(p, w, side, i)

DeskSpec == DeskInit /\ [][DeskNext]_deskVars

-----------------------------------------------------------------------------
(* Properties *)

DeskTypeOK ==
  /\ \A p \in Pages :
       /\ desk[p].state \in [Windows -> WindowStates]
       /\ desk[p].before \in [Windows -> WindowStates \cup {"none"}]
       /\ desk[p].dock \in [Windows -> Sides \cup {"none"}]
  /\ layout.known \subseteq Windows
  /\ moves \in 0 .. MaxMoves

\* Through drags, drops, closes and loads of a layout another tab may have
\* saved, the order of a dock area lists exactly the windows that say they are
\* docked there, each once; and no floating window is, or would be restored,
\* minimized, a state it is not drawn in (applyUndockState).
DeskIsSound ==
  \A p \in Pages :
    LET d == desk[p]
    IN d.up =>
         /\ \A s \in Sides :
              /\ IsInjective(d.order[s])
              /\ ToSet(d.order[s]) = {w \in Windows : d.state[w] # "closed" /\ d.dock[w] = s}
         /\ \A w \in Windows :
              d.dock[w] = "none" => d.state[w] # "minimized" /\ d.before[w] # "minimized"

\* "On page reload, windows restore their previous arrangement": whatever tab
\* loads next finds the windows that were open when a layout was last saved in
\* the docks, in the order, and minimized as they were then; windows that were
\* closed come after them.
ReloadKeepsDesk ==
  [][\A p \in Pages :
       ~desk[p].up /\ desk'[p].up /\ layout.saved =>
         /\ \A w \in Windows :
              shown.state[w] # "closed" =>
                /\ desk'[p].dock[w] = shown.dock[w]
                /\ (desk'[p].state[w] = "minimized") = (shown.state[w] = "minimized")
                /\ (desk'[p].state[w] = "hidden") =
                     (shown.state[w] = "hidden" /\ w \notin StartVisible)
         /\ \A s \in Sides : IsPrefix(shown.order[s], desk'[p].order[s])
         /\ desk'[p].collapsed = shown.collapsed]_deskVars
=============================================================================
