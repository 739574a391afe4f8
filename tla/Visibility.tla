----------------------------- MODULE Visibility -----------------------------
(***************************************************************************)
(* The areas of the grid that GridSearchers.cpp visits: what is near a     *)
(* cell, and what comes into and goes out of sight when a player moves     *)
(* from one cell to another.  The two searches compute the same area in    *)
(* different ways, one by skipping coordinates outside the grid, the other *)
(* by clamping the borders of a window.                                    *)
(***************************************************************************)
EXTENDS Integers

CONSTANTS
    GridX, GridY,   \* GetGridSizeX, GetGridSizeY
    Offset          \* CELL_VISIBILITY_OFFSET

ASSUME GridAssumption == GridX \in Nat \ {0} /\ GridY \in Nat \ {0} /\ Offset \in Nat

Cells == (0 .. GridX - 1) \X (0 .. GridY - 1)

\* NearVisibilityGridSearcher, NearObjectVisibilityGridSearcher
Near(c) == {d \in Cells : /\ \E i \in -Offset .. Offset : d[1] = c[1] + i
                          /\ \E j \in -Offset .. Offset : d[2] = c[2] + j}

\* The window's borders in one dimension of size n, clamped to the grid
Low(x) == IF x - Offset < 0 THEN 0 ELSE x - Offset

\* Mutant: the upper border is computed from the lower one after its clamping
HighAfterClamp(x, n) == IF Low(x) + 2 * Offset > n - 1 THEN n - 1 ELSE Low(x) + 2 * Offset

High(x, n) == IF x - Offset + 2 * Offset > n - 1 THEN n - 1 ELSE x - Offset + 2 * Offset

InWindow(d, c) ==
    /\ d[1] >= Low(c[1]) /\ d[1] <= High(c[1], GridX)
    /\ d[2] >= Low(c[2]) /\ d[2] <= High(c[2], GridY)

Window(c) == (Low(c[1]) .. High(c[1], GridX)) \X (Low(c[2]) .. High(c[2], GridY))

\* VisibilityChangeGridSearcher: the cells visited in destruction mode
DestroyArea(old, new) == {d \in Window(old) : ~InWindow(d, new)}

\* VisibilityChangeGridSearcher and CellDiscoveryGridSearcher: the cells
\* visited in creation mode
CreateArea(old, new) == {d \in Window(new) : ~InWindow(d, old)}

=============================================================================
