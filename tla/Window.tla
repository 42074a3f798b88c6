------------------------------- MODULE Window -------------------------------
(***************************************************************************)
(* The disk as FatFs sees it (fatfs/ff.c): one sector at a time, through   *)
(* fs->win, and the data of files past it.                                 *)
(*                                                                         *)
(* A cell is what is read or written at once: an entry of the FAT, a       *)
(* directory entry, the data of a cluster (here of one sector).  Sectors   *)
(* are written as a whole.  The second copy of the FAT is left out: its    *)
(* write is not checked and nothing reads it.                              *)
(***************************************************************************)
CONSTANTS
  Cells,
  Sector(_),     \* the sector that a cell is in
  NoSector       \* winsect after a read that failed

VARIABLES
  disk,          \* what is on the disk, by cell
  view,          \* the same, with fs->win in the place of its sector
  win,           \* fs->winsect
  dirty          \* fs->wflag

\* sync_window().  move_window() to any other sector begins with it.
SyncWindow ==
  /\ dirty
  /\ disk' = [c \in Cells |-> IF Sector(c) = win THEN view[c] ELSE disk[c]]
  /\ dirty' = FALSE
  /\ UNCHANGED <<view, win>>

\* move_window() has still to write the window or to read the sector of a cell.
Moves(c) == Sector(c) # win

\* What view is after move_window().
Shown(c) == IF Moves(c) THEN disk ELSE view

\* move_window() to the sector of a cell.
MoveWindow(c) ==
  /\ ~(Moves(c) /\ dirty)
  /\ win' = Sector(c)
  /\ view' = Shown(c)
  /\ UNCHANGED <<disk, dirty>>

\* The same, and the cell is changed.
Change(c, v) ==
  /\ ~(Moves(c) /\ dirty)
  /\ win' = Sector(c)
  /\ view' = [Shown(c) EXCEPT ![c] = v]
  /\ dirty' = TRUE
  /\ UNCHANGED disk

\* disk_write() of a sector of its own.
DiskWrite(c, v) ==
  /\ disk' = [disk EXCEPT ![c] = v]
  /\ view' = IF Moves(c) THEN [view EXCEPT ![c] = v] ELSE view
  /\ UNCHANGED <<win, dirty>>

\* fs->win is filled for a sector without reading it, as dir_clear() and sync_fs() do.
FillWindow(c, v) ==
  /\ ~dirty
  /\ win' = Sector(c)
  /\ view' = [disk EXCEPT ![c] = v]
  /\ UNCHANGED <<disk, dirty>>

\* disk_read() in move_window() fails.
ReadFails ==
  /\ ~dirty
  /\ win' = NoSector
  /\ view' = disk
  /\ UNCHANGED <<disk, dirty>>

\* The power goes, and comes back.
PowerLoss ==
  /\ view' = disk
  /\ win' = NoSector
  /\ dirty' = FALSE
  /\ UNCHANGED disk
=============================================================================
