------------------------------- MODULE Layout -------------------------------
(***************************************************************************)
(* Which rows of the arrivals lists a frame of the HD panel shows: the     *)
(* page of each section (src/main.go) and the geometry of the sections     *)
(* (src/display/renderer_hd.go), in pixels.  The page is cut to the rows   *)
(* that RowsPerSection computes, and the frame once more to the rows that  *)
(* renderHD computes for itself; what lies below the panel is not seen.    *)
(***************************************************************************)
EXTENDS Integers

CONSTANTS
  NumStops,      \* len(cfg.Stops)
  Width, Height  \* the framebuffer's, from the kernel

\* The configuration has a stop, and the panel is an HD panel with room for its header.
ASSUME LayoutAssumption ==
  /\ NumStops \in Nat \ {0}
  /\ Width \in Nat /\ Width >= 800
  /\ Height \in Nat /\ Height >= 32 + 4 * (NumStops - 1)

Stops == 1..NumStops

HeaderHeight == 30
SectionBarHeight == 36
RowHeight == 40
SectionSeparator == 4

Larger(a, b) == IF a > b THEN a ELSE b
Smaller(a, b) == IF a < b THEN a ELSE b

HeightPerSection ==
  (Height - HeaderHeight - 2 - (NumStops - 1) * SectionSeparator) \div NumStops

RowsPerSection == Larger(1, (HeightPerSection - SectionBarHeight) \div RowHeight)

\* Mutant: a last page that is not full is left out.
FullPagesOnly(total) == Larger(1, total \div RowsPerSection)

NumPages(total) == (total + RowsPerSection - 1) \div RowsPerSection

\* maxPages is a cap only if it is positive.
PagesShown(total, maxPages) ==
  IF maxPages > 0 THEN Smaller(NumPages(total), maxPages) ELSE NumPages(total)

\* Mutant: the end of the window is not held to the list's.
PastTheEnd(total, maxPages, page) ==
  LET start == (page % PagesShown(total, maxPages)) * RowsPerSection
  IN  IF total = 0 THEN <<0, 0>> ELSE <<start, start + RowsPerSection>>

\* The half-open window of a list of total arrivals that the page shows.
PageWindow(total, maxPages, page) ==
  LET start == (page % PagesShown(total, maxPages)) * RowsPerSection
  IN  IF total = 0 THEN <<0, 0>> ELSE <<start, Smaller(start + RowsPerSection, total)>>

-----------------------------------------------------------------------------
\* renderHD

\* Where the slot of section i ends, and where its first row begins, after a section that
\* ended at y: a line above every section but the first, then its bar.
SlotBottom(i) ==
  HeaderHeight + 2 + (i - 1) * (HeightPerSection + SectionSeparator) + HeightPerSection

FirstRow(y, i) == y + (IF i > 1 THEN 1 ELSE 0) + SectionBarHeight

\* Where it ends: an empty section does not move to the bottom of its slot.
SectionEnd(y, i, rows) ==
  IF rows = 0 THEN FirstRow(y, i) + HeightPerSection - SectionBarHeight
  ELSE Larger(FirstRow(y, i) + rows * RowHeight, SlotBottom(i))

\* The rows of section i that are drawn, and lie on the panel, when the sections show so
\* many rows.
RowsOnPanel(i, shows) ==
  LET drawn(j) == Smaller(shows[j], RowsPerSection)
      ends[j \in 0..NumStops] ==
        IF j = 0 THEN HeaderHeight + 2 ELSE SectionEnd(ends[j - 1], j, drawn(j))
  IN  {r \in 1..drawn(i) : FirstRow(ends[i - 1], i) + r * RowHeight <= Height}

=============================================================================
