----------------------------- MODULE ScreenProofs -----------------------------
(***************************************************************************)
(* ScreenInv is inductive, for every size of the screen, every text and    *)
(* every place of the pointer: four tasks draw in one frame buffer, one of *)
(* them without the lock, and the border, the display and the text are     *)
(* what Screen says.                                                       *)
(***************************************************************************)
EXTENDS Screen, SequenceTheorems, TLAPS

-----------------------------------------------------------------------------
(* The invariant                                                           *)

\* where each task may be
PcInv ==
  /\ pc = [p \in Task |-> pc[p]]
  /\ pc[Compositor] \in {"idle", "acquire", "load", "load_y", "draw", "advance", "refresh",
                         "release"}
  /\ pc[Usage] \in {"idle", "acquire", "draw", "refresh", "release"}
  /\ pc[Pointer] \in {"off", "idle", "acquire", "restore", "draw", "refresh", "release"}
  /\ pc[Console] \in {"idle", "blank", "home_x", "home_y", "refresh"}

\* The compositor has loaded the cursor, and only a clear has changed it since;
\* the column it clears and the one it advances from are not the last of the
\* text; the cursor leaves the text only by a clear.
CursorInv ==
  /\ pc[Compositor] \in {"load_y", "draw"} => cursor_x \in {at[1], SCROLL_X0}
  /\ pc[Compositor] = "advance" => cursor_x < SCROLL_X1
  /\ pc[Console] = "blank" => column < SCROLL_X1
  /\ cursor_y < SCROLL_Y0 \/ at[2] < SCROLL_Y0 => cleared
  /\ pc[Console] # "idle" => cleared

\* Text in the margin: neither in the buffer nor under the pointer.
MarginInv ==
  \A y \in SCROLL_Y0 .. SCROLL_Y1 :
    /\ fb[y][SCROLL_X1] \in {SPACE, GLYPH}
    /\ old_screen = <<SCROLL_X1, y>> => saved_vga_entry \in {SPACE, GLYPH}

\* The buffer b shows the last of the rows.
InWindow(b, rows) ==
  \A i \in SCROLL_Y0 .. SCROLL_Y1, j \in SCROLL_X0 .. SCROLL_X1 :
    b[i][j] = rows[(Len(rows) - Height) + i][j]

\* A sheet is seen through the window, with the cursor at <<x, y>>.
Shown(s, b, x, y) ==
  x = s.x /\ y = s.row - (Len(s.rows) - Height) /\ InWindow(b, s.rows)

\* The row the reference terminal writes in is in its window; the character
\* the compositor has taken is within the bound.
SheetInv ==
  /\ Hidden >= 0 /\ sheet.row > Hidden /\ sheet.row <= Len(sheet.rows)
  /\ pc[Compositor] \notin {"idle", "release"} => printed < TextLimit

\* The compositor is at the character the reference terminal is at, or has
\* drawn the next one.
TextInv ==
  ~cleared /\ old_screen = NoPlace =>
    /\ pc[Compositor] \in {"idle", "acquire", "load", "load_y", "draw", "release"}
         => Shown(sheet, fb, cursor_x, cursor_y)
    /\ pc[Compositor] = "load_y" => at[1] = cursor_x
    /\ pc[Compositor] = "draw" => at = <<cursor_x, cursor_y>>
    /\ pc[Compositor] = "advance" => Shown(PrintChar(c), fb, cursor_x + 1, cursor_y)
    /\ pc[Compositor] = "refresh" => Shown(PrintChar(c), fb, cursor_x, cursor_y)

ScreenInv ==
  TypeOK /\ PcInv /\ CursorInv /\ DisplayCurrent /\ BorderIntact /\ MarginInv
    /\ SheetInv /\ TextInv

-----------------------------------------------------------------------------
(* Names and sizes                                                         *)

LEMMA Sizes ==
  /\ SCROLL_X0 = 1 /\ SCROLL_X1 \in Nat /\ SCROLL_X1 > 1 /\ GRID_WIDTH = SCROLL_X1 + 2
  /\ SCROLL_Y0 = 1 /\ SCROLL_Y1 \in Nat /\ SCROLL_Y1 >= 1 /\ BOTTOM = SCROLL_Y1 + 1
  /\ STATUS = SCROLL_Y1 + 2 /\ Column = 0 .. SCROLL_X1 + 1 /\ Row = 0 .. SCROLL_Y1 + 2
  /\ Height = SCROLL_Y1 /\ TextLimit \in Nat
<1>1. GRID_WIDTH \in Nat /\ GRID_HEIGHT \in Nat /\ GRID_WIDTH >= 4 /\ GRID_HEIGHT >= 4
      /\ TextLimit \in Nat
  BY ScreenAssumption
<1>2. Column = 0 .. SCROLL_X1 + 1 /\ Row = 0 .. SCROLL_Y1 + 2
  BY <1>1 DEF Column, Row, SCROLL_X1, SCROLL_Y1
<1> QED BY <1>1, <1>2
     DEF SCROLL_X0, SCROLL_X1, SCROLL_Y0, SCROLL_Y1, BOTTOM, STATUS, Height

LEMMA Tasks ==
  /\ Compositor \in Task /\ Usage \in Task /\ Pointer \in Task /\ Console \in Task
  /\ Compositor # Usage /\ Compositor # Pointer /\ Compositor # Console
  /\ Usage # Pointer /\ Usage # Console /\ Pointer # Console
BY DEF Task, Compositor, Usage, Pointer, Console

LEMMA StepFacts ==
  ASSUME PcInv, NEW p \in Task, NEW from, NEW to, Step(p, from, to)
  PROVE  pc[p] = from /\ pc'[p] = to /\ \A q \in Task : q # p => pc'[q] = pc[q]
BY DEF PcInv, Step

\* A cell of the frame buffer is replaced.
LEMMA PutFacts ==
  ASSUME NEW b \in [Row -> [Column -> Cell]], NEW char \in Cell,
         NEW x \in Column, NEW y \in Row
  PROVE  /\ Put(b, char, x, y) \in [Row -> [Column -> Cell]]
         /\ \A i \in Row, j \in Column :
              Put(b, char, x, y)[i][j] = IF i = y /\ j = x THEN char ELSE b[i][j]
BY DEF Put

\* The characters of a cell
LEMMA Cells == SPACE \in Cell /\ FRAME \in Cell /\ DIGIT \in Cell /\ GLYPH \in Cell
BY DEF Cell

-----------------------------------------------------------------------------
(* Where the tasks are                                                     *)

LEMMA PcStep ==
  ASSUME PcInv, [Next]_vars
  PROVE  PcInv'
<1>1. CASE compositor_main
  <2> USE DEF Step, PcInv
  <2>1. \E from, to \in {"idle", "acquire", "load", "load_y", "draw", "advance", "refresh",
                          "release"} : Step(Compositor, from, to)
    BY <1>1 DEF compositor_main, compositor_take, spinlock_acquire, compositor_load_x,
          compositor_load_y, compositor_draw, compositor_advance, compositor_refresh, spinlock_release
  <2> QED BY <2>1, Tasks
<1>2. CASE cpu_usage
  <2> USE DEF Step, PcInv
  <2>1. \E from, to \in {"idle", "acquire", "draw", "refresh", "release"} : Step(Usage, from, to)
    BY <1>2 DEF cpu_usage, usage_sleep, spinlock_acquire, usage_draw, usage_refresh,
          spinlock_release
  <2> QED BY <2>1, Tasks
<1>3. CASE CompositorEnableMouse
  <2> USE DEF Step, PcInv
  <2>1. \E from, to \in {"off", "idle", "acquire", "restore", "draw", "refresh", "release"} :
          Step(Pointer, from, to)
    BY <1>3 DEF CompositorEnableMouse, pointer_start, pointer_position, spinlock_acquire,
          pointer_restore, pointer_draw, pointer_refresh, spinlock_release
  <2> QED BY <2>1, Tasks
<1>4. CASE compositor_clear_screen
  <2> USE DEF Step, PcInv
  <2>1. \E from, to \in {"idle", "blank", "home_x", "home_y", "refresh"} :
          Step(Console, from, to)
    BY <1>4 DEF compositor_clear_screen, clear_start, clear_column, clear_home_x,
          clear_home_y, clear_refresh
  <2> QED BY <2>1, Tasks
<1>5. CASE UNCHANGED vars
  BY <1>5 DEF vars, PcInv
<1> QED BY <1>1, <1>2, <1>3, <1>4, <1>5 DEF Next

-----------------------------------------------------------------------------
(* What each task writes                                                   *)

\* Cells that change belong to the text, or after a clear to the part of the row
\* above it that text can reach.
TextOnly ==
  \A x \in Column, y \in 0 .. BOTTOM :
    fb'[y][x] # fb[y][x] =>
      /\ x \in SCROLL_X0 .. SCROLL_X1 /\ y \in SCROLL_Y0 - 1 .. SCROLL_Y1
      /\ y < SCROLL_Y0 => cleared /\ x < SCROLL_X1

\* What comes to stand in the margin is blank, or was there.
MarginKept ==
  \A y \in SCROLL_Y0 .. SCROLL_Y1 :
    \/ fb'[y][SCROLL_X1] = SPACE
    \/ \E z \in SCROLL_Y0 .. SCROLL_Y1 : fb'[y][SCROLL_X1] = fb[z][SCROLL_X1]

Writes == fb' \in [Row -> [Column -> Cell]] /\ TextOnly /\ MarginKept

\* A character that is put into the text
LEMMA PutWrites ==
  ASSUME TypeOK, NEW char \in Cell, NEW x \in SCROLL_X0 .. SCROLL_X1,
         NEW y \in SCROLL_Y0 - 1 .. SCROLL_Y1, y < SCROLL_Y0 => cleared,
         x = SCROLL_X1 => char = SPACE /\ y >= SCROLL_Y0, fb' = Put(fb, char, x, y)
  PROVE  Writes
<1>1. fb \in [Row -> [Column -> Cell]]
  BY DEF TypeOK
<1>2. x \in Column /\ y \in Row
  BY Sizes
<1>3. /\ fb' \in [Row -> [Column -> Cell]]
      /\ \A i \in Row, j \in Column : fb'[i][j] = IF i = y /\ j = x THEN char ELSE fb[i][j]
  <2>1. /\ Put(fb, char, x, y) \in [Row -> [Column -> Cell]]
        /\ \A i \in Row, j \in Column :
             Put(fb, char, x, y)[i][j] = IF i = y /\ j = x THEN char ELSE fb[i][j]
    BY ONLY <1>1, <1>2, PutFacts, char \in Cell
  <2> QED BY <2>1
<1>4. SCROLL_X1 \in Column /\ 0 .. BOTTOM \subseteq Row /\ SCROLL_Y0 .. SCROLL_Y1 \subseteq Row
  BY Sizes
<1>5. TextOnly
  <2>1. y < SCROLL_Y0 => x < SCROLL_X1
    BY Sizes
  <2> QED BY <1>3, <1>4, <2>1 DEF TextOnly
<1>6. MarginKept
  BY <1>3, <1>4 DEF MarginKept
<1> QED BY <1>3, <1>5, <1>6 DEF Writes

LEMMA ScrollWrites ==
  ASSUME TypeOK, fb' = compositor_scroll
  PROVE  Writes
<1>1. fb \in [Row -> [Column -> Cell]] /\ SPACE \in Cell
  BY Cells DEF TypeOK
<1>2. \A i \in Row, j \in Column :
        fb'[i][j] = IF i \notin SCROLL_Y0 .. SCROLL_Y1 \/ j \notin SCROLL_X0 .. SCROLL_X1 THEN fb[i][j]
                    ELSE IF i < SCROLL_Y1 THEN fb[i + 1][j] ELSE SPACE
  BY DEF compositor_scroll
<1>3. SCROLL_X1 \in Column /\ 0 .. BOTTOM \subseteq Row /\ SCROLL_Y0 .. SCROLL_Y1 \subseteq Row
  BY Sizes
<1>4. \A i \in SCROLL_Y0 .. SCROLL_Y1 : i < SCROLL_Y1 => i + 1 \in SCROLL_Y0 .. SCROLL_Y1
  BY Sizes
<1>5. fb' \in [Row -> [Column -> Cell]]
  <2>1. \A i \in Row, j \in Column : fb'[i][j] \in Cell
    BY <1>1, <1>2, <1>3, <1>4
  <2> QED BY <2>1 DEF compositor_scroll
<1>6. TextOnly
  <2>1. SCROLL_Y0 .. SCROLL_Y1 \subseteq SCROLL_Y0 - 1 .. SCROLL_Y1
        /\ \A y \in SCROLL_Y0 .. SCROLL_Y1 : ~(y < SCROLL_Y0)
    BY Sizes
  <2> QED BY <1>2, <1>3, <2>1 DEF TextOnly
<1>7. MarginKept
  <2>1. SCROLL_X1 \in SCROLL_X0 .. SCROLL_X1
    BY Sizes
  <2> QED BY <1>2, <1>3, <1>4, <2>1 DEF MarginKept
<1> QED BY <1>5, <1>6, <1>7 DEF Writes

LEMMA NothingWritten ==
  ASSUME TypeOK, fb' = fb
  PROVE  Writes
BY DEF TypeOK, Writes, TextOnly, MarginKept

\* The cases of a character that is printed
LEMMA DrawCases ==
  ASSUME TypeOK, PcInv, CursorInv, compositor_draw
  PROVE  \/ /\ c = BS /\ at[1] > SCROLL_X0 /\ pc'[Compositor] = "refresh"
            /\ fb' = Put(fb, SPACE, at[1] - 1, at[2])
            /\ cursor_x' = at[1] - 1 /\ cursor_y' = at[2]
         \/ /\ c = BS /\ at[1] = SCROLL_X0 /\ at[2] > SCROLL_Y0 /\ pc'[Compositor] = "refresh"
            /\ fb' = Put(fb, SPACE, SCROLL_X1, at[2] - 1)
            /\ cursor_x' = SCROLL_X1 /\ cursor_y' = at[2] - 1
         \/ /\ c = BS /\ at[1] = SCROLL_X0 /\ at[2] <= SCROLL_Y0 /\ pc'[Compositor] = "refresh"
            /\ fb' = fb /\ cursor_x' = cursor_x /\ cursor_y' = cursor_y
         \/ /\ c # BS /\ (c = NL \/ at[1] = SCROLL_X1) /\ at[2] < SCROLL_Y1
            /\ pc'[Compositor] = "refresh"
            /\ fb' = fb /\ cursor_x' = SCROLL_X0 /\ cursor_y' = at[2] + 1
         \/ /\ c # BS /\ (c = NL \/ at[1] = SCROLL_X1) /\ at[2] = SCROLL_Y1
            /\ pc'[Compositor] = "refresh"
            /\ fb' = compositor_scroll /\ cursor_x' = SCROLL_X0 /\ cursor_y' = SCROLL_Y1
         \/ /\ c \in Letters /\ c # BS /\ c # NL /\ at[1] < SCROLL_X1
            /\ pc'[Compositor] = "advance"
            /\ fb' = Put(fb, c, at[1], at[2]) /\ cursor_x' = cursor_x /\ cursor_y' = cursor_y
<1>1. /\ at[1] \in SCROLL_X0 .. SCROLL_X1 /\ at[2] \in SCROLL_Y0 - 1 .. SCROLL_Y1
      /\ c \in Letters \cup {NL, BS} /\ NL # BS
  BY DEF TypeOK, NL, BS
<1>2. pc'[Compositor] = IF c = BS \/ Breaks THEN "refresh" ELSE "advance"
  BY Tasks, StepFacts DEF compositor_draw
<1>3. /\ at[1] >= SCROLL_X1 <=> at[1] = SCROLL_X1
      /\ at[2] > SCROLL_Y0 \/ at[2] <= SCROLL_Y0
      /\ at[2] < SCROLL_Y1 \/ at[2] = SCROLL_Y1
      /\ at[1] < SCROLL_X1 <=> ~(at[1] >= SCROLL_X1)
      /\ at[1] > SCROLL_X0 \/ at[1] = SCROLL_X0
      /\ ~(at[1] > SCROLL_X0 /\ at[1] = SCROLL_X0)
  BY <1>1, Sizes
<1>4. CASE c = BS /\ draw_backspace
  <2>1. pc'[Compositor] = "refresh"
    BY <1>2, <1>4
  <2>2. CASE at[1] > SCROLL_X0
    <3>1. /\ fb' = Put(fb, SPACE, at[1] - 1, at[2])
          /\ cursor_x' = at[1] - 1 /\ cursor_y' = at[2]
      BY <1>4, <2>2 DEF draw_backspace
    <3> QED BY <1>4, <2>1, <2>2, <3>1
  <2>3. CASE at[1] = SCROLL_X0 /\ at[2] > SCROLL_Y0
    <3>1. /\ fb' = Put(fb, SPACE, SCROLL_X1, at[2] - 1)
          /\ cursor_x' = SCROLL_X1 /\ cursor_y' = at[2] - 1
      BY <1>3, <1>4, <2>3 DEF draw_backspace
    <3> QED BY <1>4, <2>1, <2>3, <3>1
  <2>4. CASE at[1] = SCROLL_X0 /\ at[2] <= SCROLL_Y0
    <3>1. ~(at[2] > SCROLL_Y0)
      BY <1>1, <2>4, Sizes
    <3>2. fb' = fb /\ cursor_x' = cursor_x /\ cursor_y' = cursor_y
      BY <1>3, <1>4, <2>4, <3>1 DEF draw_backspace
    <3> QED BY <1>4, <2>1, <2>4, <3>2
  <2> QED BY <1>3, <2>2, <2>3, <2>4
<1>5. CASE Breaks /\ draw_newline
  <2>1. pc'[Compositor] = "refresh" /\ c # BS /\ (c = NL \/ at[1] = SCROLL_X1)
    BY <1>1, <1>2, <1>3, <1>5 DEF Breaks
  <2> QED BY <1>1, <1>3, <1>5, <2>1, Sizes DEF draw_newline
<1>6. CASE c # BS /\ ~Breaks /\ draw_char
  <2>1. c \in Letters /\ c # NL /\ at[1] < SCROLL_X1 /\ pc'[Compositor] = "advance"
    BY <1>1, <1>2, <1>3, <1>6 DEF Breaks
  <2> QED BY <1>6, <2>1 DEF draw_char
<1> QED BY <1>4, <1>5, <1>6 DEF compositor_draw

\* A printed character stays in the text.
LEMMA DrawFacts ==
  ASSUME TypeOK, PcInv, CursorInv, compositor_draw
  PROVE  /\ Writes
         /\ cursor_x' \in SCROLL_X0 .. SCROLL_X1 /\ cursor_y' \in SCROLL_Y0 - 1 .. SCROLL_Y1
         /\ cursor_y' < SCROLL_Y0 => cleared
         /\ pc'[Compositor] = "advance" => cursor_x' < SCROLL_X1
<1>1. /\ at[1] \in SCROLL_X0 .. SCROLL_X1 /\ at[2] \in SCROLL_Y0 - 1 .. SCROLL_Y1
      /\ cursor_x \in SCROLL_X0 .. SCROLL_X1 /\ cursor_y \in SCROLL_Y0 - 1 .. SCROLL_Y1
      /\ cursor_y < SCROLL_Y0 \/ at[2] < SCROLL_Y0 => cleared
      /\ cursor_x \in {at[1], SCROLL_X0} /\ SPACE \in Cell /\ Letters \subseteq Cell
  BY StepFacts, Tasks DEF TypeOK, CursorInv, compositor_draw, Cell
<1>2. CASE c = BS /\ at[1] > SCROLL_X0 /\ pc'[Compositor] = "refresh"
            /\ fb' = Put(fb, SPACE, at[1] - 1, at[2])
            /\ cursor_x' = at[1] - 1 /\ cursor_y' = at[2]
  <2>1. at[1] - 1 \in SCROLL_X0 .. SCROLL_X1 /\ at[1] - 1 # SCROLL_X1
    BY <1>1, <1>2, Sizes
  <2> QED BY <1>1, <1>2, <2>1, PutWrites
<1>3. CASE c = BS /\ at[1] = SCROLL_X0 /\ at[2] > SCROLL_Y0 /\ pc'[Compositor] = "refresh"
            /\ fb' = Put(fb, SPACE, SCROLL_X1, at[2] - 1)
            /\ cursor_x' = SCROLL_X1 /\ cursor_y' = at[2] - 1
  <2>1. at[2] - 1 \in SCROLL_Y0 - 1 .. SCROLL_Y1 /\ ~(at[2] - 1 < SCROLL_Y0)
        /\ at[2] - 1 >= SCROLL_Y0
        /\ SCROLL_X1 \in SCROLL_X0 .. SCROLL_X1
    BY <1>1, <1>3, Sizes
  <2> QED BY <1>1, <1>3, <2>1, PutWrites
<1>4. CASE fb' = fb /\ cursor_x' = cursor_x /\ cursor_y' = cursor_y /\ pc'[Compositor] = "refresh"
  BY <1>1, <1>4, NothingWritten
<1>5. CASE fb' = fb /\ cursor_x' = SCROLL_X0 /\ cursor_y' = at[2] + 1 /\ at[2] < SCROLL_Y1
            /\ pc'[Compositor] = "refresh"
  <2>1. at[2] + 1 \in SCROLL_Y0 - 1 .. SCROLL_Y1 /\ ~(at[2] + 1 < SCROLL_Y0)
        /\ SCROLL_X0 \in SCROLL_X0 .. SCROLL_X1
    BY <1>1, <1>5, Sizes
  <2> QED BY <1>5, <2>1, NothingWritten
<1>6. CASE fb' = compositor_scroll /\ cursor_x' = SCROLL_X0 /\ cursor_y' = SCROLL_Y1
            /\ pc'[Compositor] = "refresh"
  <2>1. SCROLL_Y1 \in SCROLL_Y0 - 1 .. SCROLL_Y1 /\ ~(SCROLL_Y1 < SCROLL_Y0)
        /\ SCROLL_X0 \in SCROLL_X0 .. SCROLL_X1
    BY Sizes
  <2> QED BY <1>6, <2>1, ScrollWrites
<1>7. CASE c \in Letters /\ at[1] < SCROLL_X1 /\ fb' = Put(fb, c, at[1], at[2])
            /\ cursor_x' = cursor_x /\ cursor_y' = cursor_y
  <2>1. cursor_x < SCROLL_X1 /\ at[1] # SCROLL_X1
    BY <1>1, <1>7, Sizes
  <2> QED BY <1>1, <1>7, <2>1, PutWrites
<1> QED BY <1>2, <1>3, <1>4, <1>5, <1>6, <1>7, DrawCases

\* The bottom row is not part of the border or the text.
LEMMA UsageFacts ==
  ASSUME TypeOK, usage_draw
  PROVE  /\ Writes
         /\ \A y \in 0 .. BOTTOM : fb'[y] = fb[y]
<1>1. fb \in [Row -> [Column -> Cell]] /\ DIGIT \in Cell /\ SPACE \in Cell
  BY Cells DEF TypeOK
<1>2. PICK n \in UsageSizes :
        fb' = [fb EXCEPT ![STATUS] = [x \in Column |->
                 IF x \in 1 .. n THEN DIGIT ELSE IF x = n + 1 THEN SPACE ELSE @[x]]]
  BY DEF usage_draw
<1> DEFINE line == [x \in Column |->
                      IF x \in 1 .. n THEN DIGIT ELSE IF x = n + 1 THEN SPACE ELSE fb[STATUS][x]]
<1>3. STATUS \in Row /\ STATUS \notin 0 .. BOTTOM /\ 0 .. BOTTOM \subseteq Row
      /\ SCROLL_Y0 .. SCROLL_Y1 \subseteq 0 .. BOTTOM
  BY Sizes
<1>4. line \in [Column -> Cell]
  BY <1>1, <1>3
<1>5. fb' = [fb EXCEPT ![STATUS] = line]
  BY <1>2
<1> HIDE DEF line
<1>6. fb' \in [Row -> [Column -> Cell]] /\ \A y \in 0 .. BOTTOM : fb'[y] = fb[y]
  BY <1>1, <1>3, <1>4, <1>5
<1>7. TextOnly /\ MarginKept
  BY <1>3, <1>6 DEF TextOnly, MarginKept
<1> QED BY <1>6, <1>7 DEF Writes

\* A column of the text is blanked.
LEMMA ClearFacts ==
  ASSUME TypeOK, PcInv, CursorInv, clear_column
  PROVE  /\ Writes
         /\ column' \in SCROLL_X0 .. SCROLL_X1
         /\ pc'[Console] = "blank" => column' < SCROLL_X1
<1>1. /\ fb \in [Row -> [Column -> Cell]] /\ column \in SCROLL_X0 .. SCROLL_X1
      /\ column < SCROLL_X1 /\ SPACE \in Cell /\ column' = column + 1
      /\ pc'[Console] = IF column + 1 < SCROLL_X1 - SCROLL_X0 + 1 THEN "blank" ELSE "home_x"
  BY Cells, Tasks, StepFacts DEF TypeOK, CursorInv, clear_column
<1>2. \A i \in Row, j \in Column :
        fb'[i][j] = IF i \in SCROLL_Y0 .. SCROLL_Y1 /\ j = column THEN SPACE ELSE fb[i][j]
  BY <1>1 DEF clear_column
<1>3. /\ SCROLL_X1 \in Column /\ 0 .. BOTTOM \subseteq Row /\ SCROLL_Y0 .. SCROLL_Y1 \subseteq Row
      /\ SCROLL_Y0 .. SCROLL_Y1 \subseteq SCROLL_Y0 - 1 .. SCROLL_Y1
      /\ \A y \in SCROLL_Y0 .. SCROLL_Y1 : ~(y < SCROLL_Y0)
  BY Sizes
<1>4. fb' \in [Row -> [Column -> Cell]]
  BY <1>1 DEF clear_column
<1>5. TextOnly
  BY <1>1, <1>2, <1>3 DEF TextOnly
<1>6. MarginKept
  BY <1>2, <1>3 DEF MarginKept
<1>7. column' \in SCROLL_X0 .. SCROLL_X1 /\ (pc'[Console] = "blank" => column' < SCROLL_X1)
  BY <1>1, Sizes
<1> QED BY <1>4, <1>5, <1>6, <1>7 DEF Writes

-----------------------------------------------------------------------------
(* The reference terminal                                                  *)

\* What a character does to the sheet
LEMMA PrintFacts ==
  ASSUME TypeOK, SheetInv
  PROVE  /\ PrintChar(c) \in Sheet
         /\ Len(PrintChar(c).rows) >= Height
         /\ PrintChar(c).row > Len(PrintChar(c).rows) - Height
         /\ PrintChar(c).row <= Len(PrintChar(c).rows)
<1> DEFINE T == [SCROLL_X0 .. SCROLL_X1 -> Letters \cup {SPACE}]
           n == Len(sheet.rows)
           h == Height
<1>1. /\ sheet.rows \in Seq(T) /\ n \in Nat /\ sheet.row \in Nat /\ sheet.row \in 1 .. n
      /\ sheet.x \in SCROLL_X0 .. SCROLL_X1 /\ h \in Nat /\ h >= 1
      /\ n >= h /\ sheet.row > n - h /\ sheet.row <= n /\ Hidden = n - h
      /\ sheet = [rows |-> sheet.rows, row |-> sheet.row, x |-> sheet.x]
      /\ c \in Letters \cup {NL, BS}
  <2>1. /\ sheet.rows \in Seq(T) /\ sheet.row \in Nat /\ sheet.x \in SCROLL_X0 .. SCROLL_X1
        /\ sheet = [rows |-> sheet.rows, row |-> sheet.row, x |-> sheet.x]
        /\ c \in Letters \cup {NL, BS}
    BY DEF TypeOK, Sheet
  <2>2. n \in Nat /\ h \in Nat /\ h >= 1
    BY <2>1, LenProperties, Sizes
  <2>3. Hidden = n - h /\ Hidden >= 0 /\ sheet.row > Hidden /\ sheet.row <= n
    BY DEF SheetInv, Hidden
  <2> HIDE DEF n, h
  <2> QED BY <2>1, <2>2, <2>3
<1>2. Blank \in T
  BY DEF Blank
<1>3. \A i \in 1 .. n : sheet.rows[i] \in T
  BY <1>1, ElementOfSeq
<1>4. CASE PrintChar(c) = NextLine
  <2>1. CASE sheet.row = n
    <3>1. NextLine = [rows |-> Append(sheet.rows, Blank), row |-> sheet.row + 1, x |-> SCROLL_X0]
      BY <2>1 DEF NextLine
    <3>2. Append(sheet.rows, Blank) \in Seq(T) /\ Len(Append(sheet.rows, Blank)) = n + 1
      BY <1>1, <1>2, AppendProperties
    <3>3. SCROLL_X0 \in SCROLL_X0 .. SCROLL_X1 /\ sheet.row + 1 \in Nat
      BY <1>1, Sizes
    <3> HIDE DEF n, h, T
    <3>4. n + 1 >= h /\ sheet.row + 1 > n + 1 - h /\ sheet.row + 1 <= n + 1
      BY <1>1, <2>1
    <3> QED BY <1>1, <1>4, <3>1, <3>2, <3>3, <3>4 DEF Sheet, h, T
  <2>2. CASE sheet.row # n
    <3>1. NextLine = [rows |-> sheet.rows, row |-> sheet.row + 1, x |-> SCROLL_X0]
      BY <2>2 DEF NextLine
    <3>2. SCROLL_X0 \in SCROLL_X0 .. SCROLL_X1 /\ sheet.row + 1 \in Nat
      BY <1>1, Sizes
    <3> HIDE DEF n, h, T
    <3>3. n >= h /\ sheet.row + 1 > n - h /\ sheet.row + 1 <= n
      BY <1>1, <2>2
    <3> QED BY <1>1, <1>4, <3>1, <3>2, <3>3 DEF Sheet, n, h, T
  <2> QED BY <2>1, <2>2
<1>5. ASSUME NEW i \in 1 .. n, NEW j \in SCROLL_X0 .. SCROLL_X1, NEW char \in Letters \cup {SPACE}
      PROVE  /\ [sheet.rows EXCEPT ![i][j] = char] \in Seq(T)
             /\ Len([sheet.rows EXCEPT ![i][j] = char]) = n
  <2> DEFINE row == [sheet.rows[i] EXCEPT ![j] = char]
  <2>1. row \in T
    BY <1>3, <1>5
  <2>2. [sheet.rows EXCEPT ![i][j] = char] = [sheet.rows EXCEPT ![i] = row]
    OBVIOUS
  <2> HIDE DEF row, T
  <2>3. sheet.rows \in Seq(T) /\ i \in 1 .. Len(sheet.rows)
    BY ONLY <1>1, <1>5
  <2>4. /\ [sheet.rows EXCEPT ![i] = row] \in Seq(T)
        /\ Len([sheet.rows EXCEPT ![i] = row]) = Len(sheet.rows)
    BY ONLY <2>1, <2>3, ExceptSeq
  <2> QED BY ONLY <2>2, <2>4
<1>6. CASE c = BS /\ sheet.x > SCROLL_X0
  <2>1. sheet.x - 1 \in SCROLL_X0 .. SCROLL_X1
    BY <1>1, <1>6, Sizes
  <2>2. PrintChar(c) = EraseLeft
    BY <1>6 DEF PrintChar
  <2> DEFINE new == [sheet.rows EXCEPT ![sheet.row][sheet.x - 1] = SPACE]
  <2>3. EraseLeft = [rows |-> new, row |-> sheet.row, x |-> sheet.x - 1]
    BY DEF EraseLeft
  <2>4. new \in Seq(T) /\ Len(new) = n
    BY <1>1, <1>5, <2>1
  <2> HIDE DEF new, n, h
  <2> QED BY <1>1, <2>1, <2>2, <2>3, <2>4 DEF Sheet, h
<1>7. CASE c = BS /\ sheet.x = SCROLL_X0 /\ sheet.row > Hidden + 1
  <2>1. sheet.row - 1 \in 1 .. n /\ SCROLL_X1 \in SCROLL_X0 .. SCROLL_X1
        /\ sheet.row - 1 \in Nat /\ sheet.row - 1 > n - h /\ sheet.row - 1 <= n
    <3>1. SCROLL_X1 \in SCROLL_X0 .. SCROLL_X1
      BY Sizes
    <3>2. sheet.row > (n - h) + 1
      BY <1>1, <1>7
    <3> HIDE DEF n, h
    <3> QED BY ONLY <1>1, <3>1, <3>2
  <2>2. PrintChar(c) = EraseAbove
    BY <1>7, Sizes DEF PrintChar
  <2> DEFINE new == [sheet.rows EXCEPT ![sheet.row - 1][SCROLL_X1] = SPACE]
  <2>3. EraseAbove = [rows |-> new, row |-> sheet.row - 1, x |-> SCROLL_X1]
    BY DEF EraseAbove
  <2>4. new \in Seq(T) /\ Len(new) = n
    BY <1>5, <2>1
  <2> HIDE DEF new, n, h
  <2> QED BY <1>1, <2>1, <2>2, <2>3, <2>4 DEF Sheet, h
<1>8. CASE PrintChar(c) = sheet
  <2>1. sheet \in Sheet
    BY DEF TypeOK
  <2> HIDE DEF n, h
  <2> QED BY <1>1, <1>8, <2>1 DEF n, h
<1>9. CASE c # BS /\ c # NL /\ sheet.x # SCROLL_X1
  <2>1. sheet.x + 1 \in SCROLL_X0 .. SCROLL_X1 /\ c \in Letters
    BY <1>1, <1>9, Sizes
  <2>2. PrintChar(c) = WriteLetter(c)
    BY <1>9 DEF PrintChar
  <2> DEFINE new == [sheet.rows EXCEPT ![sheet.row][sheet.x] = c]
  <2>3. WriteLetter(c) = [rows |-> new, row |-> sheet.row, x |-> sheet.x + 1]
    BY DEF WriteLetter
  <2>4. new \in Seq(T) /\ Len(new) = n
    BY <1>1, <1>5, <2>1
  <2> HIDE DEF new, n, h
  <2> QED BY <1>1, <2>1, <2>2, <2>3, <2>4 DEF Sheet, h
<1>10. c = BS => (sheet.x > SCROLL_X0 \/ sheet.x = SCROLL_X0)
  BY <1>1, Sizes
<1> QED BY <1>4, <1>6, <1>7, <1>8, <1>9, <1>10 DEF PrintChar

-----------------------------------------------------------------------------
(* The edges of the text                                                   *)

\* The background of the border, and where it is
LEMMA BorderFacts ==
  ASSUME NEW x \in Column, NEW y \in 0 .. BOTTOM, Background[y][x] = FRAME
  PROVE  /\ y \in Row /\ <<x, y>> # NoPlace
         /\ ~(x \in SCROLL_X0 .. SCROLL_X1 /\ y \in SCROLL_Y0 .. SCROLL_Y1)
<1>1. y \in Row /\ x # -1
  BY Sizes
<1>2. Background[y][x] = IF y # STATUS /\ (y \in {0, BOTTOM} \/ x \in {0, GRID_WIDTH - 1})
                         THEN FRAME ELSE SPACE
  BY <1>1 DEF Background
<1>3. y \in {0, BOTTOM} \/ x \in {0, GRID_WIDTH - 1}
  BY <1>2 DEF FRAME, SPACE
<1>4. ~(x \in SCROLL_X0 .. SCROLL_X1 /\ y \in SCROLL_Y0 .. SCROLL_Y1)
  BY <1>3, Sizes
<1> QED BY <1>1, <1>4 DEF NoPlace

\* Whoever writes into the text, or the bottom row, leaves the edges alone.
LEMMA EdgesKept ==
  ASSUME BorderIntact, MarginInv, Writes,
         UNCHANGED <<old_screen, saved_vga_entry, cleared>>,
         pc'[Pointer] = "draw" <=> pc[Pointer] = "draw"
  PROVE  BorderIntact' /\ MarginInv'
<1>1. MarginInv'
  BY DEF MarginInv, Writes, MarginKept
<1>2. ASSUME NEW x \in Column, NEW y \in 0 .. BOTTOM,
             Background[y][x] = FRAME, cleared' => ~OverTopBar(x, y)
      PROVE  Beneath(x, y)' = FRAME
  <2>1. Beneath(x, y) = FRAME
    BY <1>2 DEF BorderIntact
  <2>2. fb'[y][x] = fb[y][x]
    <3>1. SUFFICES ASSUME x \in SCROLL_X0 .. SCROLL_X1 /\ y \in SCROLL_Y0 - 1 .. SCROLL_Y1
                            /\ (y < SCROLL_Y0 => cleared /\ x < SCROLL_X1)
                   PROVE FALSE
      BY <1>2 DEF Writes, TextOnly
    <3>2. y \notin SCROLL_Y0 .. SCROLL_Y1
      BY <1>2, <3>1, BorderFacts
    <3>3. y < SCROLL_Y0
      BY <3>1, <3>2, Sizes
    <3>4. OverTopBar(x, y)
      BY <3>1, <3>3, Sizes DEF OverTopBar
    <3> QED BY <1>2, <3>1, <3>3, <3>4
  <2> QED BY <2>1, <2>2 DEF Beneath
<1> QED BY <1>1, <1>2 DEF BorderIntact

\* Nothing changes in the buffer or under the pointer.
LEMMA EdgesSame ==
  ASSUME BorderIntact, MarginInv, UNCHANGED <<fb, old_screen, saved_vga_entry>>,
         cleared => cleared',
         pc'[Pointer] = "draw" <=> pc[Pointer] = "draw"
  PROVE  BorderIntact' /\ MarginInv'
<1>1. \A x \in Column, y \in 0 .. BOTTOM : Beneath(x, y)' = Beneath(x, y)
  BY DEF Beneath
<1> QED BY <1>1 DEF BorderIntact, MarginInv

\* The pointer goes away: what was beneath it is put back.
LEMMA EdgesRestored ==
  ASSUME TypeOK, PcInv, BorderIntact, MarginInv, pointer_restore
  PROVE  /\ fb' \in [Row -> [Column -> Cell]]
         /\ BorderIntact' /\ MarginInv'
<1>1. /\ fb \in [Row -> [Column -> Cell]] /\ saved_vga_entry \in Cell
      /\ old_screen \in Place \cup {NoPlace}
      /\ pc[Pointer] = "restore" /\ pc'[Pointer] = "draw"
      /\ old_screen' = old_screen /\ saved_vga_entry' = saved_vga_entry /\ cleared' = cleared
  BY Tasks, StepFacts DEF TypeOK, pointer_restore, pointerVars, clearVars
<1>2. CASE old_screen = NoPlace
  <2>1. fb' = fb
    BY <1>2 DEF pointer_restore
  <2>2. \A x \in Column, y \in 0 .. BOTTOM : Background[y][x] = FRAME => Beneath(x, y)' = Beneath(x, y)
    BY <1>1, <1>2, <2>1, BorderFacts DEF Beneath
  <2> QED BY <1>1, <2>1, <2>2 DEF BorderIntact, MarginInv
<1>3. CASE old_screen # NoPlace
  <2>1. PICK a \in Column, b \in 0 .. BOTTOM : old_screen = <<a, b>>
    BY <1>1, <1>3 DEF Place
  <2>2. b \in Row /\ old_screen[1] = a /\ old_screen[2] = b
    BY <2>1, Sizes
  <2>3. fb' = Put(fb, saved_vga_entry, a, b)
    BY <1>3, <2>2 DEF pointer_restore
  <2>4. /\ fb' \in [Row -> [Column -> Cell]]
        /\ \A i \in Row, j \in Column :
             fb'[i][j] = IF i = b /\ j = a THEN saved_vga_entry ELSE fb[i][j]
    BY <1>1, <2>2, <2>3, PutFacts
  <2>5. \A x \in Column, y \in 0 .. BOTTOM : Background[y][x] = FRAME => Beneath(x, y)' = Beneath(x, y)
    BY <1>1, <2>1, <2>4, BorderFacts DEF Beneath
  <2>6. BorderIntact'
    BY <1>1, <2>5 DEF BorderIntact
  <2>7. MarginInv'
    <3>1. SCROLL_Y0 .. SCROLL_Y1 \subseteq Row /\ SCROLL_X1 \in Column
      BY Sizes
    <3> QED BY <1>1, <2>1, <2>4, <3>1 DEF MarginInv
  <2> QED BY <2>4, <2>6, <2>7
<1> QED BY <1>2, <1>3

\* The pointer comes: what it covers is kept.
LEMMA EdgesCovered ==
  ASSUME TypeOK, PcInv, BorderIntact, MarginInv, pointer_draw
  PROVE  /\ fb' \in [Row -> [Column -> Cell]] /\ saved_vga_entry' \in Cell
         /\ old_screen' \in Place
         /\ BorderIntact' /\ MarginInv'
<1>1. /\ fb \in [Row -> [Column -> Cell]] /\ new_screen \in Place /\ GLYPH \in Cell
      /\ pc[Pointer] = "draw" /\ pc'[Pointer] = "refresh"
      /\ old_screen' = new_screen /\ cleared' = cleared
  BY Tasks, StepFacts, Cells DEF TypeOK, pointer_draw, clearVars
<1>2. PICK a \in Column, b \in 0 .. BOTTOM : new_screen = <<a, b>>
  BY <1>1 DEF Place
<1>3. b \in Row /\ new_screen[1] = a /\ new_screen[2] = b
  BY <1>2, Sizes
<1>4. saved_vga_entry' = fb[b][a] /\ fb' = Put(fb, GLYPH, a, b)
  BY <1>3 DEF pointer_draw
<1>5. /\ fb' \in [Row -> [Column -> Cell]]
      /\ \A i \in Row, j \in Column : fb'[i][j] = IF i = b /\ j = a THEN GLYPH ELSE fb[i][j]
  BY <1>1, <1>3, <1>4, PutFacts
<1>6. \A x \in Column, y \in 0 .. BOTTOM : Background[y][x] = FRAME => Beneath(x, y)' = Beneath(x, y)
  BY <1>1, <1>2, <1>4, <1>5, BorderFacts DEF Beneath
<1>7. BorderIntact'
  BY <1>1, <1>6 DEF BorderIntact
<1>8. MarginInv'
  <2>1. SCROLL_Y0 .. SCROLL_Y1 \subseteq Row /\ SCROLL_X1 \in Column
    BY Sizes
  <2> QED BY <1>1, <1>2, <1>4, <1>5, <2>1 DEF MarginInv
<1>9. saved_vga_entry' \in Cell
  BY <1>1, <1>3, <1>4
<1> QED BY <1>1, <1>5, <1>7, <1>8, <1>9

-----------------------------------------------------------------------------
(* The text                                                                *)

Written(rows, row, x, char) == [rows EXCEPT ![row][x] = char]

\* A letter of the sheet is written in the window.
LEMMA LetterShown ==
  ASSUME TypeOK, SheetInv, Shown(sheet, fb, cursor_x, cursor_y),
         NEW char \in Letters \cup {SPACE},
         NEW x \in SCROLL_X0 .. SCROLL_X1, NEW y \in SCROLL_Y0 .. SCROLL_Y1,
         NEW row, row = Hidden + y, NEW b, b = Put(fb, char, x, y),
         NEW rows, rows = Written(sheet.rows, row, x, char)
  PROVE  Len(rows) = Len(sheet.rows) /\ InWindow(b, rows)
<1> DEFINE T == [SCROLL_X0 .. SCROLL_X1 -> Letters \cup {SPACE}]
           n == Len(sheet.rows)
           h == Height
           line == [sheet.rows[row] EXCEPT ![x] = char]
<1>1. /\ sheet.rows \in Seq(T) /\ n \in Nat /\ h \in Nat /\ h = SCROLL_Y1 /\ SCROLL_Y0 = 1
      /\ Hidden = n - h /\ n - h >= 0
  <2>1. sheet.rows \in Seq(T)
    BY DEF TypeOK, Sheet
  <2>2. Hidden = n - h /\ Hidden >= 0
    BY DEF SheetInv, Hidden
  <2> QED BY <2>1, <2>2, LenProperties, Sizes
<1>2. row \in 1 .. n
  <2> HIDE DEF n, h
  <2> QED BY <1>1
<1>3. sheet.rows[row] \in T
  BY <1>1, <1>2, ElementOfSeq
<1>4. line \in T /\ \A j \in SCROLL_X0 .. SCROLL_X1 : line[j] = IF j = x THEN char ELSE sheet.rows[row][j]
  BY <1>3
<1>5. rows = [sheet.rows EXCEPT ![row] = line]
  BY DEF Written
<1> HIDE DEF line, T
<1>6. Len(rows) = n /\ \A k \in 1 .. n : rows[k] = IF k = row THEN line ELSE sheet.rows[k]
  <2>1. /\ Len([sheet.rows EXCEPT ![row] = line]) = Len(sheet.rows)
        /\ \A k \in 1 .. Len(sheet.rows) : [sheet.rows EXCEPT ![row] = line][k] = IF k = row THEN line ELSE sheet.rows[k]
    BY ONLY <1>1, <1>2, <1>4, ExceptSeq
  <2> QED BY ONLY <1>5, <2>1
<1>7. fb \in [Row -> [Column -> Cell]] /\ char \in Cell
  BY DEF TypeOK, Cell
<1>8. /\ x \in Column /\ y \in Row /\ SCROLL_Y0 .. SCROLL_Y1 \subseteq Row
      /\ SCROLL_X0 .. SCROLL_X1 \subseteq Column
  BY Sizes
<1>9. \A i \in Row, j \in Column : b[i][j] = IF i = y /\ j = x THEN char ELSE fb[i][j]
  BY <1>7, <1>8, PutFacts
<1>10. ASSUME NEW i \in SCROLL_Y0 .. SCROLL_Y1, NEW j \in SCROLL_X0 .. SCROLL_X1
       PROVE  b[i][j] = rows[(n - h) + i][j]
  <2> DEFINE k == (n - h) + i
  <2>1. k \in 1 .. n /\ (k = row <=> i = y)
    <3> HIDE DEF n, h
    <3> QED BY <1>1, <1>2
  <2>2. fb[i][j] = sheet.rows[k][j]
    BY DEF Shown, InWindow
  <2> HIDE DEF k, n, h
  <2>3. rows[k][j] = IF i = y /\ j = x THEN char ELSE sheet.rows[k][j]
    <3>1. CASE i = y
      BY <1>4, <1>6, <2>1, <3>1
    <3>2. CASE i # y
      BY <1>6, <2>1, <3>2
    <3> QED BY <3>1, <3>2
  <2> QED BY <1>8, <1>9, <2>2, <2>3 DEF k
<1> QED BY <1>6, <1>10 DEF InWindow

\* What the compositor draws is what the reference terminal shows.
LEMMA DrawShown ==
  ASSUME TypeOK, PcInv, CursorInv, SheetInv, compositor_draw,
         Shown(sheet, fb, cursor_x, cursor_y), at = <<cursor_x, cursor_y>>, ~cleared
  PROVE  /\ pc'[Compositor] = "advance" => Shown(PrintChar(c), fb', cursor_x' + 1, cursor_y')
         /\ pc'[Compositor] = "refresh" => Shown(PrintChar(c), fb', cursor_x', cursor_y')
<1> DEFINE n == Len(sheet.rows)
           h == Height
           s == PrintChar(c)
<1>1. /\ n \in Nat /\ h \in Nat /\ h = SCROLL_Y1 /\ SCROLL_Y0 = 1 /\ SCROLL_X0 = 1 /\ h >= 1
      /\ Hidden = n - h /\ n - h >= 0 /\ sheet.row \in Nat /\ sheet.x \in SCROLL_X0 .. SCROLL_X1
      /\ sheet.row > n - h /\ sheet.row <= n
  <2>1. /\ sheet.rows \in Seq([SCROLL_X0 .. SCROLL_X1 -> Letters \cup {SPACE}])
        /\ sheet.row \in Nat /\ sheet.x \in SCROLL_X0 .. SCROLL_X1
    BY DEF TypeOK, Sheet
  <2>2. Hidden = n - h /\ Hidden >= 0 /\ sheet.row > Hidden /\ sheet.row <= n
    BY DEF SheetInv, Hidden
  <2> QED BY <2>1, <2>2, LenProperties, Sizes
<1>2. /\ at[1] = sheet.x /\ at[2] = sheet.row - (n - h)
      /\ cursor_x = sheet.x /\ cursor_y = sheet.row - (n - h)
  BY DEF Shown
<1> HIDE DEF n, h
<1>3. /\ at[1] \in SCROLL_X0 .. SCROLL_X1 /\ at[2] \in SCROLL_Y0 .. SCROLL_Y1
      /\ sheet.row = Hidden + at[2]
      /\ at[2] > SCROLL_Y0 <=> sheet.row > Hidden + 1
      /\ at[2] = SCROLL_Y1 <=> sheet.row = n
      /\ at[1] > SCROLL_X0 <=> sheet.x > SCROLL_X0
  BY <1>1, <1>2
<1>4. CASE c = BS /\ at[1] > SCROLL_X0 /\ pc'[Compositor] = "refresh"
            /\ fb' = Put(fb, SPACE, at[1] - 1, at[2])
            /\ cursor_x' = at[1] - 1 /\ cursor_y' = at[2]
  <2>1. s = EraseLeft
    BY <1>3, <1>4 DEF PrintChar
  <2>2. /\ s.rows = [sheet.rows EXCEPT ![sheet.row][at[1] - 1] = SPACE]
        /\ s.row = sheet.row /\ s.x = at[1] - 1
    BY <1>2, <2>1 DEF EraseLeft
  <2> HIDE DEF s
  <2>3. at[1] - 1 \in SCROLL_X0 .. SCROLL_X1
    BY <1>1, <1>3, <1>4, Sizes
  <2>4. /\ Len(s.rows) = n
        /\ InWindow(fb', s.rows)
    <3> DEFINE x == at[1] - 1
               y == at[2]
               row == sheet.row
               rows == s.rows
               b == fb'
    <3>1. /\ x \in SCROLL_X0 .. SCROLL_X1 /\ y \in SCROLL_Y0 .. SCROLL_Y1 /\ row = Hidden + y
          /\ b = Put(fb, SPACE, x, y) /\ rows = Written(sheet.rows, row, x, SPACE)
          /\ SPACE \in Letters \cup {SPACE}
      BY <1>3, <1>4, <2>2, <2>3 DEF Written
    <3> HIDE DEF x, y, row, rows, b
    <3>2. /\ Len(rows) = Len(sheet.rows)
          /\ InWindow(b, rows)
      BY <3>1, LetterShown
    <3> QED BY <3>2 DEF rows, n, b
  <2> QED BY <1>2, <1>4, <2>2, <2>4 DEF Shown, s, h
<1>5. CASE c = BS /\ at[1] = SCROLL_X0 /\ at[2] > SCROLL_Y0 /\ pc'[Compositor] = "refresh"
            /\ fb' = Put(fb, SPACE, SCROLL_X1, at[2] - 1)
            /\ cursor_x' = SCROLL_X1 /\ cursor_y' = at[2] - 1
  <2>1. ~(sheet.x > SCROLL_X0)
    BY <1>1, <1>2, <1>5
  <2>2. s = EraseAbove
    BY <1>3, <1>5, <2>1 DEF PrintChar
  <2>3. /\ s.rows = [sheet.rows EXCEPT ![sheet.row - 1][SCROLL_X1] = SPACE]
        /\ s.row = sheet.row - 1 /\ s.x = SCROLL_X1
    BY <2>2 DEF EraseAbove
  <2> HIDE DEF s
  <2>4. /\ SCROLL_X1 \in SCROLL_X0 .. SCROLL_X1 /\ at[2] - 1 \in SCROLL_Y0 .. SCROLL_Y1
        /\ sheet.row - 1 = Hidden + (at[2] - 1)
        /\ at[2] - 1 = sheet.row - 1 - (n - h)
    <3>1. SCROLL_X1 \in SCROLL_X0 .. SCROLL_X1
      BY Sizes
    <3> DEFINE y == at[2] row == sheet.row hidden == Hidden d == n - h
    <3>2. /\ y \in SCROLL_Y0 .. SCROLL_Y1 /\ y > SCROLL_Y0 /\ row = hidden + y
          /\ hidden = d /\ d \in Int /\ row \in Nat /\ SCROLL_Y0 \in Int /\ SCROLL_Y1 \in Int
      BY <1>1, <1>3, <1>5, Sizes
    <3> HIDE DEF y, row, hidden, d
    <3>3. /\ y - 1 \in SCROLL_Y0 .. SCROLL_Y1 /\ row - 1 = hidden + (y - 1)
          /\ y - 1 = row - 1 - d
      BY <3>2
    <3> QED BY <3>1, <3>3 DEF y, row, hidden, d
  <2>5. /\ Len(s.rows) = n
        /\ InWindow(fb', s.rows)
    <3> DEFINE x == SCROLL_X1
               y == at[2] - 1
               row == sheet.row - 1
               rows == s.rows
               b == fb'
    <3>1. /\ x \in SCROLL_X0 .. SCROLL_X1 /\ y \in SCROLL_Y0 .. SCROLL_Y1 /\ row = Hidden + y
          /\ b = Put(fb, SPACE, x, y) /\ rows = Written(sheet.rows, row, x, SPACE)
          /\ SPACE \in Letters \cup {SPACE}
      BY <1>5, <2>3, <2>4 DEF Written
    <3> HIDE DEF x, y, row, rows, b
    <3>2. /\ Len(rows) = Len(sheet.rows)
          /\ InWindow(b, rows)
      BY <3>1, LetterShown
    <3> QED BY <3>2 DEF rows, n, b
  <2> QED BY <1>5, <2>3, <2>4, <2>5 DEF Shown, s, h
<1>6. CASE c = BS /\ at[1] = SCROLL_X0 /\ at[2] <= SCROLL_Y0 /\ pc'[Compositor] = "refresh"
            /\ fb' = fb /\ cursor_x' = cursor_x /\ cursor_y' = cursor_y
  <2>1. ~(sheet.x > SCROLL_X0) /\ ~(sheet.row > Hidden + 1)
    BY <1>1, <1>2, <1>3, <1>6
  <2>2. s = sheet
    BY <1>6, <2>1 DEF PrintChar
  <2> QED BY <1>6, <2>2 DEF Shown
<1>7. CASE c # BS /\ (c = NL \/ at[1] = SCROLL_X1) /\ at[2] < SCROLL_Y1
            /\ pc'[Compositor] = "refresh"
            /\ fb' = fb /\ cursor_x' = SCROLL_X0 /\ cursor_y' = at[2] + 1
  <2>1. sheet.row # n /\ at[2] + 1 = sheet.row + 1 - (n - h)
    BY <1>1, <1>2, <1>3, <1>7
  <2>2. s = NextLine
    BY <1>2, <1>7 DEF PrintChar
  <2>3. s.rows = sheet.rows /\ s.row = sheet.row + 1 /\ s.x = SCROLL_X0
    BY <2>1, <2>2 DEF NextLine, n
  <2> HIDE DEF s
  <2>4. s.row - (n - h) = at[2] + 1
    BY <1>1, <2>1, <2>3
  <2> QED BY <1>7, <2>3, <2>4 DEF Shown, s, n, h
<1>8. CASE c # BS /\ (c = NL \/ at[1] = SCROLL_X1) /\ at[2] = SCROLL_Y1
            /\ pc'[Compositor] = "refresh"
            /\ fb' = compositor_scroll /\ cursor_x' = SCROLL_X0 /\ cursor_y' = SCROLL_Y1
  <2> DEFINE T == [SCROLL_X0 .. SCROLL_X1 -> Letters \cup {SPACE}]
  <2>1. s = NextLine /\ sheet.row = n
    BY <1>2, <1>3, <1>8 DEF PrintChar
  <2>2. s.rows = Append(sheet.rows, Blank) /\ s.row = sheet.row + 1 /\ s.x = SCROLL_X0
    BY <2>1 DEF NextLine, n
  <2> HIDE DEF s
  <2>3. sheet.rows \in Seq(T) /\ Blank \in T
    BY DEF TypeOK, Sheet, Blank
  <2>4. /\ Len(s.rows) = n + 1 /\ s.rows[n + 1] = Blank
        /\ \A k \in 1 .. n : s.rows[k] = sheet.rows[k]
    BY <2>2, <2>3, AppendProperties DEF n
  <2>5. s.row - ((n + 1) - h) = SCROLL_Y1
    BY <1>1, <2>1, <2>2
  <2>6. ASSUME NEW i \in SCROLL_Y0 .. SCROLL_Y1, NEW j \in SCROLL_X0 .. SCROLL_X1
        PROVE  fb'[i][j] = s.rows[((n + 1) - h) + i][j]
    <3>1. i \in Row /\ j \in Column /\ i \in Nat
      BY Sizes
    <3>2. fb'[i][j] = IF i < SCROLL_Y1 THEN fb[i + 1][j] ELSE SPACE
      BY <1>8, <3>1 DEF compositor_scroll
    <3>3. CASE i < SCROLL_Y1
      <4> DEFINE k == (n - h) + (i + 1)
      <4>1. i + 1 \in SCROLL_Y0 .. SCROLL_Y1 /\ k \in 1 .. n /\ k = ((n + 1) - h) + i
        BY <1>1, <3>1, <3>3
      <4>2. fb[i + 1][j] = sheet.rows[k][j]
        BY <4>1 DEF Shown, InWindow, n, h
      <4> HIDE DEF k
      <4> QED BY <2>4, <3>2, <3>3, <4>1, <4>2
    <3>4. CASE ~(i < SCROLL_Y1)
      <4>1. i = h
        BY <1>1, <3>4
      <4>2. ((n + 1) - h) + i = n + 1
        BY <1>1, <4>1
      <4>3. Blank[j] = SPACE
        BY DEF Blank
      <4> QED BY <2>4, <3>2, <3>4, <4>2, <4>3
    <3> QED BY <3>3, <3>4
  <2>7. InWindow(fb', s.rows)
    <3> HIDE DEF n
    <3> QED BY <2>4, <2>6 DEF InWindow, h
  <2>8. s.row - (Len(s.rows) - h) = SCROLL_Y1
    BY <2>4, <2>5
  <2> QED BY ONLY <1>8, <2>2, <2>7, <2>8 DEF Shown, s, h
<1>9. CASE c \in Letters /\ c # BS /\ c # NL /\ at[1] < SCROLL_X1 /\ pc'[Compositor] = "advance"
            /\ fb' = Put(fb, c, at[1], at[2]) /\ cursor_x' = cursor_x /\ cursor_y' = cursor_y
  <2>1. sheet.x # SCROLL_X1
    BY <1>1, <1>2, <1>9, Sizes
  <2>2. s = WriteLetter(c)
    BY <1>9, <2>1 DEF PrintChar
  <2>3. /\ s.rows = [sheet.rows EXCEPT ![sheet.row][at[1]] = c]
        /\ s.row = sheet.row /\ s.x = sheet.x + 1
    BY <1>2, <2>2 DEF WriteLetter
  <2> HIDE DEF s
  <2>4. /\ Len(s.rows) = n
        /\ InWindow(fb', s.rows)
    <3> DEFINE x == at[1]
               y == at[2]
               row == sheet.row
               rows == s.rows
               b == fb'
    <3>1. /\ x \in SCROLL_X0 .. SCROLL_X1 /\ y \in SCROLL_Y0 .. SCROLL_Y1 /\ row = Hidden + y
          /\ b = Put(fb, c, x, y) /\ rows = Written(sheet.rows, row, x, c)
          /\ c \in Letters \cup {SPACE}
      BY <1>3, <1>9, <2>3 DEF Written
    <3> HIDE DEF x, y, row, rows, b
    <3>2. /\ Len(rows) = Len(sheet.rows)
          /\ InWindow(b, rows)
      BY <3>1, LetterShown
    <3> QED BY <3>2 DEF rows, n, b
  <2> QED BY <1>2, <1>9, <2>3, <2>4 DEF Shown, s, h
<1> QED BY <1>4, <1>5, <1>6, <1>7, <1>8, <1>9, DrawCases

-----------------------------------------------------------------------------
(* The steps                                                               *)

\* The values the steps assign
LEMMA StartValues ==
  /\ SCROLL_X0 \in SCROLL_X0 .. SCROLL_X1 /\ SCROLL_X0 < SCROLL_X1
  /\ SCROLL_Y0 \in SCROLL_Y0 - 1 .. SCROLL_Y1 /\ ~(SCROLL_Y0 < SCROLL_Y0)
  /\ SCROLL_Y0 - 1 \in SCROLL_Y0 - 1 .. SCROLL_Y1
  /\ <<0, 0>> \in Place /\ NoPlace \notin Place
<1>1. 0 \in Column /\ 0 \in 0 .. BOTTOM /\ -1 \notin Column
  BY Sizes
<1> QED BY <1>1, Sizes DEF Place, NoPlace

\* A task waits, or gives the lock back: nothing is drawn.
QuietStep ==
  \/ \E p \in {Compositor, Usage, Pointer} : spinlock_release(p, "idle")
  \/ spinlock_acquire(Compositor, "load") \/ spinlock_acquire(Usage, "draw")
  \/ spinlock_acquire(Pointer, "restore")
  \/ usage_sleep \/ pointer_start

LEMMA Quiet ==
  ASSUME ScreenInv, QuietStep \/ UNCHANGED vars, PcInv'
  PROVE  ScreenInv'
<1> USE DEF ScreenInv
<1>1. /\ UNCHANGED <<fb, screen, cursor_x, cursor_y, at, c, printed, sheet,
                     old_screen, saved_vga_entry, new_screen, column, cleared>>
      /\ compositor_lock' \in BOOLEAN
  BY DEF QuietStep, spinlock_acquire, spinlock_release, usage_sleep, pointer_start, vars,
         cursorVars, pointerVars, clearVars, history, TypeOK
<1>2. /\ pc'[Console] = pc[Console]
      /\ pc'[Pointer] = "draw" <=> pc[Pointer] = "draw"
      /\ \A p \in Task : Drawn(p)' <=> Drawn(p)
      /\ \/ pc'[Compositor] = pc[Compositor]
         \/ pc[Compositor] = "acquire" /\ pc'[Compositor] = "load"
         \/ pc[Compositor] = "release" /\ pc'[Compositor] = "idle"
  <2>1. CASE UNCHANGED vars
    BY <2>1 DEF vars, Drawn
  <2>2. CASE \E p \in {Compositor, Usage, Pointer} : spinlock_release(p, "idle")
    <3>1. PICK p \in {Compositor, Usage, Pointer} : Step(p, "release", "idle")
      BY <2>2 DEF spinlock_release
    <3>2. pc[p] = "release" /\ pc'[p] = "idle" /\ \A q \in Task : q # p => pc'[q] = pc[q]
      BY <3>1, Tasks, StepFacts
    <3> QED BY <3>2, Tasks DEF Drawn
  <2>3. CASE spinlock_acquire(Compositor, "load")
    <3>1. pc[Compositor] = "acquire" /\ pc'[Compositor] = "load"
          /\ \A q \in Task : q # Compositor => pc'[q] = pc[q]
      BY <2>3, Tasks, StepFacts DEF spinlock_acquire
    <3> QED BY <3>1, Tasks DEF Drawn
  <2>4. CASE spinlock_acquire(Usage, "draw")
    <3>1. pc[Usage] = "acquire" /\ pc'[Usage] = "draw"
          /\ \A q \in Task : q # Usage => pc'[q] = pc[q]
      BY <2>4, Tasks, StepFacts DEF spinlock_acquire
    <3> QED BY <3>1, Tasks DEF Drawn
  <2>5. CASE spinlock_acquire(Pointer, "restore")
    <3>1. pc[Pointer] = "acquire" /\ pc'[Pointer] = "restore"
          /\ \A q \in Task : q # Pointer => pc'[q] = pc[q]
      BY <2>5, Tasks, StepFacts DEF spinlock_acquire
    <3> QED BY <3>1, Tasks DEF Drawn
  <2>6. CASE usage_sleep
    <3>1. pc[Usage] = "idle" /\ pc'[Usage] = "acquire"
          /\ \A q \in Task : q # Usage => pc'[q] = pc[q]
      BY <2>6, Tasks, StepFacts DEF usage_sleep
    <3> QED BY <3>1, Tasks DEF Drawn
  <2>7. CASE pointer_start
    <3>1. pc[Pointer] = "off" /\ pc'[Pointer] = "idle"
          /\ \A q \in Task : q # Pointer => pc'[q] = pc[q]
      BY <2>7, Tasks, StepFacts DEF pointer_start
    <3> QED BY <3>1, Tasks DEF Drawn
  <2> QED BY <2>1, <2>2, <2>3, <2>4, <2>5, <2>6, <2>7 DEF QuietStep
<1>3. TypeOK'
  BY <1>1 DEF TypeOK
<1>4. CursorInv'
  BY <1>1, <1>2 DEF CursorInv
<1>5. DisplayCurrent'
  BY <1>1, <1>2 DEF DisplayCurrent, Clearing, Restored
<1>6. BorderIntact' /\ MarginInv'
  BY <1>1, <1>2, EdgesSame
<1>7. SheetInv'
  BY <1>1, <1>2 DEF SheetInv, Hidden
<1>8. TextInv'
  <2>1. PrintChar(c)' = PrintChar(c)
    BY <1>1 DEF PrintChar, EraseLeft, EraseAbove, NextLine, WriteLetter, Hidden
  <2> QED BY <1>1, <1>2, <2>1 DEF TextInv
<1> QED BY <1>3, <1>4, <1>5, <1>6, <1>7, <1>8

\* The compositor
LEMMA CompositorStep ==
  ASSUME ScreenInv, PcInv',
         compositor_take \/ compositor_load_x \/ compositor_load_y \/ compositor_draw
           \/ compositor_advance \/ compositor_refresh
  PROVE  ScreenInv'
<1> USE DEF ScreenInv
<1>1. /\ UNCHANGED <<compositor_lock, old_screen, saved_vga_entry, new_screen, column, cleared>>
      /\ \A q \in Task : q # Compositor => pc'[q] = pc[q]
  BY Tasks, StepFacts
     DEF compositor_take, compositor_load_x, compositor_load_y, compositor_draw,
         compositor_advance, compositor_refresh, pointerVars, clearVars
<1>2. CASE compositor_take
  <2>1. /\ UNCHANGED <<fb, screen, cursor_x, cursor_y, at, printed, sheet>>
        /\ c' \in Letters \cup {NL, BS} /\ printed < TextLimit
        /\ pc[Compositor] = "idle" /\ pc'[Compositor] = "acquire"
    BY <1>2, Tasks, StepFacts DEF compositor_take, history
  <2>2. TypeOK' /\ CursorInv' /\ SheetInv'
    BY <1>1, <2>1, Tasks DEF TypeOK, CursorInv, SheetInv, Hidden
  <2>3. DisplayCurrent'
    BY <1>1, <2>1, Tasks DEF DisplayCurrent, Drawn, Clearing, Restored
  <2>4. BorderIntact' /\ MarginInv'
    BY <1>1, <2>1, Tasks, EdgesSame
  <2>5. TextInv'
    BY <1>1, <2>1 DEF TextInv
  <2> QED BY <2>2, <2>3, <2>4, <2>5
<1>3. CASE compositor_load_x \/ compositor_load_y
  <2>1. /\ UNCHANGED <<fb, screen, cursor_x, cursor_y, c, printed, sheet>>
        /\ \/ /\ at' = <<cursor_x, at[2]>>
              /\ pc[Compositor] = "load" /\ pc'[Compositor] = "load_y"
           \/ /\ at' = <<at[1], cursor_y>>
              /\ pc[Compositor] = "load_y" /\ pc'[Compositor] = "draw"
    BY <1>3, Tasks, StepFacts DEF compositor_load_x, compositor_load_y, history
  <2>2. TypeOK' /\ CursorInv' /\ SheetInv'
    BY <1>1, <2>1, Tasks DEF TypeOK, CursorInv, SheetInv, Hidden
  <2>3. DisplayCurrent'
    BY <1>1, <2>1, Tasks DEF DisplayCurrent, Drawn, Clearing, Restored
  <2>4. BorderIntact' /\ MarginInv'
    BY <1>1, <2>1, Tasks, EdgesSame
  <2>5. TextInv'
    BY <1>1, <2>1 DEF TextInv
  <2> QED BY <2>2, <2>3, <2>4, <2>5
<1>4. CASE compositor_draw
  <2>1. /\ UNCHANGED <<screen, at, c, printed, sheet>>
        /\ pc[Compositor] = "draw" /\ pc'[Compositor] \in {"advance", "refresh"}
    BY <1>4, Tasks, StepFacts DEF compositor_draw, history
  <2>2. /\ Writes
        /\ cursor_x' \in SCROLL_X0 .. SCROLL_X1 /\ cursor_y' \in SCROLL_Y0 - 1 .. SCROLL_Y1
        /\ cursor_y' < SCROLL_Y0 => cleared
        /\ pc'[Compositor] = "advance" => cursor_x' < SCROLL_X1
    BY <1>4, DrawFacts
  <2>3. TypeOK' /\ CursorInv' /\ SheetInv'
    BY <1>1, <2>1, <2>2, Tasks DEF TypeOK, CursorInv, SheetInv, Hidden, Writes
  <2>4. DisplayCurrent'
    BY <2>1, Tasks DEF DisplayCurrent, Drawn
  <2>5. BorderIntact' /\ MarginInv'
    BY <1>1, <2>2, Tasks, EdgesKept
  <2>6. TextInv'
    <3>1. SUFFICES ASSUME ~cleared, old_screen = NoPlace
                   PROVE  /\ pc'[Compositor] = "advance"
                               => Shown(PrintChar(c), fb, cursor_x + 1, cursor_y)'
                          /\ pc'[Compositor] = "refresh"
                               => Shown(PrintChar(c), fb, cursor_x, cursor_y)'
      BY <1>1, <2>1 DEF TextInv
    <3>2. Shown(sheet, fb, cursor_x, cursor_y) /\ at = <<cursor_x, cursor_y>>
      BY <2>1, <3>1 DEF TextInv
    <3>3. /\ pc'[Compositor] = "advance" => Shown(PrintChar(c), fb', cursor_x' + 1, cursor_y')
          /\ pc'[Compositor] = "refresh" => Shown(PrintChar(c), fb', cursor_x', cursor_y')
      BY <1>4, <3>1, <3>2, DrawShown
    <3>4. PrintChar(c)' = PrintChar(c)
      BY <2>1 DEF PrintChar, EraseLeft, EraseAbove, NextLine, WriteLetter, Hidden
    <3> QED BY <3>3, <3>4 DEF Shown, InWindow
  <2> QED BY <2>3, <2>4, <2>5, <2>6
<1>5. CASE compositor_advance
  <2>1. /\ UNCHANGED <<fb, screen, cursor_y, at, c, printed, sheet>>
        /\ cursor_x' = cursor_x + 1 /\ cursor_x < SCROLL_X1
        /\ pc[Compositor] = "advance" /\ pc'[Compositor] = "refresh"
    BY <1>5, Tasks, StepFacts DEF compositor_advance, history, CursorInv
  <2>2. cursor_x' \in SCROLL_X0 .. SCROLL_X1
    <3>1. cursor_x \in SCROLL_X0 .. SCROLL_X1
      BY DEF TypeOK
    <3> QED BY <2>1, <3>1, Sizes
  <2>3. TypeOK' /\ CursorInv' /\ SheetInv'
    BY <1>1, <2>1, <2>2, Tasks DEF TypeOK, CursorInv, SheetInv, Hidden
  <2>4. DisplayCurrent'
    BY <2>1, Tasks DEF DisplayCurrent, Drawn
  <2>5. BorderIntact' /\ MarginInv'
    BY <1>1, <2>1, Tasks, EdgesSame
  <2>6. TextInv'
    <3>1. PrintChar(c)' = PrintChar(c)
      BY <2>1 DEF PrintChar, EraseLeft, EraseAbove, NextLine, WriteLetter, Hidden
    <3> QED BY <1>1, <2>1, <3>1 DEF TextInv
  <2> QED BY <2>3, <2>4, <2>5, <2>6
<1>6. CASE compositor_refresh
  <2>1. /\ UNCHANGED <<fb, cursor_x, cursor_y, at, c>> /\ screen' = fb
        /\ printed' = printed + 1 /\ sheet' = PrintChar(c)
        /\ pc[Compositor] = "refresh" /\ pc'[Compositor] = "release"
    BY <1>6, Tasks, StepFacts DEF compositor_refresh, vga_refresh
  <2>2. printed + 1 \in 0 .. TextLimit
    <3>1. printed \in 0 .. TextLimit /\ printed < TextLimit
      BY <2>1 DEF TypeOK, SheetInv
    <3> QED BY <3>1, Sizes
  <2>3. /\ PrintChar(c) \in Sheet
        /\ Len(PrintChar(c).rows) >= Height
        /\ PrintChar(c).row > Len(PrintChar(c).rows) - Height
        /\ PrintChar(c).row <= Len(PrintChar(c).rows)
    BY PrintFacts
  <2>4. TypeOK' /\ CursorInv'
    BY <1>1, <2>1, <2>2, <2>3, Tasks DEF TypeOK, CursorInv
  <2>5. SheetInv'
    <3> DEFINE n == Len(PrintChar(c).rows)
               h == Height
    <3>1. Hidden' = n - h
      BY <2>1 DEF Hidden
    <3>2. n \in Nat /\ h \in Nat
      BY <2>3, LenProperties, Sizes DEF Sheet
    <3> HIDE DEF n, h
    <3>3. n - h >= 0
      BY <2>3, <3>2 DEF n, h
    <3> QED BY <2>1, <2>3, <3>1, <3>3 DEF SheetInv, n, h
  <2>6. DisplayCurrent'
    BY <2>1 DEF DisplayCurrent
  <2>7. BorderIntact' /\ MarginInv'
    BY <1>1, <2>1, Tasks, EdgesSame
  <2>8. TextInv'
    BY <1>1, <2>1 DEF TextInv
  <2> QED BY <2>4, <2>5, <2>6, <2>7, <2>8
<1> QED BY <1>2, <1>3, <1>4, <1>5, <1>6

\* cpu_usage
LEMMA UsageStep ==
  ASSUME ScreenInv, PcInv', usage_draw \/ usage_refresh
  PROVE  ScreenInv'
<1> USE DEF ScreenInv
<1>1. /\ UNCHANGED <<compositor_lock, cursor_x, cursor_y, at, c, printed, sheet,
                     old_screen, saved_vga_entry, new_screen, column, cleared>>
      /\ \A q \in Task : q # Usage => pc'[q] = pc[q]
      /\ pc'[Compositor] = pc[Compositor] /\ pc'[Pointer] = pc[Pointer]
      /\ pc'[Console] = pc[Console]
  <2>1. \A q \in Task : q # Usage => pc'[q] = pc[q]
    BY Tasks, StepFacts DEF usage_draw, usage_refresh
  <2> QED BY <2>1, Tasks
     DEF usage_draw, usage_refresh, cursorVars, history, pointerVars, clearVars
<1>2. \/ /\ Writes /\ screen' = screen /\ pc'[Usage] = "refresh"
         /\ \A y \in 0 .. BOTTOM : fb'[y] = fb[y]
      \/ fb' = fb /\ screen' = fb
  <2>1. CASE usage_draw
    <3>1. pc'[Usage] = "refresh" /\ screen' = screen
      BY <2>1, Tasks, StepFacts DEF usage_draw
    <3> QED BY <2>1, <3>1, UsageFacts
  <2>2. CASE usage_refresh
    BY <2>2 DEF usage_refresh, vga_refresh
  <2> QED BY <2>1, <2>2
<1>3. fb' \in [Row -> [Column -> Cell]] /\ screen' \in [Row -> [Column -> Cell]]
      /\ BorderIntact' /\ MarginInv'
  <2>1. Writes
    BY <1>2, NothingWritten
  <2> QED BY <1>1, <1>2, <2>1, EdgesKept DEF Writes, TypeOK
<1>4. TypeOK'
  BY <1>1, <1>3 DEF TypeOK
<1>5. CursorInv' /\ SheetInv'
  BY <1>1 DEF CursorInv, SheetInv, Hidden
<1>6. DisplayCurrent'
  BY <1>2, Tasks DEF DisplayCurrent, Drawn
<1>7. TextInv'
  <2>1. PrintChar(c)' = PrintChar(c)
    BY <1>1 DEF PrintChar, EraseLeft, EraseAbove, NextLine, WriteLetter, Hidden
  <2>2. \A y \in SCROLL_Y0 .. SCROLL_Y1 : fb'[y] = fb[y]
    BY <1>2, Sizes
  <2> QED BY <1>1, <2>1, <2>2 DEF TextInv, Shown, InWindow
<1> QED BY <1>3, <1>4, <1>5, <1>6, <1>7

\* CompositorEnableMouse
LEMMA PointerStep ==
  ASSUME ScreenInv, PcInv',
         pointer_position \/ pointer_restore \/ pointer_draw \/ pointer_refresh
  PROVE  ScreenInv'
<1> USE DEF ScreenInv
<1>1. /\ UNCHANGED <<compositor_lock, cursor_x, cursor_y, at, c, printed, sheet, column, cleared>>
      /\ \A q \in Task : q # Pointer => pc'[q] = pc[q]
      /\ pc'[Compositor] = pc[Compositor] /\ pc'[Usage] = pc[Usage] /\ pc'[Console] = pc[Console]
  <2>1. \A q \in Task : q # Pointer => pc'[q] = pc[q]
    BY Tasks, StepFacts DEF pointer_position, pointer_restore, pointer_draw, pointer_refresh
  <2> QED BY <2>1, Tasks
     DEF pointer_position, pointer_restore, pointer_draw, pointer_refresh,
         cursorVars, history, clearVars
<1>2. CursorInv' /\ SheetInv'
  BY <1>1 DEF CursorInv, SheetInv, Hidden
<1>3. PrintChar(c)' = PrintChar(c)
  BY <1>1 DEF PrintChar, EraseLeft, EraseAbove, NextLine, WriteLetter, Hidden
<1>4. CASE pointer_position
  <2>1. /\ UNCHANGED <<fb, screen, old_screen, saved_vga_entry>> /\ new_screen' \in Place
        /\ pc[Pointer] = "idle" /\ pc'[Pointer] = "acquire"
    BY <1>4, Tasks, StepFacts, ScreenAssumption DEF pointer_position
  <2>2. TypeOK' /\ TextInv'
    BY <1>1, <1>3, <2>1 DEF TypeOK, TextInv
  <2>3. DisplayCurrent'
    BY <1>1, <2>1 DEF DisplayCurrent, Drawn, Clearing, Restored
  <2>4. BorderIntact' /\ MarginInv'
    BY <1>1, <2>1, EdgesSame
  <2> QED BY <1>2, <2>2, <2>3, <2>4
<1>5. CASE pointer_restore
  <2>1. /\ UNCHANGED <<screen, old_screen, saved_vga_entry, new_screen>>
        /\ pc'[Pointer] = "draw" /\ (old_screen = NoPlace => fb' = fb)
    BY <1>5, Tasks, StepFacts DEF pointer_restore, pointerVars
  <2>2. fb' \in [Row -> [Column -> Cell]] /\ BorderIntact' /\ MarginInv'
    BY <1>5, EdgesRestored
  <2>3. TypeOK' /\ TextInv'
    BY <1>1, <1>3, <2>1, <2>2 DEF TypeOK, TextInv
  <2>4. DisplayCurrent'
    BY <2>1 DEF DisplayCurrent, Restored
  <2> QED BY <1>2, <2>2, <2>3, <2>4
<1>6. CASE pointer_draw
  <2>1. UNCHANGED <<screen, new_screen>> /\ pc'[Pointer] = "refresh"
    BY <1>6, Tasks, StepFacts DEF pointer_draw
  <2>2. /\ fb' \in [Row -> [Column -> Cell]] /\ saved_vga_entry' \in Cell
        /\ old_screen' \in Place /\ BorderIntact' /\ MarginInv'
    BY <1>6, EdgesCovered
  <2>3. TypeOK'
    BY <1>1, <2>1, <2>2 DEF TypeOK
  <2>4. TextInv'
    BY <2>2, StartValues DEF TextInv
  <2>5. DisplayCurrent'
    BY <2>1, Tasks DEF DisplayCurrent, Drawn
  <2> QED BY <1>2, <2>2, <2>3, <2>4, <2>5
<1>7. CASE pointer_refresh
  <2>1. /\ UNCHANGED <<fb, old_screen, saved_vga_entry, new_screen>> /\ screen' = fb
        /\ pc[Pointer] = "refresh" /\ pc'[Pointer] = "release"
    BY <1>7, Tasks, StepFacts DEF pointer_refresh, vga_refresh, pointerVars
  <2>2. TypeOK' /\ TextInv'
    BY <1>1, <1>3, <2>1 DEF TypeOK, TextInv
  <2>3. DisplayCurrent'
    BY <2>1 DEF DisplayCurrent
  <2>4. BorderIntact' /\ MarginInv'
    BY <1>1, <2>1, EdgesSame
  <2> QED BY <1>2, <2>2, <2>3, <2>4
<1> QED BY <1>4, <1>5, <1>6, <1>7

\* compositor_clear_screen, without the lock
LEMMA ConsoleStep ==
  ASSUME ScreenInv, PcInv', compositor_clear_screen
  PROVE  ScreenInv'
<1> USE DEF ScreenInv
<1>1. /\ UNCHANGED <<compositor_lock, at, c, printed, sheet,
                     old_screen, saved_vga_entry, new_screen>>
      /\ \A q \in Task : q # Console => pc'[q] = pc[q]
      /\ pc'[Compositor] = pc[Compositor] /\ pc'[Usage] = pc[Usage] /\ pc'[Pointer] = pc[Pointer]
  <2>1. \A q \in Task : q # Console => pc'[q] = pc[q]
    BY Tasks, StepFacts DEF compositor_clear_screen, clear_start, clear_column, clear_home_x,
         clear_home_y, clear_refresh
  <2> QED BY <2>1, Tasks
     DEF compositor_clear_screen, clear_start, clear_column, clear_home_x, clear_home_y,
         clear_refresh, cursorVars, history, pointerVars
<1>2. cleared' /\ (cleared => cleared')
  BY Tasks, StepFacts
     DEF compositor_clear_screen, clear_start, clear_column, clear_home_x, clear_home_y,
         clear_refresh, clearVars, CursorInv
<1>3. TextInv' /\ SheetInv'
  BY <1>1, <1>2 DEF TextInv, SheetInv, Hidden
<1>4. CASE clear_start
  <2>1. /\ UNCHANGED <<fb, screen, cursor_x, cursor_y>> /\ column' = SCROLL_X0
        /\ pc'[Console] = "blank" /\ cleared' = TRUE
    BY <1>4, Tasks, StepFacts DEF clear_start, cursorVars
  <2>2. TypeOK' /\ CursorInv'
    BY <1>1, <1>2, <2>1, StartValues DEF TypeOK, CursorInv
  <2>3. DisplayCurrent'
    BY <2>1 DEF DisplayCurrent, Clearing
  <2>4. BorderIntact' /\ MarginInv'
    BY <1>1, <1>2, <2>1, EdgesSame
  <2> QED BY <1>3, <2>2, <2>3, <2>4
<1>5. CASE clear_column
  <2>1. /\ UNCHANGED <<screen, cursor_x, cursor_y, cleared>>
        /\ pc'[Console] \in {"blank", "home_x"}
    BY <1>5, Tasks, StepFacts DEF clear_column, cursorVars
  <2>2. /\ Writes /\ column' \in SCROLL_X0 .. SCROLL_X1
        /\ pc'[Console] = "blank" => column' < SCROLL_X1
    BY <1>5, ClearFacts
  <2>3. TypeOK' /\ CursorInv'
    BY <1>1, <1>2, <2>1, <2>2 DEF TypeOK, CursorInv, Writes
  <2>4. DisplayCurrent'
    BY <2>1 DEF DisplayCurrent, Clearing
  <2>5. BorderIntact' /\ MarginInv'
    BY <1>1, <2>1, <2>2, EdgesKept
  <2> QED BY <1>3, <2>3, <2>4, <2>5
<1>6. CASE clear_home_x
  <2>1. /\ UNCHANGED <<fb, screen, cursor_y, column, cleared>> /\ cursor_x' = SCROLL_X0
        /\ pc'[Console] = "home_y"
    BY <1>6, Tasks, StepFacts DEF clear_home_x, clearVars
  <2>2. TypeOK' /\ CursorInv'
    BY <1>1, <1>2, <2>1, StartValues DEF TypeOK, CursorInv
  <2>3. DisplayCurrent'
    BY <2>1 DEF DisplayCurrent, Clearing
  <2>4. BorderIntact' /\ MarginInv'
    BY <1>1, <2>1, EdgesSame
  <2> QED BY <1>3, <2>2, <2>3, <2>4
<1>7. CASE clear_home_y
  <2>1. /\ UNCHANGED <<fb, screen, cursor_x, column, cleared>> /\ cursor_y' = SCROLL_Y0 - 1
        /\ pc'[Console] = "refresh"
    BY <1>7, Tasks, StepFacts DEF clear_home_y, clearVars
  <2>2. TypeOK' /\ CursorInv'
    BY <1>1, <1>2, <2>1, StartValues DEF TypeOK, CursorInv
  <2>3. DisplayCurrent'
    BY <2>1 DEF DisplayCurrent, Clearing
  <2>4. BorderIntact' /\ MarginInv'
    BY <1>1, <2>1, EdgesSame
  <2> QED BY <1>3, <2>2, <2>3, <2>4
<1>8. CASE clear_refresh
  <2>1. /\ UNCHANGED <<fb, cursor_x, cursor_y, column, cleared>> /\ screen' = fb
        /\ pc'[Console] = "idle"
    BY <1>8, Tasks, StepFacts DEF clear_refresh, vga_refresh, cursorVars, clearVars
  <2>2. TypeOK' /\ CursorInv'
    BY <1>1, <1>2, <2>1 DEF TypeOK, CursorInv
  <2>3. DisplayCurrent'
    BY <2>1 DEF DisplayCurrent
  <2>4. BorderIntact' /\ MarginInv'
    BY <1>1, <2>1, EdgesSame
  <2> QED BY <1>3, <2>2, <2>3, <2>4
<1> QED BY <1>4, <1>5, <1>6, <1>7, <1>8 DEF compositor_clear_screen

-----------------------------------------------------------------------------
(* The theorems                                                            *)

\* compositor_init draws the border, and an empty text in it.
LEMMA BackgroundFacts ==
  /\ Background \in [Row -> [Column -> Cell]]
  /\ \A y \in SCROLL_Y0 .. SCROLL_Y1, x \in SCROLL_X0 .. SCROLL_X1 : Background[y][x] = SPACE
<1>1. \A y \in SCROLL_Y0 .. SCROLL_Y1, x \in SCROLL_X0 .. SCROLL_X1 :
        y \in Row /\ x \in Column /\ y \notin {0, BOTTOM} /\ x \notin {0, GRID_WIDTH - 1}
  BY Sizes
<1> QED BY <1>1, Cells DEF Background

LEMMA EmptyFacts ==
  /\ EmptySheet \in Sheet /\ Len(EmptySheet.rows) = Height
  /\ EmptySheet.row = 1 /\ EmptySheet.x = SCROLL_X0
  /\ \A i \in 1 .. Height : EmptySheet.rows[i] = Blank
<1> DEFINE T == [SCROLL_X0 .. SCROLL_X1 -> Letters \cup {SPACE}]
           rows == [i \in 1 .. Height |-> Blank]
<1>1. Height \in Nat /\ SCROLL_X0 \in SCROLL_X0 .. SCROLL_X1
  BY Sizes
<1>2. Blank \in T
  BY DEF Blank
<1> HIDE DEF T
<1>3. rows \in Seq(T) /\ Len(rows) = Height
  BY <1>1, <1>2
<1>4. EmptySheet = [rows |-> rows, row |-> 1, x |-> SCROLL_X0]
  BY DEF EmptySheet
<1>5. \A i \in 1 .. Height : rows[i] = Blank
  OBVIOUS
<1> HIDE DEF rows
<1> QED BY <1>1, <1>3, <1>4, <1>5 DEF Sheet, T

LEMMA InitInv == Init => ScreenInv
<1> SUFFICES ASSUME Init PROVE ScreenInv
  OBVIOUS
<1>1. /\ fb = Background /\ screen = fb /\ cursor_x = SCROLL_X0 /\ cursor_y = SCROLL_Y0
      /\ compositor_lock = FALSE /\ at = <<SCROLL_X0, SCROLL_Y0>> /\ c = NL
      /\ old_screen = NoPlace /\ new_screen = <<0, 0>> /\ saved_vga_entry = SPACE
      /\ column = SCROLL_X0 /\ printed = 0 /\ sheet = EmptySheet /\ cleared = FALSE
  BY DEF Init
<1>2. /\ pc = [p \in Task |-> pc[p]]
      /\ pc[Compositor] = "idle" /\ pc[Usage] = "idle"
      /\ pc[Pointer] = "off" /\ pc[Console] = "idle"
  BY Tasks DEF Init
<1>3. PcInv
  BY <1>2 DEF PcInv
<1>4. TypeOK
  <2>1. /\ fb \in [Row -> [Column -> Cell]] /\ screen \in [Row -> [Column -> Cell]]
        /\ sheet \in Sheet /\ saved_vga_entry \in Cell
    BY <1>1, BackgroundFacts, EmptyFacts, Cells
  <2>2. /\ cursor_x \in SCROLL_X0 .. SCROLL_X1 /\ cursor_y \in SCROLL_Y0 - 1 .. SCROLL_Y1
        /\ at \in (SCROLL_X0 .. SCROLL_X1) \X (SCROLL_Y0 - 1 .. SCROLL_Y1)
        /\ column \in SCROLL_X0 .. SCROLL_X1 /\ c \in Letters \cup {NL, BS}
        /\ old_screen \in Place \cup {NoPlace} /\ new_screen \in Place
    BY <1>1, StartValues
  <2>3. printed \in 0 .. TextLimit
    BY <1>1, Sizes
  <2> QED BY <1>1, <2>1, <2>2, <2>3 DEF TypeOK
<1>5. CursorInv
  BY <1>1, <1>2, StartValues DEF CursorInv
<1>6. DisplayCurrent
  BY <1>1 DEF DisplayCurrent
<1>7. BorderIntact
  BY <1>1, BorderFacts DEF BorderIntact, Beneath
<1>8. MarginInv
  <2>1. SCROLL_X1 \in SCROLL_X0 .. SCROLL_X1
    BY Sizes
  <2> QED BY <1>1, <2>1, BackgroundFacts DEF MarginInv
<1>9. SheetInv
  BY <1>1, <1>2, EmptyFacts, Sizes DEF SheetInv, Hidden
<1>10. TextInv
  <2>1. ASSUME NEW i \in SCROLL_Y0 .. SCROLL_Y1, NEW j \in SCROLL_X0 .. SCROLL_X1
        PROVE  Background[i][j] = EmptySheet.rows[(Height - Height) + i][j]
    <3>1. (Height - Height) + i = i /\ i \in 1 .. Height
      BY Sizes
    <3>2. EmptySheet.rows[i] = Blank
      BY <3>1, EmptyFacts
    <3>3. Blank[j] = SPACE /\ Background[i][j] = SPACE
      BY BackgroundFacts DEF Blank
    <3> QED BY <3>1, <3>2, <3>3
  <2>2. SCROLL_Y0 = 1 - (Height - Height)
    BY Sizes
  <2>3. Shown(sheet, fb, cursor_x, cursor_y)
    BY <1>1, <2>1, <2>2, EmptyFacts DEF Shown, InWindow
  <2> QED BY <1>2, <2>3 DEF TextInv
<1> QED BY <1>3, <1>4, <1>5, <1>6, <1>7, <1>8, <1>9, <1>10 DEF ScreenInv

\* Whatever the four tasks draw, in any order, the buffer, the display, the
\* cursor and what the pointer covers are as ScreenInv says.
THEOREM ScreenInvariance == Spec => []ScreenInv
<1>1. ASSUME ScreenInv, [Next]_vars PROVE ScreenInv'
  <2>1. PcInv'
    BY <1>1, PcStep DEF ScreenInv
  <2>2. CASE UNCHANGED vars
    BY <1>1, <2>1, <2>2, Quiet
  <2>3. CASE compositor_main
    <3>1. CASE spinlock_acquire(Compositor, "load") \/ spinlock_release(Compositor, "idle")
      BY <1>1, <2>1, <3>1, Quiet DEF QuietStep
    <3>2. CASE ~(spinlock_acquire(Compositor, "load") \/ spinlock_release(Compositor, "idle"))
      BY <1>1, <2>1, <2>3, <3>2, CompositorStep DEF compositor_main
    <3> QED BY <3>1, <3>2
  <2>4. CASE cpu_usage
    <3>1. CASE usage_sleep \/ spinlock_acquire(Usage, "draw") \/ spinlock_release(Usage, "idle")
      BY <1>1, <2>1, <3>1, Quiet DEF QuietStep
    <3>2. CASE usage_draw \/ usage_refresh
      BY <1>1, <2>1, <3>2, UsageStep
    <3> QED BY <2>4, <3>1, <3>2 DEF cpu_usage
  <2>5. CASE CompositorEnableMouse
    <3>1. CASE pointer_start \/ spinlock_acquire(Pointer, "restore")
                 \/ spinlock_release(Pointer, "idle")
      BY <1>1, <2>1, <3>1, Quiet DEF QuietStep
    <3>2. CASE pointer_position \/ pointer_restore \/ pointer_draw \/ pointer_refresh
      BY <1>1, <2>1, <3>2, PointerStep
    <3> QED BY <2>5, <3>1, <3>2 DEF CompositorEnableMouse
  <2>6. CASE compositor_clear_screen
    BY <1>1, <2>1, <2>6, ConsoleStep
  <2> QED BY <1>1, <2>2, <2>3, <2>4, <2>5, <2>6 DEF Next
<1> QED BY InitInv, <1>1, PTL DEF Spec

\* The frame buffer holds cells, and the cursor stays in its bounds.
THEOREM TypeCorrect == Spec => []TypeOK
<1>1. ScreenInv => TypeOK
  BY DEF ScreenInv
<1> QED BY ScreenInvariance, <1>1, PTL

\* vga_refresh: the display shows the buffer whenever nobody is drawing.
THEOREM DisplayCorrect == Spec => []DisplayCurrent
<1>1. ScreenInv => DisplayCurrent
  BY DEF ScreenInv
<1> QED BY ScreenInvariance, <1>1, PTL

\* compositor_main, the pointer and the clear: no text gets into the margin, and
\* no cell of the border is damaged but those of the top bar that text reaches
\* from row 0 once the screen was cleared.
THEOREM EdgesCorrect == Spec => []EdgesIntact
<1>1. ASSUME ScreenInv PROVE MarginFree
  <2> SUFFICES ASSUME NEW y \in SCROLL_Y0 .. SCROLL_Y1
               PROVE  Beneath(SCROLL_X1, y) \in {SPACE, GLYPH}
    BY DEF MarginFree
  <2> QED BY <1>1 DEF ScreenInv, MarginInv, Beneath
<1>2. ScreenInv => EdgesIntact
  BY <1>1 DEF ScreenInv, EdgesIntact
<1> QED BY ScreenInvariance, <1>2, PTL

\* compositor_main and compositor_scroll: the text is that of the reference
\* terminal, until the screen is cleared or the pointer comes.
THEOREM TextCorrect == Spec => []TextAsPrinted
<1>1. ASSUME ScreenInv PROVE TextAsPrinted
  <2> SUFFICES ASSUME pc[Compositor] \in {"idle", "acquire", "load", "load_y"}, ~cleared,
                      old_screen = NoPlace
               PROVE  /\ cursor_x = sheet.x /\ cursor_y = sheet.row - Hidden + SCROLL_Y0 - 1
                      /\ \A y \in SCROLL_Y0 .. SCROLL_Y1, x \in SCROLL_X0 .. SCROLL_X1 :
                           fb[y][x] = sheet.rows[Hidden + y - SCROLL_Y0 + 1][x]
    BY DEF TextAsPrinted
  <2> DEFINE n == Len(sheet.rows)
             h == Height
             r == sheet.row
  <2>1. Shown(sheet, fb, cursor_x, cursor_y)
    BY <1>1 DEF ScreenInv, TextInv
  <2>2. r \in Nat /\ n \in Nat /\ h \in Nat /\ Hidden = n - h
    BY <1>1, LenProperties, Sizes DEF ScreenInv, TypeOK, Sheet, Hidden
  <2>3. /\ cursor_x = sheet.x /\ cursor_y = r - (n - h)
        /\ \A y \in SCROLL_Y0 .. SCROLL_Y1, x \in SCROLL_X0 .. SCROLL_X1 :
             fb[y][x] = sheet.rows[(n - h) + y][x]
    BY <2>1 DEF Shown, InWindow
  <2> HIDE DEF n, h, r
  <2>4. r - Hidden + SCROLL_Y0 - 1 = r - (n - h)
    BY <2>2, Sizes
  <2>5. \A y \in SCROLL_Y0 .. SCROLL_Y1 : Hidden + y - SCROLL_Y0 + 1 = (n - h) + y
    BY <2>2, Sizes
  <2> QED BY <2>3, <2>4, <2>5 DEF r
<1> QED BY ScreenInvariance, <1>1, PTL
=============================================================================
