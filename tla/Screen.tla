-------------------------------- MODULE Screen --------------------------------
(***************************************************************************)
(* The text screen of the TBS kernel (compositor.c, vga-textmode.c): one   *)
(* frame buffer in memory that four tasks draw in and copy to the screen.  *)
(*                                                                         *)
(*   compositor   prints the characters of the terminal                    *)
(*   cpu_usage    writes the bottom row                                    *)
(*   pointer      CompositorEnableMouse, once the cursor command ran       *)
(*   console      compositor_clear_screen, which takes no lock             *)
(*                                                                         *)
(* A cell is its character: the colours are left out.  The kernel is built *)
(* with -O2, so a variable is loaded once between two calls.               *)
(***************************************************************************)
EXTENDS Integers, SequencesExt

CONSTANTS
  GRID_WIDTH, GRID_HEIGHT,
  Letters,      \* printable characters
  TextLimit,    \* bound of the model: characters printed
  Places,       \* cells the mouse is moved to, <<x, y>>
  UsageSizes    \* lengths of the text of cpu_usage

Compositor == "compositor"
Usage == "cpu_usage"
Pointer == "pointer"
Console == "console"
Task == {Compositor, Usage, Pointer, Console}

NL == "newline"
BS == "backspace"
SPACE == " "
FRAME == "frame"
DIGIT == "digit"
GLYPH == "pointer"
Cell == Letters \cup {SPACE, FRAME, DIGIT, GLYPH}

SCROLL_X0 == 1
SCROLL_X1 == GRID_WIDTH - 2
SCROLL_Y0 == 1
SCROLL_Y1 == GRID_HEIGHT - 3
BOTTOM == GRID_HEIGHT - 2            \* row 23 of 25, the lower border
STATUS == GRID_HEIGHT - 1

Column == 0 .. GRID_WIDTH - 1
Row == 0 .. GRID_HEIGHT - 1
Place == {<<x, y>> : x \in Column, y \in 0 .. BOTTOM}
NoPlace == <<-1, -1>>

ASSUME ScreenAssumption ==
  /\ {GRID_WIDTH, GRID_HEIGHT, TextLimit} \subseteq Nat
  /\ GRID_WIDTH >= 4 /\ GRID_HEIGHT >= 4
  /\ Places \subseteq Place
  /\ UsageSizes \subseteq 1 .. GRID_WIDTH - 2

VARIABLES
  fb,                   \* vga_framebuffer[y][x]
  screen,               \* what the display shows, at 0xB8000
  cursor_x, cursor_y,
  compositor_lock,
  pc,
  at,                   \* the cursor as compositor_main has loaded it
  c,                    \* the character it prints
  old_screen,           \* old_screen_x, old_screen_y
  saved_vga_entry,
  new_screen,           \* screen_x, screen_y
  column,               \* x of the loop of compositor_clear_screen
  \* history
  printed,              \* how many characters the compositor has printed
  sheet,                \* a reference terminal that printed the same
  cleared               \* the screen was cleared since boot

history == <<printed, sheet>>
cursorVars == <<cursor_x, cursor_y, at, c, history>>
pointerVars == <<old_screen, saved_vga_entry, new_screen>>
clearVars == <<column, cleared>>
vars == <<fb, screen, compositor_lock, pc, cursorVars, pointerVars, clearVars>>

-----------------------------------------------------------------------------
(* The reference terminal: an endless sheet of rows of which the last ones *)
(* are seen through a window.  A character at the margin breaks the line   *)
(* instead.                                                                *)

Height == SCROLL_Y1 - SCROLL_Y0 + 1

Sheet == [rows : Seq([SCROLL_X0 .. SCROLL_X1 -> Letters \cup {SPACE}]),
          row : Nat, x : SCROLL_X0 .. SCROLL_X1]

Blank == [x \in SCROLL_X0 .. SCROLL_X1 |-> SPACE]

EmptySheet == [rows |-> [i \in 1 .. Height |-> Blank], row |-> 1, x |-> SCROLL_X0]

\* rows above the window
Hidden == Len(sheet.rows) - Height

NextLine ==
  [rows |-> IF sheet.row = Len(sheet.rows) THEN Append(sheet.rows, Blank) ELSE sheet.rows,
   row |-> sheet.row + 1, x |-> SCROLL_X0]

EraseLeft ==
  [rows |-> [sheet.rows EXCEPT ![sheet.row][sheet.x - 1] = SPACE],
   row |-> sheet.row, x |-> sheet.x - 1]

EraseAbove ==
  [rows |-> [sheet.rows EXCEPT ![sheet.row - 1][SCROLL_X1] = SPACE],
   row |-> sheet.row - 1, x |-> SCROLL_X1]

WriteLetter(char) ==
  [rows |-> [sheet.rows EXCEPT ![sheet.row][sheet.x] = char],
   row |-> sheet.row, x |-> sheet.x + 1]

PrintChar(char) ==
  IF char = BS
  THEN IF sheet.x > SCROLL_X0 THEN EraseLeft
       ELSE IF sheet.row > Hidden + 1 THEN EraseAbove ELSE sheet
  ELSE IF char = NL \/ sheet.x = SCROLL_X1 THEN NextLine ELSE WriteLetter(char)

-----------------------------------------------------------------------------
TypeOK ==
  /\ fb \in [Row -> [Column -> Cell]]
  /\ screen \in [Row -> [Column -> Cell]]
  /\ cursor_x \in SCROLL_X0 .. SCROLL_X1
  /\ cursor_y \in SCROLL_Y0 - 1 .. SCROLL_Y1
  /\ compositor_lock \in BOOLEAN
  /\ at \in (SCROLL_X0 .. SCROLL_X1) \X (SCROLL_Y0 - 1 .. SCROLL_Y1)
  /\ c \in Letters \cup {NL, BS}
  /\ old_screen \in Place \cup {NoPlace} /\ new_screen \in Place
  /\ saved_vga_entry \in Cell
  /\ column \in SCROLL_X0 .. SCROLL_X1
  /\ printed \in 0 .. TextLimit
  /\ sheet \in Sheet
  /\ cleared \in BOOLEAN

-----------------------------------------------------------------------------
Step(p, from, to) == pc[p] = from /\ pc' = [pc EXCEPT ![p] = to]

spinlock_acquire(p, to) ==
  /\ ~compositor_lock
  /\ Step(p, "acquire", to)
  /\ compositor_lock' = TRUE
  /\ UNCHANGED <<fb, screen, cursorVars, pointerVars, clearVars>>

spinlock_release(p, to) ==
  /\ Step(p, "release", to)
  /\ compositor_lock' = FALSE
  /\ UNCHANGED <<fb, screen, cursorVars, pointerVars, clearVars>>

\* The copy runs between cli and sti.
vga_refresh_nothing == UNCHANGED screen
vga_refresh == screen' = fb

Put(b, char, x, y) == [b EXCEPT ![y][x] = char]

-----------------------------------------------------------------------------
(* compositor_init                                                         *)

\* draw_background and draw_console_border
Background ==
  [y \in Row |-> [x \in Column |->
     IF y # STATUS /\ (y \in {0, BOTTOM} \/ x \in {0, GRID_WIDTH - 1}) THEN FRAME ELSE SPACE]]

Init ==
  /\ fb = Background /\ screen = fb
  /\ cursor_x = SCROLL_X0 /\ cursor_y = SCROLL_Y0
  /\ compositor_lock = FALSE
  /\ pc = [p \in Task |-> IF p = Pointer THEN "off" ELSE "idle"]
  /\ at = <<SCROLL_X0, SCROLL_Y0>> /\ c = NL
  /\ old_screen = NoPlace /\ new_screen = <<0, 0>> /\ saved_vga_entry = SPACE
  /\ column = SCROLL_X0
  /\ printed = 0 /\ sheet = EmptySheet /\ cleared = FALSE

-----------------------------------------------------------------------------
(* compositor_main                                                         *)

compositor_take ==
  /\ printed < TextLimit
  /\ Step(Compositor, "idle", "acquire")
  /\ c' \in Letters \cup {NL, BS}
  /\ UNCHANGED <<fb, screen, compositor_lock, cursor_x, cursor_y, at, history,
                 pointerVars, clearVars>>

\* Every branch tests or uses cursor_x before it uses cursor_y.
compositor_load_x ==
  /\ Step(Compositor, "load", "load_y")
  /\ at' = <<cursor_x, at[2]>>
  /\ UNCHANGED <<fb, screen, compositor_lock, cursor_x, cursor_y, c, history,
                 pointerVars, clearVars>>

compositor_load_y ==
  /\ Step(Compositor, "load_y", "draw")
  /\ at' = <<at[1], cursor_y>>
  /\ UNCHANGED <<fb, screen, compositor_lock, cursor_x, cursor_y, c, history,
                 pointerVars, clearVars>>

\* back to the end of the line above, but not out of the text
draw_backspace_unbounded ==
  LET to == IF at[1] > SCROLL_X0 THEN <<at[1] - 1, at[2]>> ELSE <<SCROLL_X1, at[2] - 1>>
  IN  /\ fb' = Put(fb, SPACE, to[1], to[2])
      /\ cursor_x' = to[1] /\ cursor_y' = to[2]

draw_backspace ==
  LET to == IF at[1] > SCROLL_X0 THEN <<at[1] - 1, at[2]>> ELSE <<SCROLL_X1, at[2] - 1>>
  IN  IF at[1] > SCROLL_X0 \/ at[2] > SCROLL_Y0
      THEN /\ fb' = Put(fb, SPACE, to[1], to[2])
           /\ cursor_x' = to[1] /\ cursor_y' = to[2]
      ELSE UNCHANGED <<fb, cursor_x, cursor_y>>

compositor_scroll_keeps_last ==
  [y \in Row |-> [x \in Column |->
     IF y \notin SCROLL_Y0 .. SCROLL_Y1 - 1 \/ x \notin SCROLL_X0 .. SCROLL_X1 THEN fb[y][x]
     ELSE fb[y + 1][x]]]

\* the text moves up by a row, and the last row becomes blank
compositor_scroll ==
  [y \in Row |-> [x \in Column |->
     IF y \notin SCROLL_Y0 .. SCROLL_Y1 \/ x \notin SCROLL_X0 .. SCROLL_X1 THEN fb[y][x]
     ELSE IF y < SCROLL_Y1 THEN fb[y + 1][x] ELSE SPACE]]

\* a newline, or a character that meets the right margin and is dropped
draw_newline ==
  /\ cursor_x' = SCROLL_X0
  /\ IF at[2] < SCROLL_Y1
     THEN cursor_y' = at[2] + 1 /\ UNCHANGED fb
     ELSE cursor_y' = SCROLL_Y1 /\ fb' = compositor_scroll

draw_char == fb' = Put(fb, c, at[1], at[2]) /\ UNCHANGED <<cursor_x, cursor_y>>

Breaks == c = NL \/ (c # BS /\ at[1] >= SCROLL_X1)

compositor_draw ==
  /\ Step(Compositor, "draw", IF c = BS \/ Breaks THEN "refresh" ELSE "advance")
  /\ \/ c = BS /\ draw_backspace
     \/ Breaks /\ draw_newline
     \/ c # BS /\ ~Breaks /\ draw_char
  /\ UNCHANGED <<screen, compositor_lock, at, c, history, pointerVars, clearVars>>

\* cursor_x++ after the call of vga_putc
compositor_advance ==
  /\ Step(Compositor, "advance", "refresh")
  /\ cursor_x' = cursor_x + 1
  /\ UNCHANGED <<fb, screen, compositor_lock, cursor_y, at, c, history, pointerVars, clearVars>>

compositor_refresh ==
  /\ Step(Compositor, "refresh", "release")
  /\ vga_refresh
  /\ printed' = printed + 1 /\ sheet' = PrintChar(c)
  /\ UNCHANGED <<fb, compositor_lock, cursor_x, cursor_y, at, c, pointerVars, clearVars>>

compositor_main ==
  \/ compositor_take \/ spinlock_acquire(Compositor, "load")
  \/ compositor_load_x \/ compositor_load_y \/ compositor_draw \/ compositor_advance \/ compositor_refresh
  \/ spinlock_release(Compositor, "idle")

-----------------------------------------------------------------------------
(* cpu_usage                                                               *)

usage_sleep ==
  /\ Step(Usage, "idle", "acquire")
  /\ UNCHANGED <<fb, screen, compositor_lock, cursorVars, pointerVars, clearVars>>

\* Each character blanks the cell after it.
usage_draw ==
  /\ Step(Usage, "draw", "refresh")
  /\ \E n \in UsageSizes :
       fb' = [fb EXCEPT ![STATUS] = [x \in Column |->
                IF x \in 1 .. n THEN DIGIT ELSE IF x = n + 1 THEN SPACE ELSE @[x]]]
  /\ UNCHANGED <<screen, compositor_lock, cursorVars, pointerVars, clearVars>>

usage_refresh ==
  /\ Step(Usage, "refresh", "release")
  /\ vga_refresh
  /\ UNCHANGED <<fb, compositor_lock, cursorVars, pointerVars, clearVars>>

cpu_usage ==
  \/ usage_sleep \/ spinlock_acquire(Usage, "draw") \/ usage_draw \/ usage_refresh
  \/ spinlock_release(Usage, "idle")

-----------------------------------------------------------------------------
(* CompositorEnableMouse                                                   *)

\* the cursor command creates the task
pointer_start ==
  /\ Step(Pointer, "off", "idle")
  /\ UNCHANGED <<fb, screen, compositor_lock, cursorVars, pointerVars, clearVars>>

pointer_position ==
  /\ Step(Pointer, "idle", "acquire")
  /\ new_screen' \in Places
  /\ UNCHANGED <<fb, screen, compositor_lock, cursorVars, old_screen, saved_vga_entry, clearVars>>

pointer_restore_skipped ==
  /\ Step(Pointer, "restore", "draw")
  /\ UNCHANGED <<fb, screen, compositor_lock, cursorVars, pointerVars, clearVars>>

pointer_restore ==
  /\ Step(Pointer, "restore", "draw")
  /\ fb' = IF old_screen = NoPlace THEN fb
           ELSE Put(fb, saved_vga_entry, old_screen[1], old_screen[2])
  /\ UNCHANGED <<screen, compositor_lock, cursorVars, pointerVars, clearVars>>

pointer_draw ==
  /\ Step(Pointer, "draw", "refresh")
  /\ saved_vga_entry' = fb[new_screen[2]][new_screen[1]]
  /\ fb' = Put(fb, GLYPH, new_screen[1], new_screen[2])
  /\ old_screen' = new_screen
  /\ UNCHANGED <<screen, compositor_lock, cursorVars, new_screen, clearVars>>

pointer_refresh ==
  /\ Step(Pointer, "refresh", "release")
  /\ vga_refresh
  /\ UNCHANGED <<fb, compositor_lock, cursorVars, pointerVars, clearVars>>

CompositorEnableMouse ==
  \/ pointer_start \/ pointer_position \/ spinlock_acquire(Pointer, "restore")
  \/ pointer_restore \/ pointer_draw \/ pointer_refresh
  \/ spinlock_release(Pointer, "idle")

-----------------------------------------------------------------------------
(* compositor_clear_screen, by the console: not under compositor_lock      *)

clear_start ==
  /\ ~cleared
  /\ Step(Console, "idle", "blank")
  /\ cleared' = TRUE
  /\ column' = SCROLL_X0
  /\ UNCHANGED <<fb, screen, compositor_lock, cursorVars, pointerVars>>

\* The last column of the text is not blanked: no character is put there.
clear_column ==
  /\ Step(Console, "blank", IF column + 1 < SCROLL_X1 - SCROLL_X0 + 1 THEN "blank" ELSE "home_x")
  /\ fb' = [y \in Row |-> IF y \in SCROLL_Y0 .. SCROLL_Y1
                          THEN [fb[y] EXCEPT ![column] = SPACE] ELSE fb[y]]
  /\ column' = column + 1
  /\ UNCHANGED <<screen, compositor_lock, cursorVars, pointerVars, cleared>>

clear_home_x ==
  /\ Step(Console, "home_x", "home_y")
  /\ cursor_x' = SCROLL_X0
  /\ UNCHANGED <<fb, screen, compositor_lock, cursor_y, at, c, history, pointerVars, clearVars>>

clear_home_y ==
  /\ Step(Console, "home_y", "refresh")
  /\ cursor_y' = SCROLL_Y0 - 1
  /\ UNCHANGED <<fb, screen, compositor_lock, cursor_x, at, c, history, pointerVars, clearVars>>

clear_refresh ==
  /\ Step(Console, "refresh", "idle")
  /\ vga_refresh
  /\ UNCHANGED <<fb, compositor_lock, cursorVars, pointerVars, clearVars>>

compositor_clear_screen ==
  clear_start \/ clear_column \/ clear_home_x \/ clear_home_y \/ clear_refresh

-----------------------------------------------------------------------------
Next == compositor_main \/ cpu_usage \/ CompositorEnableMouse \/ compositor_clear_screen

Spec == Init /\ [][Next]_vars

-----------------------------------------------------------------------------
(* Properties                                                              *)

\* compositor_lock, vga_refresh: whoever has drawn copies the buffer before it
\* goes away, so when nobody has drawn and not yet copied, the display shows
\* the buffer, although one drawer ignores the lock and copies others' halves.
Drawn(p) == pc[p] \in {"refresh", "advance"}
Clearing == pc[Console] \in {"blank", "home_x", "home_y", "refresh"}
Restored == pc[Pointer] = "draw"
DisplayCurrent ==
  (\A p \in Task : ~Drawn(p)) /\ ~Clearing /\ ~Restored => screen = fb

\* what a cell holds when the pointer is taken away
Beneath(x, y) ==
  IF <<x, y>> = old_screen /\ pc[Pointer] # "draw" THEN saved_vga_entry ELSE fb[y][x]

\* compositor_clear_screen leaves the cursor on row 0, so what is printed next
\* is written over the top bar: these are the cells it can reach.
OverTopBar(x, y) == y < SCROLL_Y0 /\ x \in SCROLL_X0 .. SCROLL_X1 - 1

\* compositor_main, CompositorEnableMouse, compositor_clear_screen: the pointer
\* is restored before the next cell is saved, and the cursor stays in its
\* columns and above the bottom bar even when the screen is cleared between its
\* loads and stores.  So no cell of the border changes before a clear; after
\* one, only those of the top bar that text can reach from row 0, and never the
\* corners, the sides, the bottom bar or the bar above the margin column.
BorderIntact ==
  \A x \in Column, y \in 0 .. BOTTOM :
    Background[y][x] = FRAME /\ (cleared => ~OverTopBar(x, y)) => Beneath(x, y) = FRAME

\* The margin column stays free of text, which is why a clear may leave it out.
MarginFree ==
  \A y \in SCROLL_Y0 .. SCROLL_Y1 : Beneath(SCROLL_X1, y) \in {SPACE, GLYPH}

\* What surrounds the text, whoever draws: the border, but for the part of its
\* top bar that a clear gives up, and the margin.
EdgesIntact == BorderIntact /\ MarginFree

\* compositor_main and compositor_scroll: until somebody clears the screen or
\* starts the pointer, the text is that of the reference terminal, whatever
\* cpu_usage writes meanwhile.
TextAsPrinted ==
  pc[Compositor] \in {"idle", "acquire", "load", "load_y"} /\ ~cleared /\ old_screen = NoPlace =>
    /\ cursor_x = sheet.x /\ cursor_y = sheet.row - Hidden + SCROLL_Y0 - 1
    /\ \A y \in SCROLL_Y0 .. SCROLL_Y1, x \in SCROLL_X0 .. SCROLL_X1 :
         fb[y][x] = sheet.rows[Hidden + y - SCROLL_Y0 + 1][x]
=============================================================================
