---------------------------- MODULE TextConsole ----------------------------
(***************************************************************************)
(* The framebuffer text console (arch/x86_64/framebuffer.c) and the        *)
(* console backend in front of it (drivers/console_backend.c).             *)
(*                                                                         *)
(* The console keeps the last HistoryRows lines in a circular table and    *)
(* draws incrementally: a character redraws one cell, a newline at the     *)
(* bottom moves the pixels up, and only a jump of the view redraws all.    *)
(* A cell of the screen holds the character drawn in it last.  A write is  *)
(* one step per character, as scdk_fb_text_write makes it.                 *)
(***************************************************************************)
EXTENDS Naturals, Integers

CONSTANTS Chars,         \* printable characters, Space among them
          Space, Newline, Return, Backspace, Tab,
          Pattern,       \* what the boot test pattern leaves in a cell
          NoFb, Framebuffers, \* [width, height] in pixels
          HistoryRows,   \* CONSOLE_HISTORY_ROWS
          MaxColumns,    \* CONSOLE_MAX_COLUMNS
          TabStop,       \* 4 in the code
          ScrollSteps,   \* arguments of scdk_fb_text_scroll
          WordMod,       \* 2^64 in the code
          MaxLine        \* bound on the line counter

VARIABLES con,          \* the static variables of framebuffer.c and the screen
          initialized,  \* console_backend_initialized
          term          \* history: a terminal with unlimited memory fed the
                        \* same characters; Blind when it is not comparable

tcVars == <<con, initialized, term>>

-----------------------------------------------------------------------------
(* Geometry. *)
CellWidth == 14
LineStep == 22
Margin == 16

console_origin_x(fb) == IF fb.width < 64 THEN 4 ELSE fb.width \div 32

console_origin_y(fb) ==
    LET rows == (fb.height - Margin) \div LineStep
    IN  IF fb.height <= LineStep - 2 + Margin \/ rows = 0 THEN 4
        ELSE (fb.height - rows * LineStep) \div 2

console_columns(fb) ==
    IF fb.width <= console_origin_x(fb) THEN 0
    ELSE (fb.width - console_origin_x(fb)) \div CellWidth

console_visible_columns(fb) ==
    IF console_columns(fb) > MaxColumns THEN MaxColumns ELSE console_columns(fb)

console_rows(fb) ==
    IF fb.height <= console_origin_y(fb) THEN 0
    ELSE (fb.height - console_origin_y(fb)) \div LineStep

\* Two lines of text and one tab stop fit on the screen, and the screen fits
\* in the history.  A narrower screen would keep the loop of Tab running for
\* ever; scroll_console_pixels_up does not clear a screen of one line.
ASSUME ScreenFits ==
    \A fb \in Framebuffers : /\ console_rows(fb) \in 2 .. HistoryRows
                             /\ console_visible_columns(fb) >= TabStop

Rows(c) == console_rows(c.fb)
Columns(c) == console_visible_columns(c.fb)
BlankRow == [k \in 0 .. MaxColumns - 1 |-> Space]
NoText == [l \in 0 .. MaxLine |-> BlankRow]
Blind == [line |-> 0, column |-> 0, text |-> NoText, on |-> FALSE]
Filled(fb, ch) == [r \in 0 .. console_rows(fb) - 1 |->
                      [k \in 0 .. console_visible_columns(fb) - 1 |-> ch]]

TcInit ==
    /\ con = [fb |-> NoFb, ready |-> FALSE, history |-> [l \in 0 .. HistoryRows - 1 |-> BlankRow],
              column |-> 0, current |-> 0, top |-> 0, screen |-> <<>>]
    /\ initialized = FALSE /\ term = Blind

-----------------------------------------------------------------------------
(* History and view. *)
\* Mutant: the row of a line that left the history keeps its text.
clear_history_row_never(c, line) == c

clear_history_row(c, line) == [c EXCEPT !.history[line % HistoryRows] = BlankRow]

oldest_history_line(c) ==
    IF c.current + 1 > HistoryRows THEN c.current + 1 - HistoryRows ELSE 0

bottom_view_top_line(c) ==
    IF c.current + 1 <= Rows(c) THEN 0 ELSE c.current + 1 - Rows(c)

view_is_at_bottom(c) == c.top >= bottom_view_top_line(c)

clamp_console_view(c) ==
    LET up == IF c.top < oldest_history_line(c) THEN oldest_history_line(c) ELSE c.top
    IN  [c EXCEPT !.top = IF up > bottom_view_top_line(c) THEN bottom_view_top_line(c) ELSE up]

history_line_visible(c, line) == line \in c.top .. c.top + Rows(c) - 1

history_char_at(c, line, column) ==
    IF line < oldest_history_line(c) \/ line > c.current THEN Space
    ELSE c.history[line % HistoryRows][column]

update_console_cursor_pixels(c) ==
    [c EXCEPT !.column = IF @ > Columns(c) THEN Columns(c) ELSE @]

draw_history_cell(c, line, column) ==
    IF history_line_visible(c, line) /\ column < Columns(c)
    THEN [c EXCEPT !.screen[line - c.top][column] = history_char_at(c, line, column)]
    ELSE c

render_console(c) ==
    LET d == clamp_console_view(c)
    IN  update_console_cursor_pixels([d EXCEPT !.screen =
            [r \in 0 .. Rows(d) - 1 |-> [k \in 0 .. Columns(d) - 1 |->
                history_char_at(d, d.top + r, k)]]])

scroll_console_pixels_up(c) ==
    IF Rows(c) <= 1 THEN c
    ELSE [c EXCEPT !.screen = [r \in DOMAIN @ |->
             IF r < Rows(c) - 1 THEN @[r + 1] ELSE [k \in DOMAIN @[r] |-> Space]]]

Follow(c, follow) ==
    clamp_console_view(IF follow THEN [c EXCEPT !.top = bottom_view_top_line(c)] ELSE c)

-----------------------------------------------------------------------------
(* Characters. *)
NextLine(c, follow) ==
    LET d == Follow(clear_history_row([c EXCEPT !.current = @ + 1, !.column = 0], c.current + 1),
                    follow)
    IN  IF follow /\ d.top = c.top + 1
        THEN update_console_cursor_pixels(scroll_console_pixels_up(d))
        ELSE IF d.top # c.top THEN render_console(d) ELSE update_console_cursor_pixels(d)

\* Mutant: output takes a reader back to the bottom.
console_newline_follows(c) == NextLine(c, TRUE)

console_newline(c) == NextLine(c, view_is_at_bottom(c))

console_carriage_return(c) == update_console_cursor_pixels([c EXCEPT !.column = 0])

console_backspace(c) ==
    LET d == [c EXCEPT !.column = @ - 1,
                       !.history[c.current % HistoryRows][c.column - 1] = Space]
    IN  IF c.column = 0 THEN c
        ELSE update_console_cursor_pixels(draw_history_cell(d, d.current, d.column))

put_printable(c, ch) ==
    LET d == IF c.column >= Columns(c) THEN console_newline(c) ELSE c
        e == Follow([d EXCEPT !.history[d.current % HistoryRows][d.column] = ch],
                    view_is_at_bottom(d))
        f == IF e.top # d.top THEN render_console(e) ELSE draw_history_cell(e, e.current, e.column)
    IN  update_console_cursor_pixels([f EXCEPT !.column = @ + 1])

RECURSIVE put_tab(_)
put_tab(c) ==
    LET d == put_printable(c, Space) IN IF d.column % TabStop # 0 THEN put_tab(d) ELSE d

Emptied(c) ==
    [c EXCEPT !.history = [l \in DOMAIN @ |-> BlankRow],
              !.column = 0, !.current = 0, !.top = 0, !.ready = TRUE]

ensure_console_cursor(c) == IF c.ready THEN c ELSE update_console_cursor_pixels(Emptied(c))

PutChar(c, ch) ==
    LET d == ensure_console_cursor(c)
    IN  CASE ch = Newline   -> console_newline(d)
          [] ch = Return    -> console_carriage_return(d)
          [] ch = Backspace -> console_backspace(d)
          [] ch = Tab       -> put_tab(d)
          [] OTHER          -> put_printable(d, ch)

Cleared(c) == update_console_cursor_pixels(Emptied([c EXCEPT !.screen = Filled(c.fb, Space)]))

-----------------------------------------------------------------------------
(* The terminal with unlimited memory.  Its cells form one line of text: a *)
(* character goes to the cell after the last one, whichever line that is.  *)
Write(t, width, ch, n) ==
    LET from == t.line * width + t.column
        last == from + n - 1
    IN  [t EXCEPT !.line = last \div width, !.column = (last % width) + 1,
                  !.text = [l \in DOMAIN @ |-> [k \in DOMAIN @[l] |->
                      IF k < width /\ l * width + k \in from .. last THEN ch ELSE @[l][k]]]]

\* Up to the next tab stop of the line, or the first one of the next line.
TabSpaces(t, width) ==
    LET n == TabStop - (t.column % TabStop)
    IN  IF t.column + n <= width THEN n ELSE width - t.column + TabStop

Typed(t, width, ch) ==
    CASE ~t.on          -> t
      [] ch = Newline   -> [t EXCEPT !.line = @ + 1, !.column = 0]
      [] ch = Return    -> [t EXCEPT !.column = 0]
      [] ch = Backspace -> IF t.column = 0 THEN t
                           ELSE [t EXCEPT !.column = @ - 1, !.text[t.line][t.column - 1] = Space]
      [] ch = Tab       -> Write(t, width, Space, TabSpaces(t, width))
      [] OTHER          -> Write(t, width, ch, 1)

-----------------------------------------------------------------------------
(* Operations.  Without a framebuffer they change only the backend's flag. *)
HasFb == con.fb # NoFb

scdk_framebuffer_init ==
    /\ ~HasFb
    /\ \E fb \in Framebuffers :
           con' = [con EXCEPT !.fb = fb, !.ready = FALSE, !.screen = Filled(fb, Pattern)]
    /\ term' = Blind /\ UNCHANGED initialized

\* The backend clears the screen on its first use.
scdk_console_backend_init(c) == IF initialized \/ ~HasFb THEN c ELSE Cleared(c)
TermAtInit == IF initialized \/ ~HasFb THEN term ELSE [Blind EXCEPT !.on = TRUE]

scdk_fb_text_putchar(ch) ==
    /\ con' = IF HasFb THEN PutChar(scdk_console_backend_init(con), ch) ELSE con
    /\ con'.current <= MaxLine
    /\ term' = IF HasFb THEN Typed(TermAtInit, Columns(con), ch) ELSE term
    /\ initialized' = TRUE

\* The console service asks for this when it starts, and for clear later.
scdk_fb_text_clear ==
    /\ con' = IF HasFb THEN Cleared(con) ELSE con
    /\ term' = IF HasFb THEN [Blind EXCEPT !.on = TRUE] ELSE term
    /\ initialized' = TRUE

\* The subtractions are on unsigned words.
Scrolled(c, lines) ==
    LET above == (c.top - oldest_history_line(c)) % WordMod
        below == (bottom_view_top_line(c) - c.top) % WordMod
        top == IF lines < 0
               THEN IF -lines > above THEN oldest_history_line(c) ELSE c.top + lines
               ELSE IF lines > below THEN bottom_view_top_line(c) ELSE c.top + lines
        d == clamp_console_view([c EXCEPT !.top = top])
    IN  IF d.top # c.top THEN render_console(d) ELSE d

scdk_fb_text_scroll(lines) ==
    /\ con' = IF HasFb THEN Scrolled(ensure_console_cursor(scdk_console_backend_init(con)), lines)
              ELSE con
    /\ term' = TermAtInit /\ initialized' = TRUE

\* No caller in the kernel.  The lines below the cursor stay on the screen
\* and are no longer part of the history.
scdk_fb_text_set_cursor(x, y) ==
    /\ HasFb /\ x < console_columns(con.fb) /\ y < Rows(con)
    /\ term.on    \* bound: one such move until the next clear
    /\ con.top + y \in oldest_history_line(con) .. con.current
    /\ con' = update_console_cursor_pixels(
                  [con EXCEPT !.column = x, !.current = con.top + y, !.ready = TRUE])
    /\ term' = Blind /\ UNCHANGED initialized

\* No caller in the kernel.
scdk_fb_text_init(fb) ==
    /\ con' = Cleared([con EXCEPT !.fb = fb, !.ready = FALSE])
    /\ term' = [Blind EXCEPT !.on = TRUE] /\ UNCHANGED initialized

TcNext ==
    \/ scdk_framebuffer_init
    \/ \E ch \in Chars \cup {Newline, Return, Backspace, Tab} : scdk_fb_text_putchar(ch)
    \/ scdk_fb_text_clear
    \/ \E lines \in ScrollSteps : scdk_fb_text_scroll(lines)
    \/ \E x \in 0 .. MaxColumns + 1, y \in 0 .. HistoryRows - 1 : scdk_fb_text_set_cursor(x, y)
    \/ \E fb \in Framebuffers : scdk_fb_text_init(fb)

TcSpec == TcInit /\ [][TcNext]_tcVars

-----------------------------------------------------------------------------
(* The cursor stays on its line, one past the last column at most, so that *)
(* every write to console_history and to the screen is inside the table;   *)
(* the view never leaves the lines the history holds.                      *)
TcTypeOK ==
    /\ con.history \in [0 .. HistoryRows - 1 -> [0 .. MaxColumns - 1 -> Chars]]
    /\ con.current \in 0 .. MaxLine
    /\ HasFb => /\ con.column \in 0 .. Columns(con)
                /\ con.top \in oldest_history_line(con) .. con.current
                /\ con.screen \in [0 .. Rows(con) - 1 ->
                                      [0 .. Columns(con) - 1 -> Chars \cup {Pattern}]]

(* From a clear until somebody moves the cursor by hand, the screen built  *)
(* cell by cell (draw_history_cell, scroll_console_pixels_up,              *)
(* render_console) shows the lines at the view exactly as a terminal that  *)
(* forgets nothing has them, and the cursor is where that terminal has it, *)
(* whatever lines the circular history has reused.  The table's types are  *)
(* part of it.                                                             *)
ScreenShowsText ==
    /\ TcTypeOK
    /\ term.on =>
        /\ <<con.current, con.column>> = <<term.line, term.column>>
        /\ \A r \in DOMAIN con.screen, k \in 0 .. Columns(con) - 1 :
               con.screen[r][k] = IF con.top + r > term.line THEN Space
                                  ELSE term.text[con.top + r][k]

(* A reader who has scrolled up keeps their place while output arrives: the *)
(* view moves only when its first line leaves the history.                 *)
ReaderKeepsPlace ==
    [][(/\ HasFb /\ con.ready /\ initialized /\ ~view_is_at_bottom(con)
        /\ \E ch \in Chars \cup {Newline, Return, Backspace, Tab} : scdk_fb_text_putchar(ch))
       => con'.top = IF con.top < oldest_history_line(con') THEN oldest_history_line(con')
                     ELSE con.top]_tcVars
=============================================================================
