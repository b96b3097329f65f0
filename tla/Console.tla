------------------------------- MODULE Console -------------------------------
(***************************************************************************)
(* The screens of the virtual consoles, kernel/chr_drv/console.c: cursor,  *)
(* scrolling in video memory, erasing, inserting, deleting, the change of  *)
(* the console in front, and blanking.  The unit of memory is a character  *)
(* with its attribute.  Each console also has want, not in the code: its   *)
(* screen as rows and columns, changed as the command says it.             *)
(*                                                                         *)
(* A character, or a whole escape sequence, is one step:                   *)
(* the keyboard interrupt, which echoes through the same routines, does    *)
(* not fall into one.  Colours and character sets are left out.            *)
(***************************************************************************)
EXTENDS Integers, FiniteSets, SequencesExt

CONSTANTS NR_CONSOLES, LINES, COLS,
          TAB,             \* the tabulator, 8
          ROWS,            \* rows the video memory holds, at least LINES
          EGA,             \* scroll by moving the origin
          Command,         \* what is written to each console: <<character, or "esc" or "csi" and the rest>>
          Switching,       \* the keyboard and the blank timer are used
          MaxCommands      \* bound: commands written in all

VARIABLE cs

SCREEN == LINES * COLS
Consoles == 0..(NR_CONSOLES - 1)
VideoEnd == ROWS * COLS                     \* video_mem_term; video_mem_base is 0
Scrbuf(k) == VideoEnd + k * SCREEN            \* vc_scrbuf
Blanks == [r \in 0..(LINES - 1) |-> [q \in 0..(COLS - 1) |-> "blank"]]

Con0(start, end) == [x |-> 0, y |-> 0, top |-> 0, bottom |-> LINES, start |-> start, end |-> end,
                     origin |-> start, scr_end |-> start + SCREEN, pos |-> start,
                     saved_x |-> 0, saved_y |-> 0, want |-> Blanks]

(* con_init. *)
Cs0 == [ram |-> [a \in 0..(Scrbuf(NR_CONSOLES) - 1) |-> "blank"],
        con |-> [k \in Consoles |-> IF k = 0 THEN Con0(0, VideoEnd) ELSE Con0(Scrbuf(k), Scrbuf(k) + SCREEN)],
        fg |-> 0, blanked |-> FALSE, timer |-> TRUE, left |-> MaxCommands]

Init == cs = Cs0

-----------------------------------------------------------------------------
(* Memory: n characters at a. *)
Fill(s, a, n) ==
  [s EXCEPT !.ram = [b \in DOMAIN @ |-> IF b \in a..(a + n - 1) THEN "blank" ELSE @[b]]]
Copy(s, to, from, n) ==
  [s EXCEPT !.ram = [b \in DOMAIN @ |-> IF b \in to..(to + n - 1) THEN @[b - to + from] ELSE @[b]]]

(* The screen wanted: w(r, q) is what is at row r, column q. *)
Wanted(s, k, w(_, _)) ==
  [s EXCEPT !.con[k].want = [r \in 0..(LINES - 1) |-> [q \in 0..(COLS - 1) |-> w(r, q)]]]

Place(c) == c.origin + c.y * COLS + c.x

Gotoxy(s, k, x, y) ==
  IF x < 0 \/ x > COLS \/ y < 0 \/ y >= LINES THEN s
  ELSE LET c == [s.con[k] EXCEPT !.x = x, !.y = y] IN [s EXCEPT !.con[k] = [c EXCEPT !.pos = Place(c)]]

-----------------------------------------------------------------------------
(* Scrolling: the region is top..bottom - 1, or what is beside it when the cursor is. *)
Top(c) == IF c.y < c.top THEN 0 ELSE IF c.y > c.bottom THEN c.y ELSE c.top
Bottom(c) == IF c.y < c.top THEN c.y + 1 ELSE IF c.y > c.bottom THEN LINES ELSE c.bottom

(* The window moves on by a row, from the end of the memory back to its start. *)
Shifted(c, n) == [c EXCEPT !.origin = @ + n, !.pos = @ + n, !.scr_end = @ + n]
RollStays(s, k) ==
  LET c == Shifted(s.con[k], COLS)
      n == [s EXCEPT !.con[k] = c]
  IN  IF c.scr_end > c.end
      THEN [Fill(Copy(n, c.start, c.origin, SCREEN - COLS), c.start + SCREEN - COLS, COLS) EXCEPT
              !.con[k].origin = c.start, !.con[k].scr_end = c.start + SCREEN]
      ELSE Fill(n, c.scr_end - COLS, COLS)
Roll(s, k) ==
  LET c == Shifted(s.con[k], COLS)
      n == [s EXCEPT !.con[k] = c]
  IN  IF c.scr_end > c.end
      THEN [Fill(Copy(n, c.start, c.origin, SCREEN - COLS), c.start + SCREEN - COLS, COLS) EXCEPT
              !.con[k] = Shifted(c, c.start - c.origin)]
      ELSE Fill(n, c.scr_end - COLS, COLS)

Scrup(s, k) ==
  LET c == s.con[k]
      t == Top(c)
      b == Bottom(c)
      w == Wanted(s, k, LAMBDA r, q : IF r \notin t..(b - 1) THEN c.want[r][q]
                                      ELSE IF r = b - 1 THEN "blank" ELSE c.want[r + 1][q])
      at == c.origin + t * COLS
  IN  IF b <= t THEN s
      ELSE IF EGA /\ t = 0 /\ b = LINES THEN Roll(w, k)
      ELSE Fill(Copy(w, at, at + COLS, (b - t - 1) * COLS), c.origin + (b - 1) * COLS, COLS)

Scrdown(s, k) ==
  LET c == s.con[k]
      t == Top(c)
      b == Bottom(c)
      w == Wanted(s, k, LAMBDA r, q : IF r \notin t..(b - 1) THEN c.want[r][q]
                                      ELSE IF r = t THEN "blank" ELSE c.want[r - 1][q])
      at == c.origin + t * COLS
  IN  IF b <= t THEN s ELSE Fill(Copy(w, at + COLS, at, (b - t - 1) * COLS), at, COLS)

(* lf, ri, cr, del, and a step to the left. *)
Lf(s, k) == IF s.con[k].y + 1 < s.con[k].bottom
            THEN [s EXCEPT !.con[k].y = @ + 1, !.con[k].pos = @ + COLS] ELSE Scrup(s, k)
Ri(s, k) == IF s.con[k].y > s.con[k].top
            THEN [s EXCEPT !.con[k].y = @ - 1, !.con[k].pos = @ - COLS] ELSE Scrdown(s, k)
Cr(s, k) == [s EXCEPT !.con[k].pos = @ - s.con[k].x, !.con[k].x = 0]
Back(s, k) == IF s.con[k].x = 0 THEN s ELSE [s EXCEPT !.con[k].x = @ - 1, !.con[k].pos = @ - 1]

Store(s, k, ch) ==
  LET c == s.con[k]
  IN  [Wanted(s, k, LAMBDA r, q : IF <<r, q>> = <<c.y, c.x>> THEN ch ELSE c.want[r][q])
         EXCEPT !.ram[c.pos] = ch]
Del(s, k) == IF s.con[k].x = 0 THEN s ELSE Store(Back(s, k), k, "blank")

(* Past the last column the cursor goes to the next line. *)
Wrap(s, k) == Lf([s EXCEPT !.con[k].x = @ - COLS, !.con[k].pos = @ - COLS], k)
Print_(s, k) ==
  LET n == Store(IF s.con[k].x >= COLS THEN Wrap(s, k) ELSE s, k, "char")
  IN  [n EXCEPT !.con[k].x = @ + 1, !.con[k].pos = @ + 1]
Tab(s, k) ==
  LET n == TAB - (s.con[k].x % TAB)
      t == [s EXCEPT !.con[k].x = @ + n, !.con[k].pos = @ + n]
  IN  IF t.con[k].x > COLS THEN Wrap(t, k) ELSE t

-----------------------------------------------------------------------------
(* Erasing: n characters at a, those for which the test on row and column holds. *)
Erase(s, k, a, n, test(_, _)) ==
  LET c == s.con[k]
  IN  Fill(Wanted(s, k, LAMBDA r, q : IF test(r, q) THEN "blank" ELSE c.want[r][q]), a, n)

CsiJ(s, k, p) ==
  LET c == s.con[k]
      before(r, q) == r * COLS + q < c.y * COLS + c.x
  IN  CASE p = 0 -> Erase(s, k, c.pos, c.scr_end - c.pos, LAMBDA r, q : ~before(r, q))
        [] p = 1 -> Erase(s, k, c.origin, c.pos - c.origin, before)
        [] p = 2 -> Erase(s, k, c.origin, SCREEN, LAMBDA r, q : TRUE)
        [] OTHER -> s

CsiK(s, k, p) ==
  LET c == s.con[k]
  IN  CASE p = 0 /\ c.x < COLS -> Erase(s, k, c.pos, COLS - c.x, LAMBDA r, q : r = c.y /\ q >= c.x)
        [] p = 1 -> Erase(s, k, c.pos - c.x, c.x, LAMBDA r, q : r = c.y /\ q < c.x)
        [] p = 2 -> Erase(s, k, c.pos - c.x, COLS, LAMBDA r, q : r = c.y)
        [] OTHER -> s

InsertChar(s, k) ==
  LET c == s.con[k]
      rest == COLS - c.x
      w == Wanted(s, k, LAMBDA r, q : IF r # c.y \/ q < c.x THEN c.want[r][q]
                                      ELSE IF q = c.x THEN "blank" ELSE c.want[r][q - 1])
  IN  IF rest <= 0 THEN s ELSE Fill(Copy(w, c.pos + 1, c.pos, rest - 1), c.pos, 1)

DeleteChar(s, k) ==
  LET c == s.con[k]
      rest == COLS - c.x
      w == Wanted(s, k, LAMBDA r, q : IF r # c.y \/ q < c.x THEN c.want[r][q]
                                      ELSE IF q = COLS - 1 THEN "blank" ELSE c.want[r][q + 1])
  IN  IF rest <= 0 THEN s ELSE Fill(Copy(w, c.pos, c.pos + 1, rest - 1), c.pos + rest - 1, 1)

(* insert_line and delete_line, with the lines from the cursor on as the region. *)
InLines(s, k, scroll(_, _)) ==
  LET c == s.con[k]
      n == scroll([s EXCEPT !.con[k].top = c.y, !.con[k].bottom = LINES], k)
  IN  [n EXCEPT !.con[k].top = c.top, !.con[k].bottom = c.bottom]
InsertLine(s, k) == InLines(s, k, Scrdown)
DeleteLine(s, k) == InLines(s, k, Scrup)

Times(op(_, _), s, k, nr, most) ==
  LET n == IF nr > most THEN most ELSE IF nr = 0 THEN 1 ELSE nr
  IN  FoldLeft(LAMBDA a, i : op(a, k), s, [i \in 1..n |-> i])
CsiAt(s, k, nr) == Times(InsertChar, s, k, nr, COLS)
CsiL(s, k, nr) == Times(InsertLine, s, k, nr, LINES)
CsiP(s, k, nr) == Times(DeleteChar, s, k, nr, COLS)
CsiM(s, k, nr) == Times(DeleteLine, s, k, nr, LINES)

-----------------------------------------------------------------------------
SetRegion(s, k, p0, p1) ==
  LET t == IF p0 > 0 THEN p0 - 1 ELSE p0
      b == IF p1 = 0 THEN LINES ELSE p1
  IN  IF t < b /\ b <= LINES THEN [s EXCEPT !.con[k].top = t, !.con[k].bottom = b] ELSE s

SaveCur(s, k) == [s EXCEPT !.con[k].saved_x = s.con[k].x, !.con[k].saved_y = s.con[k].y]
RestoreCur(s, k) == Gotoxy(s, k, s.con[k].saved_x, s.con[k].saved_y)

(* con_write: a character, after ESC or after CSI. *)
Moved(s, k, ch, p0, p1) ==
  LET c == s.con[k]
      n == IF p0 = 0 THEN 1 ELSE p0
      z(p) == IF p > 0 THEN p - 1 ELSE p
  IN  CASE ch = "G" -> Gotoxy(s, k, z(p0), c.y)
        [] ch = "A" -> Gotoxy(s, k, c.x, c.y - n)
        [] ch = "B" -> Gotoxy(s, k, c.x, c.y + n)
        [] ch = "C" -> Gotoxy(s, k, c.x + n, c.y)
        [] ch = "D" -> Gotoxy(s, k, c.x - n, c.y)
        [] ch = "E" -> Gotoxy(s, k, 0, c.y + n)
        [] ch = "F" -> Gotoxy(s, k, 0, c.y - n)
        [] ch = "d" -> Gotoxy(s, k, c.x, z(p0))
        [] ch = "H" -> Gotoxy(s, k, z(p1), z(p0))

Csi(s, k, ch, p0, p1) ==
  CASE ch = "J" -> CsiJ(s, k, p0)
    [] ch = "K" -> CsiK(s, k, p0)
    [] ch = "L" -> CsiL(s, k, p0)
    [] ch = "M" -> CsiM(s, k, p0)
    [] ch = "P" -> CsiP(s, k, p0)
    [] ch = "@" -> CsiAt(s, k, p0)
    [] ch = "r" -> SetRegion(s, k, p0, p1)
    [] ch = "s" -> SaveCur(s, k)
    [] ch = "u" -> RestoreCur(s, k)
    [] OTHER -> Moved(s, k, ch, p0, p1)

Esc(s, k, ch) ==
  CASE ch = "E" -> Gotoxy(s, k, 0, s.con[k].y + 1)
    [] ch = "M" -> Ri(s, k)
    [] ch = "D" -> Lf(s, k)
    [] ch = "7" -> SaveCur(s, k)
    [] ch = "8" -> RestoreCur(s, k)
    [] ch = "c" -> [s EXCEPT !.con[k].top = 0, !.con[k].bottom = LINES]

Written(s, k, cmd) ==
  CASE cmd[1] = "print" -> Print_(s, k)
    [] cmd[1] = "lf" -> Lf(s, k)
    [] cmd[1] = "cr" -> Cr(s, k)
    [] cmd[1] = "bs" -> Back(s, k)
    [] cmd[1] = "del" -> Del(s, k)
    [] cmd[1] = "tab" -> Tab(s, k)
    [] cmd[1] = "esc" -> Esc(s, k, cmd[2])
    [] cmd[1] = "csi" -> Csi(s, k, cmd[2], cmd[3], cmd[4])

(* The console in front is shown, whether the screen is blanked or not. *)
Shown == cs.con[cs.fg].start = 0

(* A console changed to while the screen is blanked is shown again when the timer comes,
   from its buffer: what is written to it in between is lost, and left out here. *)
ConWrite(k, cmd) ==
  /\ cs.left > 0 /\ ~(cs.blanked /\ Shown /\ k = cs.fg)
  /\ cs' = [Written(cs, k, cmd) EXCEPT !.timer = TRUE, !.left = @ - 1]

(* console_print, for printk. *)
ConsolePrint(ch) ==
  /\ cs.left > 0 /\ ~(cs.blanked /\ Shown)
  /\ cs' = [(IF ch = "lf" THEN Lf(Cr(cs, cs.fg), cs.fg) ELSE Print_(cs, cs.fg)) EXCEPT !.left = @ - 1]

-----------------------------------------------------------------------------
Rebased(c, start, end) ==
  LET n == [c EXCEPT !.start = start, !.end = end, !.origin = start, !.scr_end = start + SCREEN,
                     !.top = 0, !.bottom = LINES]
  IN  [n EXCEPT !.pos = Place(n)]

GetScrmem(s) ==
  LET b == Scrbuf(s.fg)
  IN  [Copy(s, b, s.con[s.fg].origin, SCREEN) EXCEPT !.con[s.fg] = Rebased(@, b, b + SCREEN)]
SetScrmem(s) ==
  [Copy(s, 0, Scrbuf(s.fg), SCREEN) EXCEPT !.con[s.fg] = Rebased(@, 0, VideoEnd)]

(* update_screen, from change_console; the keyboard interrupt then starts the timer. *)
UpdateScreen(new) ==
  /\ Switching /\ new # cs.fg
  /\ cs' = [SetScrmem([GetScrmem(cs) EXCEPT !.fg = new]) EXCEPT !.timer = TRUE]

KeyPressed == Switching /\ ~cs.timer /\ cs' = [cs EXCEPT !.timer = TRUE]

(* The timer: blank_screen or unblank_screen. *)
BlankTimer ==
  /\ Switching /\ cs.timer
  /\ cs' = IF cs.blanked THEN [SetScrmem(cs) EXCEPT !.blanked = FALSE]
           ELSE [Fill(GetScrmem(cs), 0, VideoEnd) EXCEPT !.blanked = TRUE, !.timer = FALSE]

Next == \/ (\E k \in Consoles : \E cmd \in Command[k] : ConWrite(k, cmd))
        \/ (\E ch \in {"lf", "char"} : ConsolePrint(ch))
        \/ (\E k \in Consoles : UpdateScreen(k)) \/ KeyPressed \/ BlankTimer

-----------------------------------------------------------------------------
(* The cursor is where x and y say, in the memory of its own console: nothing a console
   writes lands on another's, or outside. *)
CursorInPlace ==
  \A k \in Consoles :
    LET c == cs.con[k]
    IN  /\ c.pos = Place(c) /\ c.x \in 0..COLS /\ c.y \in 0..(LINES - 1)
        /\ c.start <= c.origin /\ c.origin + SCREEN = c.scr_end /\ c.scr_end <= c.end
        /\ c.start = Scrbuf(k) \/ (k = cs.fg /\ c.start = 0)

(* Each console shows what its commands, one after another, make of its screen: however
   its window moves through the memory, it is changed for another or blanked. *)
ScreensExact ==
  \A k \in Consoles : \A r \in 0..(LINES - 1), q \in 0..(COLS - 1) :
    cs.ram[cs.con[k].origin + r * COLS + q] = cs.con[k].want[r][q]
=============================================================================
