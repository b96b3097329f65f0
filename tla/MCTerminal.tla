----------------------------- MODULE MCTerminal -----------------------------
(***************************************************************************)
(* Terminal: one reader and two writers, rings of three characters.        *)
(* Console: two of three rows and two columns, a row of spare memory.      *)
(* The two do not meet but in con_write, so each is run by itself.         *)
(***************************************************************************)
EXTENDS Terminal, TLC

CONSTANTS r1, w1, w2

VARIABLES part, cs

MCGroup == r1 :> 1 @@ w1 :> 1 @@ w2 :> 2
Canonical == [canon |-> TRUE, echo |-> TRUE, vmin |-> 1, vtime |-> FALSE]
Raw == [canon |-> FALSE, echo |-> FALSE, vmin |-> 2, vtime |-> TRUE]
MCMode == {Canonical, Raw}
MCText == <<"x", "nl">>

Everything ==
  {<<c>> : c \in {"print", "lf", "cr", "bs", "del", "tab"}}
  \cup {<<"esc", c>> : c \in {"E", "M", "D", "7", "8", "c"}}
  \cup {<<"csi", c, p, 0>> : c \in {"G", "A", "B", "C", "D", "E", "F", "d", "J", "K", "L", "M", "P", "@"},
                             p \in {0, 2}}
  \cup {<<"csi", c, p, q>> : c \in {"H", "r"}, p \in 0..2, q \in 0..2}
  \cup {<<"csi", c, 0, 0>> : c \in {"s", "u"}}

Screen == INSTANCE Console WITH
            NR_CONSOLES <- 2, LINES <- 3, COLS <- 2, TAB <- 2, ROWS <- 4, EGA <- TRUE,
            Command <- (0 :> Everything @@ 1 :> {<<"print">>, <<"lf">>}),
            Switching <- TRUE, MaxCommands <- 5

(* Much input and an ioctl; two writers and a little input, or an ioctl; or the console. *)
MCInit == /\ mode \in Mode /\ tty = Tty0 /\ fg = 1 /\ sig = {}
          /\ rd = [p \in Reader |-> Idle] /\ wr = [p \in Writer |-> Idle] /\ cr_flag = NoOne
          /\ hist = {} /\ Screen!Init
          /\ \/ part = "tty" /\ typed = 0 /\ ioctls = 0 /\ writes = MaxWrites
             \/ part = "tty" /\ typed = MaxTyped - 2 /\ ioctls = MaxIoctl /\ writes = 0 /\ mode = Canonical
             \/ part = "tty" /\ typed = MaxTyped /\ ioctls = 0 /\ writes = 0 /\ mode = Canonical
             \/ part = "console" /\ typed = 0 /\ ioctls = 0 /\ writes = 0 /\ mode = Canonical

MCNext == \/ part = "tty" /\ Next /\ UNCHANGED <<part, cs>>
          \/ part = "console" /\ Screen!Next /\ UNCHANGED <<part, vars>>

MCSpec == MCInit /\ [][MCNext]_<<vars, part, cs>>

(* Console: each console shows what its commands, one after another, make of its screen,
   and its cursor stays in its own memory: however the window moves through the video
   memory, the console is changed for another or blanked. *)
ScreensExact == part = "console" => Screen!CursorInPlace /\ Screen!ScreensExact
=============================================================================
