------------------------------- MODULE LmsHmi -------------------------------
(***************************************************************************)
(* The front panel on top of the link: the menu that the key callbacks     *)
(* switch (key_function.c) and the display thread (hmi.c), which paints    *)
(* the page of the current menu every 200 ms and keeps the lamp marks of   *)
(* the home page up to date from the change mailbox, one mail per pass.    *)
(*                                                                         *)
(* Contexts.  Key callbacks run in the 5 ms timer interrupt and are        *)
(* atomic.  The display thread has the highest priority of all threads and *)
(* busy-waits while it paints, so the shell thread runs only while it      *)
(* sleeps; interrupts preempt it between any two reads of shared state.    *)
(***************************************************************************)
EXTENDS LmsLink, FiniteSets

CONSTANTS
    Blank,      \* a mark that shows nothing
    Drawn,      \* the status bytes draw_mark has a symbol for
    MaxClicks   \* key clicks between two comparisons of hmi_test

ASSUME MarkAssumption == Blank \notin Status \union {NoAnswer}

ASSUME ClickAssumption == MaxClicks \in Nat

VARIABLES
    g_cur_menu,  \* menu selected by the keys
    last_menu,   \* menu the display thread last switched to
    g_firstrun,  \* the home page must be redrawn in full
    hpc,         \* display thread: its next step
    at,          \* display thread: terminal it is drawing
    val,         \* display thread: status byte it read for that terminal
    mark,        \* screen: symbol shown per terminal
    painted,     \* screen: pages painted since the last clear
    dropped,     \* observer: changes refused by the full mailbox, not yet redrawn
    clicks       \* key clicks since hmi_test compared the menus

menuVars == <<g_cur_menu, clicks>>
threadVars == <<last_menu, g_firstrun, hpc, at, val>>
screenVars == <<mark, painted>>
hmiVars == <<menuVars, threadVars, screenVars, dropped>>

MENU_HOME == 0
MENU_VI == 1
MENU_UPS == 2
MENU_IO == 3
MENU_SETTING == 4
MENU_NUM == 5

Menus == 0 .. MENU_NUM - 1

\* draw_mark: a byte without a symbol leaves the erased place empty.
Shape(v) == IF v \in Drawn THEN v ELSE Blank

(* Types: the menu always indexes display_table and key_func_table, and the *)
(* terminal being drawn is one of the table (hmi.c:389, key_function.c:176).*)
HmiTypeOK ==
    /\ g_cur_menu \in Menus
    /\ last_menu \in 0 .. MENU_NUM
    /\ g_firstrun \in BOOLEAN
    /\ hpc \in {"top", "note", "show", "readAll", "drawAll", "readOne", "drawOne", "sleep"}
    /\ at \in Terminals
    /\ val \in Status \union {NoAnswer, Blank}
    /\ mark \in [Terminals -> Status \union {NoAnswer, Blank}]
    /\ painted \subseteq Menus
    /\ dropped \subseteq Terminals
    /\ clicks \in 0 .. MaxClicks

HmiInit ==
    /\ Init
    /\ g_cur_menu = MENU_HOME
    /\ last_menu = MENU_NUM
    /\ g_firstrun = TRUE
    /\ hpc = "top"
    /\ at = 0
    /\ val = Blank
    /\ mark = [t \in Terminals |-> Blank]
    /\ painted = {}
    /\ dropped = {}
    /\ clicks = 0

-----------------------------------------------------------------------------
(* Keys. *)

page_down == g_cur_menu' = IF g_cur_menu < MENU_NUM - 2 THEN g_cur_menu + 1 ELSE MENU_HOME

PageUpNoWrap == g_cur_menu' = g_cur_menu - 1

page_up == g_cur_menu' = IF g_cur_menu > 0 THEN g_cur_menu - 1 ELSE MENU_NUM - 2

page_home == g_cur_menu' = MENU_HOME

page_settings == g_cur_menu' = MENU_SETTING

\* key_func_table: SET opens the settings from the first two pages only, and
\* ENTER goes home except on the UPS and IO pages.  The flags the other
\* entries set are read by nothing that changes state.
KeySet ==
    IF g_cur_menu \in {MENU_HOME, MENU_VI} THEN page_settings ELSE UNCHANGED g_cur_menu

KeyEnter ==
    IF g_cur_menu \in {MENU_UPS, MENU_IO} THEN UNCHANGED g_cur_menu ELSE page_home

Key ==
    /\ clicks < MaxClicks
    /\ clicks' = clicks + 1
    /\ KeySet \/ page_up \/ page_down \/ KeyEnter
    /\ UNCHANGED <<vars, threadVars, screenVars, dropped>>

-----------------------------------------------------------------------------
(* Display thread: one pass of the loop of hmi_test.  g_cur_menu is read    *)
(* three times: to compare, to remember and to choose the page.             *)

HmiTop ==
    /\ hpc = "top"
    /\ hpc' = IF g_cur_menu # last_menu THEN "note" ELSE "show"
    /\ clicks' = 0
    /\ UNCHANGED <<vars, g_cur_menu, last_menu, g_firstrun, at, val, screenVars, dropped>>

NoClear == UNCHANGED screenVars

oled_clear ==
    /\ mark' = [t \in Terminals |-> Blank]
    /\ painted' = {}

NoRedraw == UNCHANGED g_firstrun

RedrawAll == g_firstrun' = TRUE

HmiNote ==
    /\ hpc = "note"
    /\ last_menu' = g_cur_menu
    /\ oled_clear
    /\ RedrawAll
    /\ hpc' = "show"
    /\ UNCHANGED <<vars, menuVars, at, val, dropped>>

\* lms_status_disp when the page is new: every mark is drawn.
HmiShowAll ==
    /\ hpc = "show"
    /\ g_cur_menu = MENU_HOME
    /\ g_firstrun
    /\ g_firstrun' = FALSE
    /\ painted' = painted \union {MENU_HOME}
    /\ at' = 0
    /\ hpc' = "readAll"
    /\ UNCHANGED <<vars, menuVars, last_menu, val, mark, dropped>>

\* lms_status_disp afterwards: at most one mail is taken.
HmiShowOne ==
    /\ hpc = "show"
    /\ g_cur_menu = MENU_HOME
    /\ ~g_firstrun
    /\ \/ /\ mb # <<>>
          /\ at' = Head(mb)
          /\ MbRecv
          /\ painted' = painted \union {MENU_HOME}
          /\ hpc' = "readOne"
       \/ /\ mb = <<>>
          /\ hpc' = "sleep"
          /\ UNCHANGED <<vars, at, painted>>
    /\ UNCHANGED <<menuVars, last_menu, g_firstrun, val, mark, dropped>>

\* vi_disp, ups_disp, io_disp, settings_disp.
HmiShowOther ==
    /\ hpc = "show"
    /\ g_cur_menu # MENU_HOME
    /\ painted' = painted \union {g_cur_menu}
    /\ hpc' = "sleep"
    /\ UNCHANGED <<vars, menuVars, last_menu, g_firstrun, at, val, mark, dropped>>

\* Erase a terminal's place and read its status ...
HmiRead ==
    /\ hpc \in {"readAll", "readOne"}
    /\ mark' = [mark EXCEPT ![at] = Blank]
    /\ val' = terminalState[at]
    /\ dropped' = dropped \ {at}
    /\ hpc' = IF hpc = "readAll" THEN "drawAll" ELSE "drawOne"
    /\ UNCHANGED <<vars, menuVars, last_menu, g_firstrun, at, painted>>

\* ... then draw it; a full redraw goes on with the next terminal.
HmiDraw ==
    /\ hpc \in {"drawAll", "drawOne"}
    /\ mark' = [mark EXCEPT ![at] = Shape(val)]
    /\ val' = Blank
    /\ \/ /\ hpc = "drawAll"
          /\ at < TERMIANL_NUM - 1
          /\ at' = at + 1
          /\ hpc' = "readAll"
       \/ /\ hpc = "drawAll" => at >= TERMIANL_NUM - 1
          /\ hpc' = "sleep"
          /\ UNCHANGED at
    /\ UNCHANGED <<vars, menuVars, last_menu, g_firstrun, painted, dropped>>

\* rt_thread_mdelay(200) is over.
HmiWake ==
    /\ hpc = "sleep"
    /\ hpc' = "top"
    /\ UNCHANGED <<vars, menuVars, last_menu, g_firstrun, at, val, screenVars, dropped>>

HmiStep ==
    \/ HmiTop
    \/ HmiNote
    \/ HmiShowAll
    \/ HmiShowOne
    \/ HmiShowOther
    \/ HmiRead
    \/ HmiDraw
    \/ HmiWake

-----------------------------------------------------------------------------
\* A change whose mail the full mailbox refuses in this step: a poll's, or
\* the one change_lms_state is about to announce.
Refused ==
    {t \in Terminals :
        /\ Len(mb) = MB_SIZE
        /\ \/ state = "RECVING" /\ terminalState'[t] # terminalState[t] /\ pc' = pc
           \/ pc = "mail" /\ pc' = "idle" /\ arg = t}

\* Interrupts and terminals go on whatever the display thread does.
IrqStep ==
    /\ Crossing \/ TxDelay \/ \E t \in Terminals, v \in Status : Answer(t, v)
    /\ dropped' = dropped \union Refused
    /\ UNCHANGED <<menuVars, threadVars, screenVars>>

\* The operator types a command, and the shell thread works on it, only while
\* the display thread sleeps.
ShellStarts ==
    /\ hpc = "sleep"
    /\ ShellCall
    /\ UNCHANGED hmiVars

ShellRuns ==
    /\ hpc = "sleep"
    /\ ShellStep
    /\ dropped' = dropped \union Refused
    /\ UNCHANGED <<menuVars, threadVars, screenVars>>

HmiNext == IrqStep \/ ShellStarts \/ ShellRuns \/ Key \/ HmiStep

hmiAll == <<vars, hmiVars>>

HmiSpec == HmiInit /\ [][HmiNext]_hmiAll

\* The display thread has the highest priority: when awake it runs, and its
\* sleep ends.  Keys, operators and terminals owe nothing.
HmiFairSpec == HmiSpec /\ WF_hmiAll(HmiStep)
-----------------------------------------------------------------------------
(* Properties. *)

\* The change of t is still on its way to the screen.
Announced(t) ==
    \/ \E i \in 1 .. Len(mb) : mb[i] = t
    \/ pc = "mail" /\ arg = t
    \/ t \in dropped

(***************************************************************************)
(* Once the home page has been drawn, every mark on it shows its           *)
(* terminal's current status, or is about to be redrawn, or the change is  *)
(* still announced, or the mailbox was full and refused it: no             *)
(* interleaving of the poll, the shell, the keys and a redraw in progress  *)
(* loses a change silently (hmi.c:222-247, lmsuart.c:164-171,              *)
(* main.c:290-291).                                                        *)
(***************************************************************************)
MarksAnnounced ==
    ~g_firstrun =>
        \A t \in Terminals :
            \/ hpc = "readAll" /\ t >= at
            \/ hpc = "drawAll" /\ t > at
            \/ hpc = "readOne" /\ t = at
            \/ hpc \in {"drawAll", "drawOne"} /\ t = at /\ val = terminalState[t]
            \/ mark[t] = Shape(terminalState[t])
            \/ Announced(t)

(***************************************************************************)
(* A page painted over another (a key between the display thread's reads   *)
(* of g_cur_menu) does not stay: the next pass clears the screen.  This    *)
(* holds for one click per pass; with two (the UP and DOWN keys let go     *)
(* within 200 ms) the second can switch back before the comparison, and    *)
(* the overlay stays (hmi.c:397-404).                                      *)
(***************************************************************************)
OverlayCleared == painted \subseteq {last_menu} \/ g_cur_menu # last_menu \/ hpc = "note"

\* The mark of t shows v, or has just been erased to show v again.
Shows(t, v) ==
    \/ mark[t] = Shape(v)
    \/ hpc \in {"drawAll", "drawOne"} /\ at = t /\ val = v

(***************************************************************************)
(* When statuses settle, the shell has finished, the home page stays       *)
(* selected and no change was refused, the screen ends up showing the      *)
(* table (hmi.c:236-247).                                                  *)
(***************************************************************************)
DisplayConverges ==
    \/ []<><<terminalState' # terminalState>>_hmiAll
    \/ []<>(g_cur_menu # MENU_HOME \/ dropped # {} \/ pc # "idle")
    \/ <>[](\A t \in Terminals : Shows(t, terminalState[t]))
=============================================================================
