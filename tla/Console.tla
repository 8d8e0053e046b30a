------------------------------ MODULE Console ------------------------------
(***************************************************************************)
(* The line editors of the kernel shell (kernel/shell.c) and of ush        *)
(* (user/ush.c), which are one algorithm with small differences, and what  *)
(* they leave on the terminal (display/vga.c) while programs start, write, *)
(* end and are announced by the reaper.                                    *)
(*                                                                         *)
(* A key is handled in one step: the kernel shell runs inside the keyboard *)
(* interrupt, and ush is the only one to change its line.  Of the terminal *)
(* there is the row of the prompt; a line that reaches the end of the row  *)
(* is not followed into the next.                                          *)
(***************************************************************************)
EXTENDS Integers, SequencesExt

CONSTANTS
    Letters,          \* the characters of a line beside the space
    COMMANDS, FILES,  \* the words that Tab completes to
    MAX_LINE,         \* INPUT_BUFFER_SIZE
    MAX_HIST,         \* HISTORY_SIZE
    PROMPT,           \* columns of the prompt
    WIDTH,            \* VGA_WIDTH
    STARTS,           \* columns after which a prompt may start
    MAXPROGS          \* bound on the programs at a time

ASSUME ConsoleAssumption ==
    /\ MAX_LINE \in Nat \ {0} /\ MAX_HIST \in Nat \ {0} /\ PROMPT \in Nat /\ MAXPROGS \in Nat
    /\ WIDTH \in Nat /\ STARTS \subseteq 0 .. WIDTH - 1
    /\ COMMANDS \cup FILES \subseteq Seq(Letters)

SPACE   == " "
MARK    == "#"                   \* a column of the prompt
OLD     == "?"                   \* what was on the row before the prompt
Columns == 1 .. WIDTH

VARIABLES
    shell,            \* which of the two has the terminal
    line,             \* input_buffer up to input_index; g_input up to g_ilen
    cursor_pos,       \* g_cur
    history,          \* g_hist, oldest first
    history_index,    \* g_hidx
    screen,           \* the row: its cells, the columns left of the cursor and those
                      \* left of the prompt; ok: it is followed; off: since the last
                      \* prompt the code has drawn something else than the line
    prompted,         \* the row begins with a prompt
    progs             \* fg, bg: running programs; fgdead, bgdead: not yet reaped

editVars == <<line, cursor_pos, history, history_index>>
vars     == <<shell, editVars, screen, prompted, progs>>
-----------------------------------------------------------------------------
(* The terminal *)

\* The cursor after b columns of a row, with nothing to its right.
Row(b)  == [ok |-> TRUE, off |-> FALSE, base |-> b, at |-> b,
            cells |-> [i \in Columns |-> IF i <= b THEN OLD ELSE SPACE]]
Garbled == [Row(0) EXCEPT !.ok = FALSE]

\* terminal_putchar of the characters of s.
Put(t, s) ==
    IF ~t.ok \/ t.at + Len(s) >= WIDTH THEN Garbled
    ELSE [t EXCEPT !.at = @ + Len(s),
                   !.cells = [i \in Columns |-> IF i \in t.at + 1 .. t.at + Len(s)
                                                THEN s[i - t.at] ELSE t.cells[i]]]

\* terminal_cursor_left, n times: never to the row above.
Left(t, n) == [t EXCEPT !.at = IF n <= @ THEN @ - n ELSE 0]

Blanks(n) == [i \in 1 .. n |-> SPACE]

\* terminal_backspace, n times; the loops of clear_display_line.
Erase(t, n) == Left(Put(Left(t, n), Blanks(n)), n)

\* shell_prompt, or prompt() in ush, at the cursor.
Marks         == [i \in 1 .. PROMPT |-> MARK]
DrawPrompt(t) == Put([t EXCEPT !.base = t.at], Marks)

\* Then the line l with the cursor at c.
Prompted(b, l, c) == Left(Put(DrawPrompt(Row(b)), l), Len(l) - c)

\* A prompt and the line on a row with nothing else to the right.
Redraw(l, c) ==
    /\ \E b \in STARTS : screen' = Prompted(b, l, c)
    /\ prompted' = TRUE

Spoil(t, wrong) == [t EXCEPT !.off = @ \/ wrong]

Draw(t) == screen' = t /\ UNCHANGED prompted
-----------------------------------------------------------------------------
NoPrograms == [fg |-> 0, bg |-> 0, fgdead |-> 0, bgdead |-> 0]

Init ==
    /\ shell \in {"kernel", "ush"}
    /\ line = << >> /\ cursor_pos = 0 /\ history = << >> /\ history_index = -1
    /\ \E b \in STARTS : screen = Prompted(b, << >>, 0)
    /\ prompted = TRUE
    /\ progs = NoPrograms

\* A key reaches the kernel shell unless a program has the keyboard; ush reads
\* it once it is in readline, after its prompt.
Reading == \/ shell = "kernel" /\ progs.fg = 0
           \/ shell = "ush" /\ prompted

Rest(l, c) == SubSeq(l, c + 1, Len(l))
-----------------------------------------------------------------------------
(* Keys that edit the line *)

Insert(c) ==
    /\ Len(line) < MAX_LINE - 1
    /\ line' = InsertAt(line, cursor_pos + 1, c)
    /\ cursor_pos' = cursor_pos + 1
    /\ Draw(Left(Put(screen, Rest(line', cursor_pos)), Len(line) - cursor_pos))
    /\ UNCHANGED <<shell, history, history_index, progs>>

\* The rest of the line moves left; a space covers its last character.
Covered(l) == Append(l, SPACE)

Backspace ==
    /\ cursor_pos > 0
    /\ line' = RemoveAt(line, cursor_pos)
    /\ cursor_pos' = cursor_pos - 1
    /\ LET drawn == Covered(Rest(line', cursor_pos'))
       IN  Draw(Left(Put(Left(screen, 1), drawn), Len(drawn)))
    /\ UNCHANGED <<shell, history, history_index, progs>>

KeyLeft ==
    /\ cursor_pos > 0 /\ cursor_pos' = cursor_pos - 1
    /\ Draw(Left(screen, 1))
    /\ UNCHANGED <<shell, line, history, history_index, progs>>

KeyRight ==
    /\ cursor_pos < Len(line) /\ cursor_pos' = cursor_pos + 1
    /\ Draw(Put(screen, <<line[cursor_pos + 1]>>))
    /\ UNCHANGED <<shell, line, history, history_index, progs>>

\* clear_input_line and clear_display_line.
Cleared == Erase(Put(screen, Rest(line, cursor_pos)), Len(line))

\* load_history: entry i from the newest, or an empty line.
Load(i) ==
    /\ history_index' = i
    /\ line' = IF i < 0 THEN << >> ELSE history[Len(history) - i]
    /\ cursor_pos' = Len(line')
    /\ Draw(Put(Cleared, line'))
    /\ UNCHANGED <<shell, history, progs>>

KeyUp   == history_index + 1 < Len(history) /\ Load(history_index + 1)
KeyDown == history_index >= 0 /\ Load(history_index - 1)
-----------------------------------------------------------------------------
(* Tab *)

Blank(i)    == line[i] = SPACE
WordStart   == Max({0} \cup {i \in 1 .. cursor_pos : Blank(i)})
WordEnd     == Min({Len(line)} \cup {i \in cursor_pos .. Len(line) - 1 : Blank(i + 1)})
OnCommand   == \A i \in 1 .. cursor_pos : ~Blank(i)
Matches     == {w \in IF OnCommand THEN COMMANDS ELSE FILES :
                  IsPrefix(SubSeq(line, WordStart + 1, cursor_pos), w)}
Completed(w) == SubSeq(line, 1, WordStart) \o w \o Rest(line, WordEnd)

\* input_index + diff < INPUT_BUFFER_SIZE.
Fits_OffByOne(l) == Len(l) <= MAX_LINE
Fits(l) == Len(l) < MAX_LINE

\* One match replaces the whole word; ush has no check that the line still
\* fits.  Both draw from the start of the word and cover one character after
\* the line, however much shorter the new word is.  To get there ush moves back
\* over the part before the cursor, but the kernel shell by the whole word,
\* which is too far when the cursor is not at its end.
Complete(w) ==
    LET back  == IF shell = "kernel" THEN WordEnd - WordStart ELSE cursor_pos - WordStart
        drawn == Left(Put(Left(screen, back), Covered(Rest(line', WordStart))),
                      Len(line') - cursor_pos' + 1)
    IN  /\ shell = "kernel" => Fits(Completed(w))
        /\ line' = Completed(w)
        /\ cursor_pos' = WordStart + Len(w)
        /\ Draw(Spoil(drawn, back # cursor_pos - WordStart \/ Len(line') < Len(line) - 1))
        /\ UNCHANGED <<shell, history, history_index, progs>>

\* Several matches are listed, with the prompt and the line below.
List == Redraw(line, cursor_pos) /\ UNCHANGED <<shell, editVars, progs>>

KeyTab == \/ \E w \in Matches : Matches = {w} /\ Complete(w)
          \/ \E v, w \in Matches : v # w /\ List
-----------------------------------------------------------------------------
(* Ctrl+L, Ctrl+C and Enter *)

KeyClear  == Redraw(line, cursor_pos) /\ UNCHANGED <<shell, editVars, progs>>

NewLine == line' = << >> /\ cursor_pos' = 0 /\ history_index' = -1

KeyCancel == NewLine /\ Redraw(<< >>, 0) /\ UNCHANGED <<shell, history, progs>>

\* push_history.
Pushed ==
    IF line = << >> THEN history
    ELSE Append(IF Len(history) = MAX_HIST THEN Tail(history) ELSE history, line)

Programs == progs.fg + progs.bg + progs.fgdead + progs.bgdead

\* The command is done, or has started a program in the background; or it has
\* started one in the foreground and no prompt is due.
Enter ==
    /\ NewLine /\ history' = Pushed /\ UNCHANGED shell
    /\ \/ Redraw(<< >>, 0) /\ UNCHANGED progs
       \/ /\ Programs < MAXPROGS /\ Redraw(<< >>, 0)
          /\ progs' = [progs EXCEPT !.bg = @ + 1]
       \/ /\ Programs < MAXPROGS
          /\ \E b \in STARTS : screen' = Row(b)
          /\ prompted' = FALSE
          /\ progs' = [progs EXCEPT !.fg = @ + 1]

Key == Reading /\ (\/ \E c \in Letters \cup {SPACE} : Insert(c)
                   \/ Backspace \/ KeyLeft \/ KeyRight \/ KeyUp \/ KeyDown
                   \/ KeyTab \/ KeyClear \/ KeyCancel \/ Enter)
-----------------------------------------------------------------------------
(* Programs *)

\* What a program writes lands at the cursor, in the middle of the line if
\* there is one; otherwise it leaves the cursor somewhere on a row.
Write ==
    /\ progs.fg + progs.bg > 0
    /\ \/ /\ prompted \/ line # << >> \/ screen.off \/ ~screen.ok
          /\ screen' = Garbled
       \/ /\ ~prompted /\ line = << >> /\ ~screen.off /\ screen.ok
          /\ \E b \in STARTS : screen' = Row(b)
    /\ UNCHANGED <<shell, editVars, prompted, progs>>

\* A child of ush is collected by ush; the others wait for the reaper.
FgExit ==
    /\ progs.fg > 0
    /\ progs' = [progs EXCEPT !.fg = @ - 1, !.fgdead = IF shell = "kernel" THEN @ + 1 ELSE @]
    /\ UNCHANGED <<shell, editVars, screen, prompted>>

BgExit ==
    /\ progs.bg > 0
    /\ progs' = [progs EXCEPT !.bg = @ - 1, !.bgdead = IF shell = "kernel" THEN @ + 1 ELSE @]
    /\ UNCHANGED <<shell, editVars, screen, prompted>>

\* shell_on_process_exit for a program of the foreground draws the prompt where
\* the cursor is, which is after what has been typed since the program ended,
\* or in it, and does not draw that again.
ReapFg ==
    /\ progs.fgdead > 0
    /\ progs' = [progs EXCEPT !.fgdead = @ - 1]
    /\ screen' = Spoil(DrawPrompt(screen), line # << >>)
    /\ prompted' = TRUE
    /\ UNCHANGED <<shell, editVars>>

\* For one of the background a notice, the prompt and the line.
NoticeCursor_AtEnd == Len(line)
NoticeCursor == cursor_pos

ReapBg ==
    /\ progs.bgdead > 0
    /\ progs' = [progs EXCEPT !.bgdead = @ - 1]
    /\ Redraw(line, NoticeCursor)
    /\ UNCHANGED <<shell, editVars>>

\* ush returns from its wait.
UshPrompt ==
    /\ shell = "ush" /\ progs.fg = 0 /\ ~prompted
    /\ Redraw(<< >>, 0)
    /\ UNCHANGED <<shell, editVars, progs>>

\* What a completion of ush has overwritten behind g_input is anybody's guess:
\* nothing is modelled after it.
Overrun == Len(line) >= MAX_LINE

Astray == Overrun /\ UNCHANGED vars

Step == Key \/ Write \/ FgExit \/ BgExit \/ ReapFg \/ ReapBg \/ UshPrompt

Next == (~Overrun /\ Step) \/ Astray

Spec == Init /\ [][Next]_vars
-----------------------------------------------------------------------------
\* In the kernel shell the line and its end mark stay inside input_buffer, with
\* lines from the history and completions included ("do nothing rather than
\* corrupt the static history[] array that follows input_buffer in memory").
\* do_tab of ush has no such check and its line does pass the end of g_input,
\* so for ush this says only what holds up to that moment and in it: in both
\* shells the cursor is inside the line, the place in the history among its
\* entries, and every line of the history short enough to be recalled.
LineFits ==
    /\ shell = "kernel" => Len(line) < MAX_LINE
    /\ cursor_pos \in 0 .. Len(line)
    /\ Len(history) <= MAX_HIST /\ history_index \in -1 .. Len(history) - 1
    /\ \A i \in 1 .. Len(history) : Len(history[i]) < MAX_LINE

\* What follows the prompt on the row is what Enter will run, with the cursor
\* where the next character goes, however the line came about: after any
\* editing, and after a program that ended in the background was announced in
\* the middle of typing ("restore the prompt and whatever the user was in the
\* middle of typing").  Nothing is said after the output of a program in the
\* middle of a line.  And until the next prompt on a row of its own it is false
\* (screen.off) after three things the code does:
\*   - Tab of the kernel shell inside a word, where the cursor goes back too
\*     far ("Move terminal cursor back to word_start");
\*   - Tab of either shell to a word shorter by two characters or more, of which
\*     one is erased ("erase any leftover characters if new name is shorter");
\*   - the prompt after a program of the foreground, when something has been
\*     typed since it ended ("just bring the prompt back").
ScreenShowsLine ==
    Reading /\ screen.ok /\ ~screen.off =>
        LET from == screen.base + IF prompted THEN PROMPT ELSE 0
        IN  /\ screen.at = from + cursor_pos
            /\ \A i \in Columns : i > screen.base =>
                  screen.cells[i] = IF i <= from THEN MARK
                                    ELSE IF i <= from + Len(line) THEN line[i - from]
                                    ELSE SPACE
=============================================================================
