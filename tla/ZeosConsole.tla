----------------------------- MODULE ZeosConsole -----------------------------
(***************************************************************************)
(* System calls that return at once, from the wrapper in zeos/libc.c       *)
(* through the handler of int 0x80 (zeos/entry.S, sys_call_table.S) to     *)
(* zeos/sys.c and back, with the screen (zeos/io.c, devices.c) that write  *)
(* prints on and that the keyboard and timer interrupts (interrupt.c)      *)
(* share.                                                                  *)
(*                                                                         *)
(* A single process is enough: handlers run with interrupts off, and no    *)
(* call here switches.  Keys and ticks arrive whenever user code runs, the *)
(* wrapper included.  exit, fork, read and set_sched_policy are in ZeosKernel, the *)
(* accounting of all calls in ZeosStats.                                   *)
(***************************************************************************)
EXTENDS Integers, Sequences

CONSTANTS
  NUM_COLUMNS, NUM_ROWS,   \* of the screen                         (80 and 25)
  FIRST_ROW,               \* where the first line is printed              (15)
  MAX_WRITE,               \* bytes sys_write copies at a time            (128)
  Chars,                   \* characters that fill a cell, "C" among them
  NL,                      \* the newline
  ClockCells,              \* where the binary library shows its clock
  Numbers,                 \* what user code may put in %eax for int 0x80
  MaxBuffer,               \* bound: size of a buffer
  MaxText                  \* bound: characters printed in this instance

ASSUME ConsoleAssumption ==
  /\ NUM_COLUMNS \in Nat \ {0} /\ NUM_ROWS \in Nat \ {0}
  /\ FIRST_ROW \in 0 .. NUM_ROWS - 1
  /\ MAX_WRITE \in Nat \ {0}
  /\ "C" \in Chars /\ NL \notin Chars
  /\ ClockCells \subseteq (0 .. NUM_COLUMNS - 1) \X (0 .. NUM_ROWS - 1)
  /\ Numbers \subseteq Int /\ MaxBuffer \in Nat /\ MaxText \in Nat

ESRCH  == 3
EBADF  == 9
EACCES == 13
EFAULT == 14
EINVAL == 22
ENOSYS == 38

MAX_SYSCALL == 40
ESCRIPTURA  == 1

Cells == (0 .. NUM_COLUMNS - 1) \X (0 .. NUM_ROWS - 1)
Blank == "blank"
Buffers == UNION {[1 .. n -> Chars \cup {NL}] : n \in 0 .. MaxBuffer}

VARIABLES
  pc,              \* "boot", "user", in the kernel, or back in the wrapper
  con,             \* the cursor x, y and the screen
  buffer, size, written,   \* arguments and locals of sys_write
  call,            \* the wrapper that has entered the kernel
  eax,             \* what the call returned to it
  errno, ret,      \* what the wrapper tells its caller
  text,            \* history: what printk and write have printed
  start            \* history: the length of text when the call began

writeVars == <<buffer, size, written>>
vars == <<pc, con, writeVars, call, eax, errno, ret, text, start>>

Init ==
  /\ pc = "boot"
  /\ con = [x |-> 0, y |-> FIRST_ROW, screen |-> [c \in Cells |-> Blank]]
  /\ buffer = <<>> /\ size = 0 /\ written = 0
  /\ call = "none" /\ eax = 0 /\ errno = 0 /\ ret = 0
  /\ text = <<>> /\ start = 0

(***************************************************************************)
(* The screen.                                                             *)
(***************************************************************************)
NextRow(y) == (y + 1) % NUM_ROWS

\* Mutant: an off-by-one at the right margin.
printc_margin(k, c) ==
  IF c = NL THEN [k EXCEPT !.x = 0, !.y = NextRow(@)]
  ELSE LET shown == [k EXCEPT !.screen[<<k.x, k.y>>] = c, !.x = @ + 1]
       IN  IF shown.x > NUM_COLUMNS THEN [shown EXCEPT !.x = 0, !.y = NextRow(@)]
                                    ELSE shown
printc(k, c) ==
  IF c = NL THEN [k EXCEPT !.x = 0, !.y = NextRow(@)]
  ELSE LET shown == [k EXCEPT !.screen[<<k.x, k.y>>] = c, !.x = @ + 1]
       IN  IF shown.x >= NUM_COLUMNS THEN [shown EXCEPT !.x = 0, !.y = NextRow(@)]
                                     ELSE shown

\* Mutant: the cursor stays where the character was printed.
printc_xy_move(mx, my, c) == printc([con EXCEPT !.x = mx, !.y = my], c)
\* The cursor is put back after the character.
printc_xy(mx, my, c) ==
  [con EXCEPT !.screen = printc([con EXCEPT !.x = mx, !.y = my], c).screen]

\* A string, printed from cursor and screen k on, character by character.
sys_write_console(k, s) ==
  LET shown[i \in 0 .. Len(s)] == IF i = 0 THEN k ELSE printc(shown[i - 1], s[i])
  IN  shown[Len(s)]

printk(s) ==
  /\ pc = "boot"
  /\ con' = sys_write_console(con, s)
  /\ text' = s
  /\ pc' = "user"
  /\ UNCHANGED <<writeVars, call, eax, errno, ret, start>>

\* A key without a character is shown as C; the release of a key is ignored.
keyboard_routine(released, c) ==
  /\ pc \in {"user", "libc", "returned"}
  /\ con' = IF released THEN con ELSE printc_xy(0, 0, IF c = "" THEN "C" ELSE c)
  /\ UNCHANGED <<pc, writeVars, call, eax, errno, ret, text, start>>

\* The clock of the timer interrupt, from the binary library: it writes straight
\* into the video memory, past the cursor.
zeos_show_clock(face) ==
  /\ pc \in {"user", "libc", "returned"}
  /\ con' = [con EXCEPT !.screen = [z \in Cells |-> IF z \in ClockCells
                                                     THEN face[z] ELSE con.screen[z]]]
  /\ UNCHANGED <<pc, writeVars, call, eax, errno, ret, text, start>>

(***************************************************************************)
(* Entering and leaving the kernel.                                        *)
(***************************************************************************)
sys_call_table ==
  [n \in 0 .. MAX_SYSCALL |->
     CASE n = 1 -> "exit" [] n = 2 -> "fork" [] n = 3 -> "read" [] n = 4 -> "write"
       [] n = 10 -> "gettime" [] n = 17 -> "set_sched_policy" [] n = 20 -> "getpid"
       [] n = 35 -> "get_stats" [] OTHER -> "ni_syscall"]

Return(r) == eax' = r /\ pc' = "libc"

Enter(c) == pc = "user" /\ call' = c /\ start' = Len(text)

\* int 0x80 with a number that no wrapper uses, valid or not.
system_call_handler(n) ==
  /\ n \in 0 .. MAX_SYSCALL => sys_call_table[n] = "ni_syscall"
  /\ Enter("int80")
  /\ Return(-ENOSYS)
  /\ UNCHANGED <<con, writeVars, errno, ret, text>>

\* gettime and getpid cannot fail; r is the tick count or the PID.
sys_gettime(r) ==
  /\ Enter("gettime") /\ Return(r)
  /\ UNCHANGED <<con, writeVars, errno, ret, text>>
sys_getpid(r) ==
  /\ Enter("getpid") /\ Return(r)
  /\ UNCHANGED <<con, writeVars, errno, ret, text>>

\* st: the pointer lies in the user pages; known: a PCB has this PID.
sys_get_stats(pid, st, known) ==
  /\ Enter("get_stats")
  /\ \/ pid < 0 /\ Return(-EINVAL)
     \/ pid >= 0 /\ ~st /\ Return(-EFAULT)
     \/ pid >= 0 /\ st /\ ~known /\ Return(-ESRCH)
     \/ pid >= 0 /\ st /\ known /\ Return(0)
  /\ UNCHANGED <<con, writeVars, errno, ret, text>>

(***************************************************************************)
(* What the wrappers in libc.c do with the value in %eax.                  *)
(***************************************************************************)
Wrapper(c) ==
  /\ pc = "libc" /\ call = c
  /\ pc' = "returned"
  /\ UNCHANGED <<con, writeVars, call, eax, text, start>>

Result(r) == IF eax < 0 THEN errno' = -eax /\ ret' = -1
                        ELSE ret' = r /\ UNCHANGED errno

write     == Wrapper("write") /\ Result(eax)
\* The time does not reach the caller.
gettime   == Wrapper("gettime") /\ Result(0)
get_stats == Wrapper("get_stats") /\ Result(0)
getpid    == Wrapper("getpid") /\ ret' = eax /\ UNCHANGED errno
\* The program has used int 0x80 itself.
int80     == Wrapper("int80") /\ ret' = eax /\ UNCHANGED errno

\* The program goes on; the call's arguments and result are dead, errno is not.
proceed ==
  /\ pc = "returned"
  /\ pc' = "user" /\ call' = "none" /\ eax' = 0 /\ ret' = 0 /\ start' = 0
  /\ buffer' = <<>> /\ size' = 0 /\ written' = 0
  /\ UNCHANGED <<con, errno, text>>

(***************************************************************************)
(* write.                                                                  *)
(***************************************************************************)
check_fd(fd, permissions) ==
  IF fd # 1 THEN -EBADF ELSE IF permissions # ESCRIPTURA THEN -EACCES ELSE 0

\* n is the size the program passes; what is printed stays below the bound.
sys_write(fd, null, b, n) ==
  /\ Len(text) + n <= MaxText
  /\ Enter("write")
  /\ \/ check_fd(fd, ESCRIPTURA) < 0 /\ Return(-EBADF) /\ UNCHANGED writeVars
     \/ check_fd(fd, ESCRIPTURA) >= 0 /\ null /\ Return(-EFAULT) /\ UNCHANGED writeVars
     \/ /\ check_fd(fd, ESCRIPTURA) >= 0 /\ ~null /\ n < 0
        /\ Return(-EINVAL) /\ UNCHANGED writeVars
     \/ /\ check_fd(fd, ESCRIPTURA) >= 0 /\ ~null /\ n >= 0
        /\ buffer' = b /\ size' = n /\ written' = 0
        /\ pc' = "write" /\ UNCHANGED eax
  /\ UNCHANGED <<con, errno, ret, text>>

\* Mutant: a whole chunk is refused.
copy_from_user_limit(n) == IF n >= MAX_WRITE THEN -1 ELSE 0
\* It has no way to fail.
copy_from_user(n) == 0

\* Mutant: every chunk comes from the start of the buffer.
Fragment_first(n) == SubSeq(buffer, 1, n)
Fragment(n) == SubSeq(buffer, written + 1, written + n)

\* A round of the loop; it would turn for ever if the copy failed.
write_chunk ==
  /\ pc = "write" /\ size >= MAX_WRITE
  /\ IF copy_from_user(MAX_WRITE) >= 0
       THEN /\ con' = sys_write_console(con, Fragment(MAX_WRITE))
            /\ text' = text \o Fragment(MAX_WRITE)
            /\ written' = written + MAX_WRITE /\ size' = size - MAX_WRITE
       ELSE UNCHANGED <<con, text, written, size>>
  /\ UNCHANGED <<pc, buffer, call, eax, errno, ret, start>>

\* The rest, of length zero when the size is a multiple of MAX_WRITE.  Had the
\* copy failed, the function would end without a value.
write_rest ==
  /\ pc = "write" /\ size < MAX_WRITE
  /\ copy_from_user(size) >= 0
  /\ con' = sys_write_console(con, Fragment(size))
  /\ text' = text \o Fragment(size)
  /\ written' = written + size /\ size' = 0
  /\ Return(written + size)
  /\ UNCHANGED <<buffer, call, errno, ret, start>>

Next ==
  \/ \E s \in Buffers : printk(s)
  \/ \E released \in BOOLEAN, c \in Chars \cup {NL, ""} : keyboard_routine(released, c)
  \/ \E face \in [ClockCells -> Chars] : zeos_show_clock(face)
  \/ \E n \in Numbers : system_call_handler(n)
  \/ sys_gettime(1) \/ sys_getpid(1)
  \/ \E pid \in {-1, 1}, st \in BOOLEAN, known \in BOOLEAN : sys_get_stats(pid, st, known)
  \/ \E b \in Buffers : sys_write(1, FALSE, b, Len(b))
  \/ \E fd \in {0, 1}, null \in BOOLEAN, n \in {-1, 0} : sys_write(fd, null, <<>>, n)
  \/ write_chunk \/ write_rest
  \/ write \/ gettime \/ get_stats \/ getpid \/ int80
  \/ proceed

Spec == Init /\ [][Next]_vars

\* The kernel and the wrapper run on.
FairSpec ==
  /\ Spec
  /\ WF_vars(write_chunk \/ write_rest)
  /\ WF_vars(write \/ gettime \/ get_stats \/ getpid \/ int80)
  /\ WF_vars(proceed)

-----------------------------------------------------------------------------
(***************************************************************************)
(* Properties.                                                             *)
(***************************************************************************)
\* Every variable keeps its type; the cursor is on the screen.
TypeOK ==
  /\ pc \in {"boot", "user", "write", "libc", "returned"}
  /\ con.x \in 0 .. NUM_COLUMNS - 1 /\ con.y \in 0 .. NUM_ROWS - 1
  /\ con.screen \in [Cells -> Chars \cup {Blank}]
  /\ buffer \in Buffers /\ size \in -1 .. MaxBuffer /\ written \in 0 .. MaxBuffer
  /\ eax \in Int /\ errno \in Nat /\ ret \in Int
  /\ Len(text) \in 0 .. MaxText + MaxBuffer

\* write is all or nothing, as the program sees it: either the wrapper returns
\* the size and the buffer has been printed in order and once, whatever the size
\* is to MAX_WRITE, or it returns -1 with an error in errno and nothing has been
\* printed; and no other call prints.
WriteAllOrNothing ==
  pc = "returned" =>
    LET printed == SubSeq(text, start + 1, Len(text)) IN
    IF call = "write" /\ ret # -1 THEN printed = buffer /\ ret = Len(buffer)
    ELSE /\ printed = <<>>
         /\ call = "write" => errno \in {EBADF, EFAULT, EINVAL}

\* What the interrupts print on, over the text.
Shared == {<<0, 0>>} \cup ClockCells

\* The line under the cursor shows the end of the printed text: keys and the
\* clock never move the cursor, and spoil no cell but the corner, where keys are
\* shown, and those of the clock.
LineShowsText ==
  \A j \in 0 .. con.x - 1 :
    /\ con.x <= Len(text)
    /\ <<j, con.y>> \notin Shared =>
         con.screen[<<j, con.y>>] = text[Len(text) - con.x + 1 + j]

\* Every call returns to user code, however large the buffer.
CallsReturn == pc \in {"write", "libc", "returned"} ~> pc = "user"
=============================================================================
