----------------------------- MODULE InputPath -----------------------------
(***************************************************************************)
(* The way of a line of input into xv6: keyboard lines and the agent's     *)
(* ADVICE lines are merged by console_mux.py into QEMU's stdin, arrive as  *)
(* UART interrupts in the console's circular buffer, are read one byte at  *)
(* a time by init's router, which forwards each line to the shell or to    *)
(* llmhelper through a pipe; llmhelper calls set_llm_advice.               *)
(*                                                                         *)
(* A line is a sequence of characters.  "A" stands for the eleven          *)
(* characters ADVICE:PID=, a member of Digits for a digit, "x" for any     *)
(* other text; Ctrl-H, Ctrl-U and Ctrl-D are the characters the console    *)
(* treats specially.  Ctrl-P only prints the process list and is left out, *)
(* and so is '\r', which the console turns into a newline.  The locking    *)
(* and the wakeups inside a pipe are the subject of module Pipe: here a    *)
(* pipe is a bounded sequence of bytes.                                    *)
(***************************************************************************)
EXTENDS Naturals, Sequences, SequencesExt

CONSTANTS
  AdviceLines,      \* lines the agent may write into the FIFO
  KeyLines,         \* lines the user may type
  INPUT_BUF_SIZE,   \* size of cons.buf (128)
  LINE_BUF,         \* size of the router's line buffer (512)
  BUF_SZ,           \* size of llmhelper's buffer (512)
  PIPESIZE,         \* capacity of a pipe (512)
  MaxLines          \* bound on the lines that enter the system

ASSUME SizeAssumption ==
  /\ INPUT_BUF_SIZE \in Nat \ {0}
  /\ PIPESIZE \in Nat \ {0}
  /\ LINE_BUF \in Nat \ {0, 1}
  /\ BUF_SZ \in Nat \ {0, 1}

VARIABLES
  fifo,     \* lines in llm_advice.fifo
  fbuf,     \* lines in the buffer of the Python file object fifo_r
  uart,     \* characters written to QEMU's stdin and not yet received
  cons,     \* the characters of cons.buf from cons.r up to cons.e
  w,        \* cons.w - cons.r: how many of them a reader may take
  rpc,      \* the router: "read", "sleep" in consoleread, "write", "exit"
  rbuf,     \* its line buffer
  out,      \* what is left of the write to the pipe `dest`
  dest,     \* "sh" or "llm"
  pipe,     \* bytes in shpipe and llmpipe
  hpc,      \* llmhelper: "run" or "exit"
  hbuf,     \* the partial line at the start of its buffer
  shgot,    \* history: characters read from shpipe
  applied,  \* history: the arguments of set_llm_advice, as digits
  lines,    \* how many lines have entered the system
  advised,  \* history: PIDs in the lines the multiplexer sent, in order
  typed,    \* history: the text of the other lines it sent, as edited
  midline,  \* history: 1 when part of an unfinished line was released
  spoiled   \* history: 1 once a character was dropped or a line cut

host == <<fifo, fbuf, lines, advised, typed>>
console == <<uart, cons, w, midline>>
router == <<rpc, rbuf, out, dest>>
helper == <<hpc, hbuf, applied>>
vars == <<host, console, router, pipe, helper, shgot, spoiled>>

Digits == {"1", "2"}
NL == "NL"
Ctrl == {"^H", "^U", "^D"}
Chars == Digits \cup Ctrl \cup {"A", "x", NL}

(***************************************************************************)
(* Pure functions: what the router and llmhelper see in a line.            *)
(***************************************************************************)
is_advice_line(l) == Len(l) > 0 /\ l[1] = "A"

\* The digits after the prefix; llmhelper stops at the first other character.
PidOf(l) ==
  LET ds == Tail(l)
      n == CHOOSE k \in 0..Len(ds) :
             /\ \A i \in 1..k : ds[i] \in Digits
             /\ k < Len(ds) => ds[k + 1] \notin Digits
  IN  SubSeq(ds, 1, n)

\* The calls handle_line makes for a line: one, or none if no digit follows.
handle_line(l) ==
  IF is_advice_line(l) /\ PidOf(l) # <<>> THEN <<PidOf(l)>> ELSE <<>>

\* Scanning a chunk for complete lines: the partial line and the calls made.
Scan(line, chunk) ==
  LET step(acc, c) ==
        IF c = NL THEN [line |-> <<>>, calls |-> acc.calls \o handle_line(acc.line)]
                  ELSE [acc EXCEPT !.line = Append(@, c)]
      scan[i \in 0..Len(chunk)] ==
        IF i = 0 THEN [line |-> line, calls |-> <<>>] ELSE step(scan[i - 1], chunk[i])
  IN  scan[Len(chunk)]

\* What a line is after the erasing its own ^H and ^U ask for: the reference
\* for what the console makes of it.
Edited(l) ==
  LET step(acc, c) == CASE c = "^U" -> <<>>
                        [] c = "^H" -> IF acc = <<>> THEN acc ELSE Front(acc)
                        [] OTHER -> Append(acc, c)
      edit[i \in 0..Len(l)] == IF i = 0 THEN <<>> ELSE step(edit[i - 1], l[i])
  IN  edit[Len(l)]

(***************************************************************************)
(* The host.                                                               *)
(***************************************************************************)

\* agent_bridge.py writes one line into the FIFO (module AgentBridge).
Advise(l) ==
  /\ lines < MaxLines
  /\ lines' = lines + 1
  /\ fifo' = Append(fifo, l)
  /\ UNCHANGED <<fbuf, advised, typed, console, router, pipe, helper, shgot, spoiled>>

\* A line goes to QEMU's stdin; a pipe, so it stays whole.
Emit(l) ==
  /\ uart' = uart \o l \o <<NL>>
  /\ advised' = advised \o handle_line(Edited(l))
  /\ typed' = IF is_advice_line(Edited(l)) THEN typed
                                           ELSE typed \o Edited(l) \o <<NL>>

\* sys.stdin is readable: the user typed a line, and it goes to QEMU whole.
\* The end of stdin makes the multiplexer return, which is the same as no
\* line being sent from then on.
MuxStdin(l) ==
  /\ lines < MaxLines
  /\ lines' = lines + 1
  /\ Emit(l)
  /\ UNCHANGED <<fifo, fbuf, cons, w, midline, router, pipe, helper, shgot, spoiled>>

\* The FIFO is readable: readline() returns the next buffered line, and only
\* when it has none does it read what the FIFO holds.  Lines that stay in the
\* file object's buffer do not make the FIFO readable.
MuxFifo ==
  /\ fifo # <<>>
  /\ IF fbuf # <<>>
       THEN /\ Emit(Head(fbuf))
            /\ fbuf' = Tail(fbuf)
            /\ fifo' = fifo
       ELSE /\ Emit(Head(fifo))
            /\ fbuf' = Tail(fifo)
            /\ fifo' = <<>>
  /\ UNCHANGED <<lines, cons, w, midline, router, pipe, helper, shgot, spoiled>>

(***************************************************************************)
(* The console.  The interrupt handler holds cons.lock, and so does a      *)
(* reader between its test of cons.r = cons.w and its sleep.               *)
(***************************************************************************)

\* The index after which ^U erases: nothing before cons.w, nor a newline.
KillTo ==
  LET Stop(k) == k = w \/ cons[k] = NL
  IN  CHOOSE k \in w..Len(cons) : Stop(k) /\ \A j \in (k + 1)..Len(cons) : ~Stop(j)

\* Erase the last k unreleased characters (^H, ^U).  What was released early
\* because the buffer was full can no longer be erased.
Erase(k) ==
  /\ cons' = SubSeq(cons, 1, Len(cons) - k)
  /\ spoiled' = IF midline = 1 THEN 1 ELSE spoiled
  /\ UNCHANGED <<w, midline, rpc>>

\* Mutant: only a whole line is released.
StoreHoldsBack(c) ==
  /\ cons' = Append(cons, c)
  /\ IF c \in {NL, "^D"}
       THEN /\ w' = Len(cons')
            /\ rpc' = IF rpc = "sleep" THEN "read" ELSE rpc
            /\ midline' = IF c = NL THEN 0 ELSE 1
       ELSE UNCHANGED <<w, rpc, midline>>
  /\ UNCHANGED spoiled

\* Store a character; a whole line, ^D or a full buffer is released to the
\* reader, who is woken.
Store(c) ==
  /\ cons' = Append(cons, c)
  /\ IF c \in {NL, "^D"} \/ Len(cons') = INPUT_BUF_SIZE
       THEN /\ w' = Len(cons')
            /\ rpc' = IF rpc = "sleep" THEN "read" ELSE rpc
            /\ midline' = IF c = NL THEN 0 ELSE 1
       ELSE UNCHANGED <<w, rpc, midline>>
  /\ UNCHANGED spoiled

Drop ==
  /\ spoiled' = 1
  /\ UNCHANGED <<cons, w, midline, rpc>>

\* There is room for one more character.
HasRoom == Len(cons) < INPUT_BUF_SIZE

\* uartintr: the next character is handed to consoleintr.
consoleintr ==
  /\ uart # <<>>
  /\ uart' = Tail(uart)
  /\ LET c == Head(uart)
     IN  \/ c = "^U" /\ Erase(Len(cons) - KillTo)
         \/ c = "^H" /\ Erase(IF Len(cons) # w THEN 1 ELSE 0)
         \/ c \notin {"^U", "^H"} /\ HasRoom /\ Store(c)
         \/ c \notin {"^U", "^H"} /\ ~HasRoom /\ Drop
  /\ UNCHANGED <<host, rbuf, out, dest, pipe, helper, shgot>>

(***************************************************************************)
(* The router child of init.                                               *)
(***************************************************************************)

\* Mutant: consoleread sleeps without looking at cons.w.
RouterSleepBlind ==
  /\ rpc = "read"
  /\ rpc' = "sleep"
  /\ UNCHANGED <<host, console, rbuf, out, dest, pipe, helper, shgot, spoiled>>

\* consoleread finds cons.r = cons.w.
RouterSleep ==
  /\ rpc = "read" /\ w = 0
  /\ rpc' = "sleep"
  /\ UNCHANGED <<host, console, rbuf, out, dest, pipe, helper, shgot, spoiled>>

\* Mutant: n is not reset after a line.
EndOfLineKeeps ==
  /\ rpc' = "write"
  /\ out' = Append(rbuf, NL)
  /\ dest' = IF is_advice_line(rbuf) THEN "llm" ELSE "sh"
  /\ UNCHANGED rbuf

\* The line is complete: it will be written to the pipe its prefix selects.
EndOfLine ==
  /\ rpc' = "write"
  /\ out' = Append(rbuf, NL)
  /\ dest' = IF is_advice_line(rbuf) THEN "llm" ELSE "sh"
  /\ rbuf' = <<>>

\* read(0, &c, 1) returns a character: a newline completes the line, any
\* other is added to it if there is room.  At ^D read returns 0 and the
\* router exits.
RouterRead ==
  /\ rpc = "read" /\ w > 0
  /\ cons' = Tail(cons)
  /\ w' = w - 1
  /\ LET c == Head(cons)
     IN  \/ /\ c = "^D"
            /\ rpc' = "exit"
            /\ UNCHANGED <<rbuf, out, dest, spoiled>>
         \/ /\ c = NL
            /\ EndOfLine
            /\ UNCHANGED spoiled
         \/ /\ c \notin {"^D", NL}
            /\ IF Len(rbuf) < LINE_BUF - 1
                 THEN rbuf' = Append(rbuf, c) /\ UNCHANGED spoiled
                 ELSE spoiled' = 1 /\ UNCHANGED rbuf
            /\ UNCHANGED <<rpc, out, dest>>
  /\ UNCHANGED <<host, uart, midline, pipe, helper, shgot>>

\* The two writes of a line, byte by byte: a full pipe blocks the router.
\* init keeps both read ends open, so a write never fails.
RouterWrite ==
  /\ rpc = "write" /\ Len(pipe[dest]) < PIPESIZE
  /\ pipe' = [pipe EXCEPT ![dest] = Append(@, Head(out))]
  /\ out' = Tail(out)
  /\ rpc' = IF Len(out) = 1 THEN "read" ELSE "write"
  /\ UNCHANGED <<host, console, rbuf, dest, helper, shgot, spoiled>>

(***************************************************************************)
(* The readers of the two pipes.                                           *)
(***************************************************************************)

\* One turn of llmhelper's loop: a full buffer without a newline is thrown
\* away, then as much is read as the pipe has and the buffer has room for.
HelperRead ==
  /\ hpc = "run" /\ pipe.llm # <<>>
  /\ LET full == Len(hbuf) >= BUF_SZ - 1
         kept == IF full THEN <<>> ELSE hbuf
         room == BUF_SZ - 1 - Len(kept)
         n == IF Len(pipe.llm) < room THEN Len(pipe.llm) ELSE room
         scan == Scan(kept, SubSeq(pipe.llm, 1, n))
     IN  /\ hbuf' = scan.line
         /\ applied' = applied \o scan.calls
         /\ pipe' = [pipe EXCEPT !.llm = SubSeq(@, n + 1, Len(@))]
         /\ spoiled' = IF full THEN 1 ELSE spoiled
  /\ UNCHANGED <<host, console, router, hpc, shgot>>

\* The pipe is empty and its only writer has exited: read returns 0.
HelperEof ==
  /\ hpc = "run" /\ pipe.llm = <<>> /\ rpc = "exit"
  /\ hpc' = "exit"
  /\ UNCHANGED <<host, console, router, pipe, hbuf, applied, shgot, spoiled>>

\* gets: the shell, or a command it runs, reads one byte of its stdin.
ShRead ==
  /\ pipe.sh # <<>>
  /\ shgot' = Append(shgot, Head(pipe.sh))
  /\ pipe' = [pipe EXCEPT !.sh = Tail(@)]
  /\ UNCHANGED <<host, console, router, helper, spoiled>>

(***************************************************************************)
(* The specification.                                                      *)
(***************************************************************************)
Init ==
  /\ fifo = <<>> /\ fbuf = <<>> /\ lines = 0
  /\ advised = <<>> /\ typed = <<>>
  /\ uart = <<>> /\ cons = <<>> /\ w = 0 /\ midline = 0
  /\ rpc = "read" /\ rbuf = <<>> /\ out = <<>> /\ dest = "sh"
  /\ pipe = [sh |-> <<>>, llm |-> <<>>]
  /\ hpc = "run" /\ hbuf = <<>> /\ applied = <<>>
  /\ shgot = <<>> /\ spoiled = 0

Router == RouterSleep \/ RouterRead \/ RouterWrite

Next ==
  \/ \E l \in AdviceLines : Advise(l)
  \/ \E l \in KeyLines : MuxStdin(l)
  \/ MuxFifo
  \/ consoleintr
  \/ RouterSleep \/ RouterRead \/ RouterWrite
  \/ HelperRead \/ HelperEof
  \/ ShRead

Spec == Init /\ [][Next]_vars

\* Interrupts are delivered, and round-robin scheduling runs the router, the
\* helper and the shell again and again; the shell comes back to its prompt.
\* Nothing is assumed of the user, the agent or the multiplexer.
FairSpec ==
  Spec /\ WF_vars(consoleintr) /\ WF_vars(Router) /\ WF_vars(HelperRead) /\ WF_vars(ShRead)

(***************************************************************************)
(* Properties.                                                             *)
(***************************************************************************)

\* The router's promise: as long as no buffer on the way overflowed, the
\* shell reads exactly the keyboard lines, the kernel is given exactly the
\* PIDs of the ADVICE lines, both in the order in which the multiplexer sent
\* them, once each, and neither stream leaks into the other.
LinesIntact ==
  spoiled = 0 =>
    /\ IsPrefix(applied, advised)
    /\ IsPrefix(shgot, typed)

\* consoleread and consoleintr: the router never sleeps while a released
\* character waits for it, nor behind a full buffer, which no later
\* interrupt could add to and so nothing would ever wake it from.
NeverStuckAsleep ==
  rpc = "sleep" => w = 0 /\ Len(cons) < INPUT_BUF_SIZE

\* llmhelper catches up: every PID the multiplexer sent reaches
\* set_llm_advice, behind however much typed text, unless a buffer overflowed
\* or the router met ^D and exited.
AdviceArrives ==
  []<>(Len(applied) = Len(advised) \/ spoiled = 1 \/ rpc = "exit")
============================================================================
