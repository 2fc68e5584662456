---------------------------- MODULE AgentBridge ----------------------------
(***************************************************************************)
(* agent/agent_bridge.py: it polls shared/sched_log.txt, asks the LLM for  *)
(* a process and writes advice to llm_advice.txt and to the FIFO.          *)
(*                                                                         *)
(* The log is a sequence of marks: a block's start, which stands for its   *)
(* timestamp and process lines too, and its end.  Blocks are numbered in   *)
(* the order the kernel printed them; within one boot their timestamps     *)
(* increase, so the number serves as the timestamp.  A reader may find a   *)
(* block half written: the splitter appends it with one write, "tee" (in   *)
(* xv6/Makefile) as the console prints it.                                 *)
(* Anybody may truncate the log; the agent may be stopped, or killed, and  *)
(* started again, at any time.                                             *)
(***************************************************************************)
EXTENDS Integers, Sequences, FiniteSets, Functions

CONSTANTS Tables,      \* what proc[] may hold: functions from pids to states
          Answers,     \* pids an answer of the LLM may contain
          RETRIES,
          FifoSize,    \* lines that fit in the FIFO
          MaxTs,       \* bound: blocks that are logged
          MaxUpsets    \* bound: truncations of the log, stops of agent and console_mux

ASSUME AgentAssumption ==
  /\ RETRIES \in Nat /\ FifoSize \in Nat /\ MaxTs \in Nat /\ MaxUpsets \in Nat
  /\ \A t \in Tables : \A p \in DOMAIN t : p \in Nat /\ t[p] \in 0 .. 5
  /\ \A a \in Answers : a \in Nat

None == 0     \* Python's None: no block, no answer, nothing sent yet

VARIABLES
  log,                 \* sched_log.txt
  snap,                \* what each block printed so far lists
  writing,             \* the block the splitter is appending, or None
  apc,                 \* where run() is
  last_size,
  cur,                 \* what _read_log() returned last
  tries, pick,
  last_ts, last_pid,   \* _last_advised_ts, _last_sent_pid
  advice,              \* the last line of llm_advice.txt
  fifo, reader,        \* lines in the FIFO; 1 while console_mux has it open
  upsets

agent == <<apc, last_size, cur, tries, pick, last_ts, last_pid>>
env   == <<log, snap, writing, reader, upsets>>
out   == <<advice, fifo>>
vars  == <<env, agent, out>>

Init ==
  /\ log = <<>> /\ snap = <<>> /\ writing = None
  /\ apc = "poll" /\ last_size = 0 /\ cur = None /\ tries = 0 /\ pick = None
  /\ last_ts = None /\ last_pid = None
  /\ advice = <<>> /\ fifo = <<>> /\ reader = 0 /\ upsets = 0

---------------------------------------------------------------------------
(* Around the agent: kernel and splitter, truncation, console_mux.          *)

\* log_scheduling_state(): a line for every process whose state is not UNUSED (0).
Listed(t) == [p \in {q \in DOMAIN t : t[q] # 0} |-> t[p]]

LogStart(t) ==
  /\ writing = None /\ Len(snap) < MaxTs
  /\ snap' = Append(snap, Listed(t))
  /\ writing' = Len(snap) + 1
  /\ log' = Append(log, <<"start", Len(snap) + 1>>)
  /\ UNCHANGED <<agent, out, reader, upsets>>

LogEnd ==
  /\ writing # None
  /\ log' = Append(log, <<"end", writing>>)
  /\ writing' = None
  /\ UNCHANGED <<snap, agent, out, reader, upsets>>

Truncate ==
  /\ upsets < MaxUpsets /\ log # <<>>
  /\ log' = <<>>
  /\ upsets' = upsets + 1
  /\ UNCHANGED <<snap, writing, agent, out, reader>>

MuxOpen ==
  /\ reader = 0
  /\ reader' = 1
  /\ UNCHANGED <<log, snap, writing, agent, out, upsets>>

\* The last descriptor is closed: what is still in the FIFO is gone.
MuxClose ==
  /\ reader = 1 /\ upsets < MaxUpsets
  /\ reader' = 0 /\ fifo' = <<>> /\ upsets' = upsets + 1
  /\ UNCHANGED <<log, snap, writing, agent, advice>>

MuxRead ==
  /\ reader = 1 /\ fifo # <<>>
  /\ fifo' = Tail(fifo)
  /\ UNCHANGED <<env, agent, advice>>

---------------------------------------------------------------------------
(* The agent.                                                               *)

Active(s, states) == {p \in DOMAIN s : p > 3 /\ s[p] \in states}

\* _runnable(): RUNNABLE or RUNNING user processes, or else any that are alive.
Runnable(s) == IF Active(s, {3, 4}) # {} THEN Active(s, {3, 4}) ELSE Active(s, 1 .. 4)

\* The file is smaller than the cursor: it was truncated.
PollSize ==
  /\ apc = "poll"
  /\ last_size' = IF Len(log) < last_size THEN 0 ELSE last_size
  /\ apc' = "read"
  /\ UNCHANGED <<env, out, cur, tries, pick, last_ts, last_pid>>

Unread == SubSeq(log, last_size + 1, Len(log))

Starts(data) == {i \in DOMAIN data : data[i][1] = "start"}

Complete(data, i) == \E j \in DOMAIN data : j > i /\ data[j][1] = "end"

\* Mutant: the first block of the new data is taken.
FirstBlock(data) ==
  LET i == CHOOSE k \in Starts(data) : \A j \in Starts(data) : k <= j
  IN  IF Starts(data) # {} /\ Complete(data, i) THEN data[i][2] ELSE None

\* What follows the last SCHED_LOG_START, provided that a SCHED_LOG_END is there.
LastBlock(data) ==
  LET i == CHOOSE k \in Starts(data) : \A j \in Starts(data) : k >= j
  IN  IF Starts(data) # {} /\ Complete(data, i) THEN data[i][2] ELSE None

Worth(t) == t # None /\ t # last_ts /\ Runnable(snap[t]) # {}

\* The rest of _read_log() and run() up to the choice.  After a truncation since the
\* size was taken the cursor lies behind the end and stays there.
PollRead ==
  /\ apc = "read"
  /\ last_size' = IF Len(log) < last_size THEN last_size ELSE Len(log)
  /\ cur' = LastBlock(Unread)
  /\ \/ /\ ~Worth(cur')
        /\ apc' = "poll" /\ UNCHANGED pick
     \/ /\ Worth(cur') /\ Cardinality(Runnable(snap[cur'])) = 1
        /\ apc' = "write" /\ pick' \in Runnable(snap[cur'])
     \/ /\ Worth(cur') /\ Cardinality(Runnable(snap[cur'])) > 1
        /\ apc' = "ask" /\ UNCHANGED pick
  /\ UNCHANGED <<env, out, tries, last_ts, last_pid>>

\* Mutant: whatever number is found in the answer is taken.
AskAny(a) ==
  /\ apc = "ask" /\ tries <= RETRIES
  /\ tries' = tries + 1
  /\ \/ a # None /\ pick' = a /\ apc' = "write"
     \/ a = None /\ UNCHANGED <<apc, pick>>
  /\ UNCHANGED <<env, out, last_size, cur, last_ts, last_pid>>

\* One attempt of _choose_with_retry(): the request fails or times out, no number is
\* found (None), or a number that is a candidate or is not.
Ask(a) ==
  /\ apc = "ask" /\ tries <= RETRIES
  /\ tries' = tries + 1
  /\ \/ a \in Runnable(snap[cur]) /\ pick' = a /\ apc' = "write"
     \/ a \notin Runnable(snap[cur]) /\ UNCHANGED <<apc, pick>>
  /\ UNCHANGED <<env, out, last_size, cur, last_ts, last_pid>>

\* Mutant: the backup policy looks at RUNNABLE and RUNNING processes only.
FallbackPrimary ==
  /\ apc = "ask" /\ tries > RETRIES
  /\ pick' \in Active(snap[cur], {3, 4})
  /\ apc' = "write"
  /\ UNCHANGED <<env, out, last_size, cur, tries, last_ts, last_pid>>

\* _fallback_choice(): the best score, which may be anybody's.
Fallback ==
  /\ apc = "ask" /\ tries > RETRIES
  /\ pick' \in Runnable(snap[cur])
  /\ apc' = "write"
  /\ UNCHANGED <<env, out, last_size, cur, tries, last_ts, last_pid>>

\* _write_fifo(): the line is dropped when nobody reads or the FIFO is full.
WriteFifo(line) ==
  fifo' = IF reader = 1 /\ Len(fifo) < FifoSize THEN Append(fifo, line) ELSE fifo

\* _write(): the advice counts as sent whatever became of it in the FIFO.  An exception
\* at llm_advice.txt, before or after the line got there, ends it.
Write ==
  /\ apc = "write"
  /\ \/ /\ advice' = <<pick, cur>>
        /\ WriteFifo(<<pick, cur>>)
        /\ last_ts' = cur /\ last_pid' = pick
     \/ advice' = <<pick, cur>> /\ UNCHANGED <<fifo, last_ts, last_pid>>
     \/ UNCHANGED <<out, last_ts, last_pid>>
  /\ apc' = "poll" /\ pick' = None /\ tries' = 0
  /\ UNCHANGED <<env, last_size, cur>>

\* stop() lets run() finish its round; a kill does not.
Stop ==
  /\ apc # "stopped" /\ upsets < MaxUpsets
  /\ apc' = "stopped" /\ upsets' = upsets + 1
  /\ UNCHANGED <<log, snap, writing, reader, out, last_size, cur, tries, pick, last_ts, last_pid>>

\* A new agent remembers nothing.
Start ==
  /\ apc = "stopped"
  /\ apc' = "poll" /\ last_size' = 0 /\ cur' = None /\ tries' = 0 /\ pick' = None
  /\ last_ts' = None /\ last_pid' = None
  /\ UNCHANGED <<env, out>>

---------------------------------------------------------------------------

Agent == PollSize \/ PollRead \/ (\E a \in Answers \cup {None} : Ask(a)) \/ Fallback \/ Write

Next ==
  \/ \E t \in Tables : LogStart(t)
  \/ LogEnd \/ Truncate \/ MuxOpen \/ MuxClose \/ MuxRead
  \/ Agent \/ Stop \/ Start

Spec == Init /\ [][Next]_vars

\* A running agent goes on: every sleep and every request of the LLM has a time limit.
FairSpec == Spec /\ WF_vars(Agent)

---------------------------------------------------------------------------
(* Properties.                                                              *)

\* Whatever the LLM answers or fails to answer, and whatever is logged, truncated or
\* restarted meanwhile, a line of advice names a candidate of the very block whose
\* timestamp it carries (_choose_with_retry(), _fallback_choice(), _write()).
AdviceGrounded ==
  \A l \in {advice} \cup Range(fifo) : l # <<>> => l[1] \in Runnable(snap[l[2]])

\* Advice never goes back to an older block, not even when a new agent reads the log from
\* its beginning or the log was truncated and grew past the cursor.  The kernel does not
\* look at TS, so an older line would replace newer advice.
AdviceNeverOlder ==
  [][advice # <<>> => advice'[2] >= advice[2]]_vars

\* run() always comes back to the log, also if the LLM never gives a usable answer.
AgentReturns == apc \in {"read", "ask", "write"} ~> apc \in {"poll", "stopped"}

\* _read_log() promises "the most recent complete SCHED_LOG block since last_size" and,
\* of a partial block, to "wait for more data": a poll that takes in the end of a block
\* returns that block or a later one.
CompleteBlockReturned ==
  [][apc = "read" /\ apc' \in {"poll", "ask", "write"} =>
       \A i \in DOMAIN Unread : Unread[i][1] = "end" => Unread[i][2] <= cur']_vars
=============================================================================
