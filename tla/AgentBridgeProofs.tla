------------------------- MODULE AgentBridgeProofs -------------------------
(***************************************************************************)
(* Whatever is logged, truncated, answered or restarted, the agent's       *)
(* advice is grounded in a block of the log and never goes back to an      *)
(* older one: for any tables, answers, retries and sizes.                  *)
(***************************************************************************)
EXTENDS AgentBridge, WellFoundedInduction, TLAPS

Marks == {"start", "end"} \X Nat

Shape ==
  /\ snap \in Seq({Listed(t) : t \in Tables}) /\ log \in Seq(Marks)
  /\ writing \in 0 .. Len(snap) /\ last_size \in Nat /\ cur \in 0 .. Len(snap)
  /\ advice \in {<<>>} \cup (Nat \X Nat) /\ fifo \in Seq(Nat \X Nat)

\* The last start of a block in the log is that of the latest block.
LogInv ==
  \A i \in DOMAIN log :
    log[i][1] = "start" /\ (\A j \in DOMAIN log : j > i => log[j][1] # "start") =>
      log[i][2] = Len(snap)

\* A line of advice names a candidate of the block whose timestamp it carries.
Grounded(l) == l[2] \in 1 .. Len(snap) /\ l[1] \in Runnable(snap[l[2]])

\* What has been written, and what is about to be, is grounded; the block that run() works
\* on is not older than the one it advised on last.
AgentInv ==
  /\ Shape /\ LogInv
  /\ advice # <<>> => Grounded(advice)
  /\ \A i \in DOMAIN fifo : Grounded(fifo[i])
  /\ apc \in {"ask", "write"} => cur # None /\ (advice # <<>> => advice[2] <= cur)
  /\ apc = "write" => Grounded(<<pick, cur>>)

---------------------------------------------------------------------------
(* Facts about the operators of the model.                                  *)

\* A set of numbers up to n has a greatest element.
LEMMA MaxIn ==
  ASSUME NEW n \in Nat, NEW S \in SUBSET (1 .. n), S # {}
  PROVE  \E k \in S : \A j \in S : k >= j
<1> DEFINE T == {n - x : x \in S}  R == OpToRel(<, Nat)
<1>1. T \subseteq Nat /\ T # {}
  <2>1. T \subseteq Nat  OBVIOUS
  <2>2. PICK z : z \in S  OBVIOUS
  <2>3. n - z \in T  BY <2>2
  <2> QED BY <2>1, <2>3
<1>2. IsWellFoundedOn(R, Nat)  BY NatLessThanWellFounded
<1>3. \A x, y \in Nat : ~(<<y, x>> \in R) => x <= y  BY DEF OpToRel
<1> HIDE DEF R
<1>4. PICK x \in T : \A y \in T : ~(<<y, x>> \in R)  BY <1>1, <1>2, WFMin
<1>5. PICK k \in S : x = n - k  BY <1>4
<1>6. \A j \in S : n - k <= n - j  BY <1>1, <1>3, <1>4, <1>5
<1> QED BY <1>5, <1>6

\* What appending does to a sequence.
LEMMA AppendIs ==
  ASSUME NEW S, NEW q \in Seq(S), NEW e \in S
  PROVE  /\ Append(q, e) \in Seq(S) /\ Len(q) \in Nat /\ Len(Append(q, e)) = Len(q) + 1
         /\ \A k \in 1 .. Len(q) : Append(q, e)[k] = q[k]
OBVIOUS

\* Candidates are pids.
LEMMA Candidates ==
  ASSUME Shape, NEW k \in 1 .. Len(snap)
  PROVE  Runnable(snap[k]) \subseteq Nat
<1>1. PICK t \in Tables : snap[k] = Listed(t)  BY DEF Shape
<1>2. DOMAIN Listed(t) \subseteq Nat  BY AgentAssumption DEF Listed
<1>3. Runnable(snap[k]) \subseteq DOMAIN snap[k]  BY DEF Runnable, Active
<1> QED BY <1>1, <1>2, <1>3

\* The block that _read_log() returns is the latest one.
LEMMA LastBlockIs ==
  ASSUME Shape, LogInv
  PROVE  LastBlock(Unread) \in {None, Len(snap)}
<1> DEFINE data == Unread
           i == CHOOSE k \in Starts(data) : \A j \in Starts(data) : k >= j
<1>1. CASE Starts(data) = {}  BY <1>1 DEF LastBlock
<1>2. CASE Starts(data) # {}
  <2>1. /\ Len(data) \in Nat /\ DOMAIN data = 1 .. Len(data)
        /\ \A k \in DOMAIN data : data[k] = log[last_size + k]
        /\ DOMAIN data # {} => Len(data) = Len(log) - last_size
    BY DEF Shape, Unread
  <2>2. Starts(data) \subseteq 1 .. Len(data)  BY <2>1 DEF Starts
  <2> HIDE DEF data
  <2>3. i \in Starts(data) /\ \A j \in Starts(data) : i >= j
    BY <1>2, <2>1, <2>2, MaxIn
  <2> HIDE DEF i
  <2>4. /\ last_size + i \in DOMAIN log /\ log[last_size + i][1] = "start"
        /\ data[i] = log[last_size + i]
    BY <2>1, <2>2, <2>3 DEF Shape, Starts
  <2>5. ASSUME NEW j \in DOMAIN log, j > last_size + i, log[j][1] = "start" PROVE FALSE
    <3>1. j - last_size \in DOMAIN data /\ data[j - last_size] = log[j]
      BY <2>1, <2>2, <2>3, <2>5 DEF Shape
    <3>2. j - last_size \in Starts(data)  BY <2>5, <3>1 DEF Starts
    <3>3. j \in Int /\ i \in Int /\ last_size \in Int  BY <2>2, <2>3 DEF Shape
    <3> QED BY <2>3, <2>5, <3>2, <3>3
  <2>6. log[last_size + i][2] = Len(snap)  BY <2>4, <2>5 DEF LogInv
  <2>7. data[i][2] = Len(snap)  BY <2>4, <2>6
  <2> QED BY <2>7 DEF LastBlock, i, data
<1> QED BY <1>1, <1>2

---------------------------------------------------------------------------
(* Every step keeps AgentInv.                                               *)

\* What is grounded stays so: blocks are only added.
LEMMA StillGrounded ==
  ASSUME Shape, NEW l, Grounded(l), NEW s \in {Listed(t) : t \in Tables},
         snap' = snap \/ snap' = Append(snap, s)
  PROVE  Grounded(l)'
<1>1. Len(snap') >= Len(snap) /\ Len(snap') \in Nat /\ \A k \in 1 .. Len(snap) : snap'[k] = snap[k]
  <2>1. snap \in Seq({Listed(t) : t \in Tables})  BY DEF Shape
  <2>2. CASE snap' = snap  BY <2>1, <2>2
  <2>3. CASE snap' = Append(snap, s)
    <3>1. /\ Len(snap) \in Nat /\ Len(snap') = Len(snap) + 1
          /\ \A k \in 1 .. Len(snap) : snap'[k] = snap[k]
      BY <2>1, <2>3, AppendIs, Zenon
    <3> QED BY <3>1
  <2> QED BY <2>2, <2>3
<1>2. l[2] \in 1 .. Len(snap) /\ l[1] \in Runnable(snap[l[2]])  BY DEF Grounded
<1>3. snap'[l[2]] = snap[l[2]] /\ l[2] \in 1 .. Len(snap')
  <2>1. Len(snap) \in Nat  BY DEF Shape
  <2> QED BY <1>1, <1>2, <2>1
<1> QED BY <1>2, <1>3 DEF Grounded

\* The kernel prints a block.
LEMMA LogStartInv ==
  ASSUME AgentInv, NEW t \in Tables, LogStart(t)
  PROVE  AgentInv'
<1> USE DEF AgentInv
<1>1. /\ snap' = Append(snap, Listed(t)) /\ writing' = Len(snap) + 1
      /\ log' = Append(log, <<"start", Len(snap) + 1>>)
      /\ UNCHANGED <<apc, last_size, cur, pick, advice, fifo>>
  BY DEF LogStart, agent, out
<1>2. Len(snap) \in Nat /\ Len(snap') = Len(snap) + 1  BY <1>1 DEF Shape
<1>3. Shape'
  <2>1. snap' \in Seq({Listed(x) : x \in Tables})  BY <1>1 DEF Shape
  <2>2. log' \in Seq(Marks)
    <3>1. <<"start", Len(snap) + 1>> \in Marks  BY <1>2 DEF Marks
    <3> QED BY <1>1, <3>1 DEF Shape
  <2> QED BY <1>1, <1>2, <2>1, <2>2 DEF Shape
<1>4. LogInv'
  <2>1. /\ Len(log) \in Nat /\ DOMAIN log' = 1 .. Len(log) + 1
        /\ log'[Len(log) + 1] = <<"start", Len(snap) + 1>>
    BY <1>1 DEF Shape
  <2>2. \A i \in DOMAIN log' : i # Len(log) + 1 => Len(log) + 1 > i  BY <2>1
  <2> QED BY <1>2, <2>1, <2>2 DEF LogInv
<1>5. \A l : Grounded(l) => Grounded(l)'  BY <1>1, StillGrounded
<1> QED BY <1>1, <1>3, <1>4, <1>5

\* The log and the FIFO change otherwise.
LEMMA EnvInv ==
  ASSUME AgentInv, LogEnd \/ Truncate \/ MuxOpen \/ MuxClose \/ MuxRead
  PROVE  AgentInv'
<1> USE DEF AgentInv
<1>1. UNCHANGED <<snap, apc, last_size, cur, pick, advice>>
  BY DEF LogEnd, Truncate, MuxOpen, MuxClose, MuxRead, agent, out, env
<1>2. /\ writing' \in 0 .. Len(snap)
      /\ log' = log \/ log' = <<>> \/ log' = Append(log, <<"end", writing>>)
      /\ fifo' = fifo \/ fifo' = <<>> \/ (fifo # <<>> /\ fifo' = Tail(fifo))
  <2>1. CASE LogEnd
    <3>1. 0 \in 0 .. Len(snap)  BY DEF Shape
    <3> QED BY <2>1, <3>1, Zenon DEF LogEnd, out, None
  <2>2. CASE Truncate \/ MuxOpen \/ MuxClose \/ MuxRead
    BY <2>2, Zenon DEF Truncate, MuxOpen, MuxClose, MuxRead, out, env, Shape
  <2> QED BY <2>1, <2>2
<1>3. <<"end", writing>> \in Marks  BY DEF Shape, Marks
<1>4. Shape'
  <2>1. log \in Seq(Marks) /\ fifo \in Seq(Nat \X Nat)  BY DEF Shape
  <2>2. log' \in Seq(Marks)
    <3>1. <<>> \in Seq(Marks)  OBVIOUS
    <3> QED BY <1>2, <1>3, <2>1, <3>1, AppendIs, Zenon
  <2>3. fifo' \in Seq(Nat \X Nat)
    <3>1. <<>> \in Seq(Nat \X Nat)  OBVIOUS
    <3>2. fifo # <<>> => Tail(fifo) \in Seq(Nat \X Nat)  BY <2>1
    <3> QED BY <1>2, <2>1, <3>1, <3>2, Zenon
  <2> QED BY <1>1, <1>2, <2>2, <2>3, Zenon DEF Shape
<1>5. LogInv'
  <2>1. CASE log' = log  BY <1>1, <2>1 DEF LogInv
  <2>2. CASE log' = <<>>  BY <2>2 DEF LogInv
  <2>3. CASE log' = Append(log, <<"end", writing>>)
    <3>1. /\ Len(log) \in Nat /\ DOMAIN log = 1 .. Len(log) /\ DOMAIN log' = 1 .. Len(log) + 1
          /\ log'[Len(log) + 1][1] = "end" /\ \A i \in DOMAIN log : log'[i] = log[i]
      BY <2>3 DEF Shape
    <3>2. ASSUME NEW i \in DOMAIN log', log'[i][1] = "start",
                 \A j \in DOMAIN log' : j > i => log'[j][1] # "start"
          PROVE  log'[i][2] = Len(snap)
      <4>1. i \in DOMAIN log  BY <3>1, <3>2
      <4> QED BY <3>1, <3>2, <4>1 DEF LogInv
    <3> QED BY <1>1, <3>2 DEF LogInv
  <2> QED BY <1>2, <2>1, <2>2, <2>3
<1>6. \A l : Grounded(l)' <=> Grounded(l)  BY <1>1 DEF Grounded
<1>7. \A i \in DOMAIN fifo' : Grounded(fifo'[i])
  <2>1. CASE fifo' = fifo \/ fifo' = <<>>  BY <2>1
  <2>2. CASE fifo # <<>> /\ fifo' = Tail(fifo)
    <3>1. \A i \in DOMAIN fifo' : i + 1 \in DOMAIN fifo /\ fifo'[i] = fifo[i + 1]
      BY <2>2 DEF Shape
    <3> QED BY <3>1
  <2> QED BY <1>2, <2>1, <2>2
<1> QED BY <1>1, <1>4, <1>5, <1>6, <1>7

\* run() takes the size and reads the log.
LEMMA PollInv ==
  ASSUME AgentInv, PollSize \/ PollRead
  PROVE  AgentInv'
<1> USE DEF AgentInv
<1>1. UNCHANGED <<snap, log, writing, advice, fifo>>  BY DEF PollSize, PollRead, env, out
<1>2. \A l : Grounded(l)' <=> Grounded(l)  BY <1>1, Zenon DEF Grounded
<1>3. LogInv'  BY <1>1, Zenon DEF LogInv
<1>4. CASE PollSize
  <2>1. last_size' \in Nat /\ UNCHANGED <<cur, pick>> /\ apc' = "read"
    BY <1>4 DEF PollSize, Shape
  <2>2. Shape'  BY <1>1, <2>1, Zenon DEF Shape
  <2> QED BY <1>1, <1>2, <1>3, <2>1, <2>2
<1>5. CASE PollRead
  <2>1. Len(snap) \in Nat /\ Len(log) \in Nat  BY DEF Shape
  <2>2. cur' \in {None, Len(snap)}  BY <1>5, LastBlockIs DEF PollRead
  <2>3. cur' \in 0 .. Len(snap)  BY <2>1, <2>2 DEF None
  <2>4. Shape'
    <3>1. last_size' \in Nat  BY <1>5, <2>1 DEF PollRead, Shape
    <3> QED BY <1>1, <2>3, <3>1, Zenon DEF Shape
  <2>5. /\ apc' \in {"ask", "write"} => cur' # None
        /\ apc' = "write" => pick' \in Runnable(snap[cur'])
    BY <1>5 DEF PollRead, Worth
  <2>6. cur' # None => cur' = Len(snap) /\ cur' \in 1 .. Len(snap)  BY <2>1, <2>2, <2>3 DEF None
  <2>7. apc' \in {"ask", "write"} /\ advice # <<>> => advice[2] <= cur'
    <3>1. advice # <<>> => advice[2] \in 1 .. Len(snap)  BY DEF Grounded
    <3> QED BY <2>1, <2>5, <2>6, <3>1
  <2>8. apc' = "write" => Grounded(<<pick', cur'>>)
    BY <2>5, <2>6 DEF Grounded
  <2> QED BY <1>1, <1>2, <1>3, <2>4, <2>5, <2>7, <2>8
<1> QED BY <1>4, <1>5

\* run() chooses.
LEMMA ChooseInv ==
  ASSUME AgentInv, Fallback \/ \E a \in Answers \cup {None} : Ask(a)
  PROVE  AgentInv'
<1> USE DEF AgentInv
<1>1. /\ UNCHANGED <<snap, log, writing, advice, fifo, last_size, cur>> /\ apc = "ask"
      /\ apc' = "ask" \/ (apc' = "write" /\ pick' \in Runnable(snap[cur]))
  BY Zenon DEF Fallback, Ask, env, out
<1>2. \A l : Grounded(l)' <=> Grounded(l)  BY <1>1, Zenon DEF Grounded
<1>3. LogInv'  BY <1>1, Zenon DEF LogInv
<1>4. Shape'  BY <1>1, Zenon DEF Shape
<1>5. cur \in 1 .. Len(snap)  BY <1>1 DEF Shape, None
<1>6. apc' = "write" => Grounded(<<pick', cur>>)  BY <1>1, <1>5 DEF Grounded
<1> QED BY <1>1, <1>2, <1>3, <1>4, <1>6

\* _write()
LEMMA WriteInv ==
  ASSUME AgentInv, Write
  PROVE  AgentInv'
<1> USE DEF AgentInv
<1> DEFINE line == <<pick, cur>>
<1>1. /\ UNCHANGED <<snap, log, writing, last_size, cur>> /\ apc = "write" /\ apc' = "poll"
      /\ advice' = advice \/ advice' = line
      /\ fifo' = fifo \/ fifo' = Append(fifo, line)
  BY Zenon DEF Write, WriteFifo, env, out
<1>2. \A l : Grounded(l)' <=> Grounded(l)  BY <1>1, Zenon DEF Grounded
<1>3. LogInv'  BY <1>1, Zenon DEF LogInv
<1>4. Grounded(line)  BY <1>1
<1>5. line \in Nat \X Nat
  <2>1. cur \in 1 .. Len(snap) /\ pick \in Runnable(snap[cur])  BY <1>4 DEF Grounded
  <2>2. pick \in Nat  BY <2>1, Candidates
  <2>3. cur \in Nat  BY <2>1 DEF Shape
  <2> QED BY <2>2, <2>3
<1> HIDE DEF line
<1>6. Shape'
  <2>1. advice' \in {<<>>} \cup (Nat \X Nat)  BY <1>1, <1>5, Zenon DEF Shape
  <2>2. fifo' \in Seq(Nat \X Nat)
    <3>1. fifo \in Seq(Nat \X Nat)  BY Zenon DEF Shape
    <3>2. Append(fifo, line) \in Seq(Nat \X Nat)  BY <1>5, <3>1
    <3> QED BY <1>1, <3>1, <3>2, Zenon
  <2> QED BY <1>1, <2>1, <2>2, Zenon DEF Shape
<1>7. \A i \in DOMAIN fifo' : Grounded(fifo'[i])
  <2>1. CASE fifo' = fifo  BY <2>1
  <2>2. CASE fifo' = Append(fifo, line)
    <3>0. fifo \in Seq(Nat \X Nat)  BY Zenon DEF Shape
    <3>1. \A i \in DOMAIN Append(fifo, line) :
            (i \in DOMAIN fifo /\ Append(fifo, line)[i] = fifo[i]) \/ Append(fifo, line)[i] = line
      BY <1>5, <3>0
    <3> QED BY <1>4, <2>2, <3>1
  <2> QED BY <1>1, <2>1, <2>2
<1> QED BY <1>1, <1>2, <1>3, <1>4, <1>6, <1>7

\* AgentInv holds in every reachable state, and with it every step takes the advice forward.
LEMMA AgentStep ==
  AgentInv /\ [Next]_vars => AgentInv' /\ [advice # <<>> => advice'[2] >= advice[2]]_vars
<1> SUFFICES ASSUME AgentInv, [Next]_vars
             PROVE  AgentInv' /\ (advice # <<>> => advice'[2] >= advice[2])
  BY Zenon
<1>1. advice # <<>> => advice[2] \in Nat  BY DEF AgentInv, Shape
<1>2. ASSUME advice' = advice PROVE advice # <<>> => advice'[2] >= advice[2]  BY <1>1, <1>2
<1>3. ASSUME UNCHANGED vars PROVE AgentInv' /\ advice' = advice
  <2>1. UNCHANGED <<snap, log, writing, last_size, cur, advice, fifo, apc, pick>>
    BY <1>3, Zenon DEF vars, env, agent, out
  <2>2. Shape' /\ LogInv' /\ \A l : Grounded(l)' <=> Grounded(l)
    BY <2>1, Zenon DEF AgentInv, Shape, LogInv, Grounded
  <2> QED BY <2>1, <2>2, Zenon DEF AgentInv
<1>4. ASSUME NEW t \in Tables, LogStart(t) PROVE AgentInv' /\ advice' = advice
  BY <1>4, LogStartInv, Zenon DEF LogStart, out
<1>5. ASSUME LogEnd \/ Truncate \/ MuxOpen \/ MuxClose \/ MuxRead
      PROVE  AgentInv' /\ advice' = advice
  BY <1>5, EnvInv, Zenon DEF LogEnd, Truncate, MuxOpen, MuxClose, MuxRead, out
<1>6. ASSUME PollSize \/ PollRead PROVE AgentInv' /\ advice' = advice
  BY <1>6, PollInv, Zenon DEF PollSize, PollRead, out
<1>7. ASSUME Fallback \/ \E a \in Answers \cup {None} : Ask(a) PROVE AgentInv' /\ advice' = advice
  BY <1>7, ChooseInv, Zenon DEF Fallback, Ask, out
<1>8. ASSUME Write PROVE AgentInv' /\ (advice # <<>> => advice'[2] >= advice[2])
  <2>1. AgentInv'  BY <1>8, WriteInv
  <2>2. apc = "write" /\ (advice' = advice \/ advice' = <<pick, cur>>)  BY <1>8, Zenon DEF Write, out
  <2>3. advice # <<>> => advice[2] <= cur  BY <2>2 DEF AgentInv
  <2>4. cur \in Nat  BY DEF AgentInv, Shape
  <2> QED BY <1>1, <1>2, <2>1, <2>2, <2>3, <2>4
<1>9. ASSUME Stop \/ Start PROVE AgentInv' /\ advice' = advice
  <2>1. /\ UNCHANGED <<snap, log, writing, advice, fifo>> /\ apc' \in {"stopped", "poll"}
        /\ last_size' \in {0, last_size} /\ cur' \in {0, cur}
    BY <1>9, Zenon DEF Stop, Start, env, out, None
  <2>2. Shape'  BY <2>1 DEF AgentInv, Shape
  <2>3. LogInv' /\ \A l : Grounded(l)' <=> Grounded(l)
    BY <2>1, Zenon DEF AgentInv, LogInv, Grounded
  <2> QED BY <2>1, <2>2, <2>3 DEF AgentInv
<1> QED BY <1>2, <1>3, <1>4, <1>5, <1>6, <1>7, <1>8, <1>9, Zenon DEF Next, Agent

LEMMA AgentAlways == Spec => []AgentInv
<1>1. Init => AgentInv
  BY DEF Init, AgentInv, Shape, LogInv, Grounded, Marks, None
<1> QED BY <1>1, AgentStep, PTL DEF Spec

\* A line in llm_advice.txt or in the FIFO names a candidate of the very block whose
\* timestamp it carries, for any answers of the LLM, truncations and restarts.
THEOREM AdviceIsGrounded == Spec => []AdviceGrounded
<1>1. AgentInv => AdviceGrounded
  BY Zenon DEF AgentInv, AdviceGrounded, Grounded, Range
<1> QED BY <1>1, AgentAlways, PTL

\* _write() never replaces advice by advice on an older block.
THEOREM AdviceMovesForward == Spec => AdviceNeverOlder
<1> QED BY AgentAlways, AgentStep, PTL DEF Spec, AdviceNeverOlder
=============================================================================
