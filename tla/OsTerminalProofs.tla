-------------------------- MODULE OsTerminalProofs --------------------------
(***************************************************************************)
(* Terminals do not share descriptors, the output of a terminal in use is  *)
(* its own, nothing is queued twice or out of order, and no shell outlives *)
(* its session unsignalled, for any number of terminals, connections and   *)
(* chunks.                                                                 *)
(***************************************************************************)
EXTENDS OsTerminal, SequenceTheorems, TLAPS

(***************************************************************************)
(* The inductive invariant.                                                *)
(***************************************************************************)
\* A started session has a number, a working thread a started session, a
\* blocked one a file, and a connection a terminal.
Wired ==
  /\ \A t \in Terminals :
       /\ stage[t] # "none" => fd[t] \in Numbers
       /\ thread[t].at # "none" => stage[t] # "none"
       /\ thread[t].at = "blocked" => thread[t].on \in Terminals
  /\ \A v \in Viewers : Connected(v) => view[v].on \in Terminals

\* A chunk of the terminal, or the end marker.
Home(t) == [of : {t, NoTerminal}, nr : Nat]

\* Every PTY carries what its own shell printed, and a terminal that is not
\* stopped passes nothing else on.
AtHome ==
  \A t \in Terminals :
    /\ pty[t] \in Seq(Home(t))
    /\ ~Stopped(t) => thread[t].on \in {t, NoTerminal} /\ queue[t] \in Seq(Home(t))

IInv == TypeOK /\ Wired /\ DescriptorsOwned /\ AtHome

Messages == Chunks \cup {End}
Stages == {"none", "live", "doomed", "grace", "killing", "gone"}

(***************************************************************************)
(* What the steps write.                                                   *)
(***************************************************************************)
LEMMA TerminalsAreNumbers == Terminals \subseteq Nat \ {0} /\ NoTerminal \notin Terminals
BY DEF Terminals, NoTerminal

LEMMA EndIsAnywhere == End \in Messages /\ \A t : End \in Home(t)
BY DEF Messages, Home, End, NoTerminal

LEMMA ChunkIsHome ==
  ASSUME TypeOK, NEW t \in Terminals, printed[t] < MaxChunks
  PROVE  Chunk(t) \in Chunks /\ Chunk(t) \in Home(t) /\ printed[t] + 1 \in 0..MaxChunks
BY BoundsAssumption DEF TypeOK, Chunk, Chunks, Home

\* One entry of a function.
OnlyAt(f, g, t, S) == \E x \in S : g = [f EXCEPT ![t] = x]

\* The queue and the thread of a terminal whose job returns.
LEMMA ReturnsKeeps ==
  ASSUME TypeOK, NEW t \in Terminals, NEW S, End \in S, queue[t] \in Seq(S),
         NEW c \in Seq(S), Returns(t, c)
  PROVE  /\ OnlyAt(queue, queue', t, Seq(S))
         /\ OnlyAt(thread, thread', t, {Idle, Waiting(t)})
         /\ OnlyAt(task, task', t, {"none", "reading", "over"})
<1>1. /\ <<>> \in Seq(S) /\ <<End>> \in Seq(S)
      /\ \A a, b \in Seq(S) : a \o b \in Seq(S)
  BY ConcatProperties, EmptySeq
<1>2. CASE task[t] = "reading"
  <2> DEFINE again == c # <<>> /\ ~Stopped(t)
  <2>1. queue[t] \o c \o (IF again THEN <<>> ELSE <<End>>) \in Seq(S)
    BY <1>1
  <2>2. QED
    BY <1>2, <2>1 DEF Returns, OnlyAt
<1>3. CASE task[t] # "reading"
  <2>1. queue' = [queue EXCEPT ![t] = queue[t]] /\ task' = [task EXCEPT ![t] = task[t]]
    BY <1>3 DEF Returns, TypeOK
  <2>2. task[t] \in {"none", "reading", "over"}
    BY DEF TypeOK
  <2>3. QED
    BY <1>3, <2>1, <2>2 DEF Returns, OnlyAt
<1>4. QED
  BY <1>2, <1>3

\* What a step of the reader does to its own terminal, and to the PTY it reads.
LEMMA ReaderKeeps ==
  ASSUME IInv, NEW t \in Terminals, ReaderStep(t)
  PROVE  /\ OnlyAt(queue, queue', t, Seq(Messages))
         /\ ~Stopped(t) => OnlyAt(queue, queue', t, Seq(Home(t)))
         /\ \E x \in [at : {"none", "waiting", "reading", "blocked"}, on : Terminals \cup {NoTerminal}] :
              /\ thread' = [thread EXCEPT ![t] = x]
              /\ x.at = "blocked" => x.on \in Terminals
              /\ x.at # "none" => stage[t] # "none"
              /\ ~Stopped(t) => x.on \in {t, NoTerminal}
         /\ OnlyAt(task, task', t, {"none", "reading", "over"})
         /\ \/ UNCHANGED pty
            \/ \E f \in Terminals : pty[f] # <<>> /\ pty' = [pty EXCEPT ![f] = Tail(@)]
<1> DEFINE Threads == [at : {"none", "waiting", "reading", "blocked"}, on : Terminals \cup {NoTerminal}]
           Keeps(x) == /\ thread' = [thread EXCEPT ![t] = x]
                       /\ x.at = "blocked" => x.on \in Terminals
                       /\ x.at # "none" => stage[t] # "none"
                       /\ ~Stopped(t) => x.on \in {t, NoTerminal}
<1> USE DEF IInv
<1>0. /\ thread[t].at # "none" /\ stage[t] # "none" /\ fd[t] \in Numbers
      /\ queue[t] \in Seq(Messages)
      /\ ~Stopped(t) => queue[t] \in Seq(Home(t))
      /\ End \in Messages /\ End \in Home(t)
  BY EndIsAnywhere DEF ReaderStep, Selected, Read, ReadEnds, Wired, TypeOK, AtHome, Messages
<1>1. ASSUME NEW c, Returns(t, c), c \in Seq(Messages), ~Stopped(t) => c \in Seq(Home(t))
      PROVE  /\ OnlyAt(queue, queue', t, Seq(Messages))
             /\ ~Stopped(t) => OnlyAt(queue, queue', t, Seq(Home(t)))
             /\ \E x \in Threads : Keeps(x)
             /\ OnlyAt(task, task', t, {"none", "reading", "over"})
  <2>1. /\ OnlyAt(queue, queue', t, Seq(Messages))
        /\ OnlyAt(thread, thread', t, {Idle, Waiting(t)})
        /\ OnlyAt(task, task', t, {"none", "reading", "over"})
    BY <1>0, <1>1, ReturnsKeeps
  <2>2. ~Stopped(t) => OnlyAt(queue, queue', t, Seq(Home(t)))
    BY <1>0, <1>1, ReturnsKeeps
  <2>3. \E x \in Threads : Keeps(x)
    <3>1. PICK x \in {Idle, Waiting(t)} : thread' = [thread EXCEPT ![t] = x]
      BY <2>1 DEF OnlyAt
    <3>2. x \in Threads /\ x.at # "blocked" /\ x.on \in {t, NoTerminal}
      BY DEF Idle, Waiting
    <3>3. QED
      BY <1>0, <3>1, <3>2
  <2>4. QED
    BY <2>1, <2>2, <2>3
<1>2. ASSUME NEW x \in Threads, Moves(t, x), x.at = "blocked" => x.on \in Terminals,
             ~Stopped(t) => x.on \in {t, NoTerminal}
      PROVE  /\ OnlyAt(queue, queue', t, Seq(Messages))
             /\ ~Stopped(t) => OnlyAt(queue, queue', t, Seq(Home(t)))
             /\ \E y \in Threads : Keeps(y)
             /\ OnlyAt(task, task', t, {"none", "reading", "over"})
  <2>1. queue' = [queue EXCEPT ![t] = queue[t]] /\ task' = [task EXCEPT ![t] = task[t]]
    BY <1>2 DEF Moves, TypeOK
  <2>2. task[t] \in {"none", "reading", "over"}
    BY DEF TypeOK
  <2>3. Keeps(x)
    BY <1>0, <1>2 DEF Moves
  <2>4. QED
    BY <1>0, <2>1, <2>2, <2>3 DEF OnlyAt
<1>3. <<>> \in Seq(Messages) /\ <<>> \in Seq(Home(t))
  BY EmptySeq
<1>4. CASE Selected(t)
  <2>1. CASE Moves(t, [at |-> "reading", on |-> NoTerminal])
    BY <1>2, <1>4, <2>1 DEF Selected
  <2>2. CASE Returns(t, <<>>)
    BY <1>1, <1>3, <1>4, <2>2 DEF Selected
  <2>3. QED
    BY <1>4, <2>1, <2>2 DEF Selected
<1>5. CASE Read(t)
  <2>1. CASE Target(t) = NoTerminal
    BY <1>1, <1>3, <1>5, <2>1 DEF Read
  <2>2. CASE Target(t) # NoTerminal
    <3>1. Target(t) \in Terminals
      BY <1>0, <2>2 DEF Target, TypeOK
    <3>2. ~Stopped(t) => Target(t) = t
      BY <1>0 DEF Target, DescriptorsOwned, Stopped, Stopping, TypeOK
    <3>3. [at |-> "blocked", on |-> Target(t)] \in Threads
      BY <3>1
    <3>4. Moves(t, [at |-> "blocked", on |-> Target(t)]) /\ UNCHANGED pty
      BY <1>5, <2>2 DEF Read
    <3>5. QED
      BY <1>2, <3>1, <3>2, <3>3, <3>4
  <2>3. QED
    BY <2>1, <2>2
<1>6. CASE ReadEnds(t)
  <2> DEFINE f == thread[t].on
  <2>1. f \in Terminals /\ (~Stopped(t) => f = t)
    BY <1>6, TerminalsAreNumbers DEF ReadEnds, Wired, AtHome
  <2>2. CASE pty[f] = <<>>
    BY <1>1, <1>3, <1>6, <2>2 DEF ReadEnds
  <2>3. CASE pty[f] # <<>>
    <3>1. Returns(t, <<Head(pty[f])>>) /\ pty' = [pty EXCEPT ![f] = Tail(@)]
      BY <1>6, <2>3 DEF ReadEnds
    <3>2. pty[f] \in Seq(Chunks) /\ pty[f] \in Seq(Home(f))
      BY <2>1 DEF TypeOK, AtHome
    <3>3. Head(pty[f]) \in Messages /\ Head(pty[f]) \in Home(f)
      BY <2>3, <3>2, HeadTailProperties DEF Messages
    <3>4. <<Head(pty[f])>> \in Seq(Messages) /\ (~Stopped(t) => <<Head(pty[f])>> \in Seq(Home(t)))
      BY <2>1, <3>3
    <3>5. QED
      BY <1>1, <2>1, <2>3, <3>1, <3>4
  <2>4. QED
    BY <2>2, <2>3
<1>7. QED
  BY <1>4, <1>5, <1>6 DEF ReaderStep

(***************************************************************************)
(* No step disturbs the invariant.                                         *)
(***************************************************************************)
\* The parts that tell the sessions' numbers and the connections' terminals.
ViewsTyped ==
  /\ view \in [Viewers -> Connections]
  /\ \A v \in Viewers : Connected(v) => view[v].on \in Terminals

\* A chunk is printed on the shell's own PTY.
LEMMA PrintsKeeps ==
  ASSUME IInv, NEW t \in Terminals, Prints(t, t),
         UNCHANGED <<sessionVars, shell, readerVars, queue, view, down>>
  PROVE  IInv'
<1> USE DEF IInv
<1>1. /\ Chunk(t) \in Chunks /\ Chunk(t) \in Home(t) /\ printed[t] + 1 \in 0..MaxChunks
      /\ pty[t] \in Seq(Chunks) /\ pty[t] \in Seq(Home(t))
      /\ pty' = [pty EXCEPT ![t] = Append(pty[t], Chunk(t))]
      /\ printed' = [printed EXCEPT ![t] = printed[t] + 1]
  BY ChunkIsHome DEF Prints, TypeOK, AtHome
<1>2. Append(pty[t], Chunk(t)) \in Seq(Chunks) /\ Append(pty[t], Chunk(t)) \in Seq(Home(t))
  BY <1>1, AppendProperties
<1>3. TypeOK'
  BY <1>1, <1>2 DEF TypeOK, sessionVars, readerVars
<1>4. Wired' /\ DescriptorsOwned'
  BY DEF Wired, DescriptorsOwned, Connected, sessionVars, readerVars
<1>5. AtHome'
  BY <1>1, <1>2 DEF AtHome, Stopped, Stopping, sessionVars, readerVars, TypeOK, Home
<1>6. QED
  BY <1>3, <1>4, <1>5

\* The first part of _terminate.
LEMMA TerminatingKeeps ==
  ASSUME IInv, NEW t \in Terminals, stage[t] \in {"live", "doomed"}, Terminating(t),
         ViewsTyped', UNCHANGED down
  PROVE  IInv'
<1> USE DEF IInv, Terminating, readerVars
<1>1. TypeOK'
  BY DEF TypeOK, ViewsTyped
<1>2. Wired'
  BY DEF Wired, TypeOK, ViewsTyped
<1>3. DescriptorsOwned'
  BY TerminalsAreNumbers DEF DescriptorsOwned, TypeOK, Wired
<1>4. AtHome'
  BY DEF AtHome, Stopped, Stopping, TypeOK, Home
<1>5. QED
  BY <1>1, <1>2, <1>3, <1>4

\* What the pump does to its connection and to a queue.
LEMMA ViewKeeps ==
  ASSUME IInv, NEW t, OnlyAt(queue, queue', t, Seq(Messages)) \/ UNCHANGED queue,
         \A x \in Terminals : ~Stopped(x) => queue'[x] \in Seq(Home(x)),
         ViewsTyped', UNCHANGED <<sessionVars, shellVars, pty, readerVars, down>>
  PROVE  IInv'
<1> USE DEF IInv, sessionVars, shellVars, readerVars
<1>1. TypeOK'
  BY DEF TypeOK, ViewsTyped, OnlyAt, Messages
<1>2. Wired' /\ DescriptorsOwned'
  BY DEF Wired, DescriptorsOwned, ViewsTyped
<1>3. AtHome'
  BY DEF AtHome, Stopped, Stopping, Home
<1>4. QED
  BY <1>1, <1>2, <1>3

\* A connection that moves on keeps its terminal.
LEMMA StageKeeps ==
  ASSUME IInv, NEW v \in Viewers, view[v].on \in Terminals,
         NEW at \in {"refused", "streaming", "sending", "ended", "left", "closed"},
         Viewing(v, at)
  PROVE  ViewsTyped'
<1>1. view[v] \in Connections
  BY DEF IInv, TypeOK
<1>2. /\ view' \in [Viewers -> Connections]
      /\ view'[v].on = view[v].on /\ \A w \in Viewers \ {v} : view'[w] = view[w]
  BY <1>1 DEF IInv, TypeOK, Connections, Viewing
<1>3. QED
  BY <1>2 DEF IInv, ViewsTyped, Connected, Wired, Connections

LEMMA InvInit == Init => IInv
<1> SUFFICES ASSUME Init PROVE IInv
  OBVIOUS
<1>1. \A S : <<>> \in Seq(S)
  BY EmptySeq
<1>2. TypeOK
  <2>1. 0 \in 0..MaxChunks
    BY BoundsAssumption
  <2>2. /\ printed \in [Terminals -> 0..MaxChunks]
        /\ pty \in [Terminals -> Seq(Chunks)] /\ queue \in [Terminals -> Seq(Chunks \cup {End})]
    BY <1>1, <2>1 DEF Init
  <2>3. QED
    BY <2>2 DEF Init, TypeOK, Idle, Unconnected, Connections
<1>3. Wired /\ DescriptorsOwned
  BY TerminalsAreNumbers DEF Init, Wired, DescriptorsOwned, Idle, Unconnected, Connected, Numbers
<1>4. AtHome
  BY <1>1 DEF Init, AtHome, Idle
<1>5. QED
  BY <1>2, <1>3, <1>4 DEF IInv

LEMMA InvStep ==
  ASSUME IInv, [Next]_vars
  PROVE  IInv'
<1> USE DEF IInv, sessionVars, shellVars, readerVars
<1>1. CASE UNCHANGED vars
  <2>1. TypeOK'
    BY <1>1 DEF vars, TypeOK
  <2>2. Wired' /\ DescriptorsOwned'
    BY <1>1 DEF vars, Wired, Connected, DescriptorsOwned
  <2>3. AtHome'
    BY <1>1 DEF vars, AtHome, Stopped, Stopping, Home
  <2>4. QED
    BY <2>1, <2>2, <2>3
<1>2. ASSUME NEW t \in Terminals, NEW n \in Numbers, file[n] = NoTerminal, StartOn(t, n)
      PROVE  IInv'
  <2> USE DEF StartOn
  <2>1. TypeOK'
    BY <1>2 DEF TypeOK, Waiting
  <2>2. Wired'
    BY <1>2 DEF Wired, Connected, TypeOK, Waiting
  <2>3. DescriptorsOwned'
    BY <1>2, TerminalsAreNumbers DEF DescriptorsOwned, TypeOK
  <2>4. AtHome'
    BY <1>2 DEF AtHome, Stopped, Stopping, TypeOK, Home, Waiting
  <2>5. QED
    BY <2>1, <2>2, <2>3, <2>4
<1>3. ASSUME NEW t \in Terminals, Emit(t)
      PROVE  IInv'
  BY <1>3, PrintsKeeps DEF Emit
<1>4. ASSUME NEW t \in Terminals, Exit(t)
      PROVE  IInv'
  <2> USE DEF Exit
  <2>1. TypeOK'
    BY <1>4 DEF TypeOK
  <2>2. Wired' /\ DescriptorsOwned'
    BY <1>4 DEF Wired, Connected, DescriptorsOwned
  <2>3. AtHome'
    BY <1>4 DEF AtHome, Stopped, Stopping, Home
  <2>4. QED
    BY <2>1, <2>2, <2>3
<1>5. ASSUME NEW t \in Terminals, ReaderStep(t)
      PROVE  IInv'
  <2>0. UNCHANGED <<sessionVars, shellVars, view, down>>
    BY <1>5 DEF ReaderStep
  <2>1. /\ OnlyAt(queue, queue', t, Seq(Messages))
        /\ ~Stopped(t) => OnlyAt(queue, queue', t, Seq(Home(t)))
        /\ OnlyAt(task, task', t, {"none", "reading", "over"})
    BY <1>5, ReaderKeeps
  <2>2. PICK x \in [at : {"none", "waiting", "reading", "blocked"}, on : Terminals \cup {NoTerminal}] :
          /\ thread' = [thread EXCEPT ![t] = x]
          /\ x.at = "blocked" => x.on \in Terminals
          /\ x.at # "none" => stage[t] # "none"
          /\ ~Stopped(t) => x.on \in {t, NoTerminal}
    BY <1>5, ReaderKeeps
  <2>3. pty' \in [Terminals -> Seq(Chunks)] /\ \A u \in Terminals : pty'[u] \in Seq(Home(u))
    <3>1. CASE UNCHANGED pty
      BY <3>1 DEF TypeOK, AtHome
    <3>2. ASSUME NEW f \in Terminals, pty[f] # <<>>, pty' = [pty EXCEPT ![f] = Tail(@)]
          PROVE  <2>3!1 /\ <2>3!2
      <4>1. pty[f] \in Seq(Chunks) /\ pty[f] \in Seq(Home(f))
        BY DEF TypeOK, AtHome
      <4>2. Tail(pty[f]) \in Seq(Chunks) /\ Tail(pty[f]) \in Seq(Home(f))
        BY <3>2, <4>1, HeadTailProperties
      <4>3. QED
        BY <3>2, <4>2 DEF TypeOK, AtHome
    <3>3. QED
      BY <1>5, <3>1, <3>2, ReaderKeeps
  <2>4. TypeOK'
    <3>1. queue' \in [Terminals -> Seq(Messages)]
      BY <2>1 DEF TypeOK, OnlyAt, Messages
    <3>2. /\ thread' \in [Terminals -> [at : {"none", "waiting", "reading", "blocked"},
                                      on : Terminals \cup {NoTerminal}]]
          /\ task' \in [Terminals -> {"none", "reading", "over"}]
      BY <2>1, <2>2 DEF TypeOK, OnlyAt
    <3>3. QED
      BY <2>0, <2>3, <3>1, <3>2 DEF TypeOK, Messages
  <2>5. Wired' /\ DescriptorsOwned'
    BY <2>0, <2>2 DEF Wired, Connected, DescriptorsOwned, TypeOK
  <2>6. AtHome'
    <3>1. ASSUME NEW u \in Terminals, ~Stopped(u)
          PROVE  thread'[u].on \in {u, NoTerminal} /\ queue'[u] \in Seq(Home(u))
      BY <2>1, <2>2, <3>1 DEF AtHome, OnlyAt, TypeOK
    <3>2. \A u \in Terminals : Stopped(u)' = Stopped(u) /\ Home(u)' = Home(u)
      BY <2>0 DEF Stopped, Stopping, Home
    <3>3. QED
      BY <2>3, <3>1, <3>2 DEF AtHome
  <2>7. QED
    BY <2>4, <2>5, <2>6
<1>6. ASSUME NEW t \in Terminals, Stop(t) \/ TerminateNext(t)
      PROVE  IInv'
  <2>1. stage[t] \in {"live", "doomed"} /\ Terminating(t) /\ UNCHANGED <<view, down>>
    BY <1>6 DEF Stop, TerminateNext, InTable
  <2>2. ViewsTyped'
    BY <2>1 DEF ViewsTyped, TypeOK, Wired, Connected
  <2>3. QED
    BY <2>1, <2>2, TerminatingKeeps
<1>7. ASSUME NEW t \in Terminals, Kill(t)
      PROVE  IInv'
  <2> USE DEF Kill
  <2>1. TypeOK'
    BY <1>7 DEF TypeOK
  <2>2. Wired'
    BY <1>7 DEF Wired, Connected, TypeOK
  <2>3. DescriptorsOwned'
    BY <1>7 DEF DescriptorsOwned, TypeOK
  <2>4. AtHome'
    BY <1>7 DEF AtHome, Stopped, Stopping, Home, TypeOK
  <2>5. QED
    BY <2>1, <2>2, <2>3, <2>4
<1>8. ASSUME NEW t \in Terminals, Finish(t)
      PROVE  IInv'
  <2>0. /\ stage[t] \in {"grace", "killing"} /\ stage' = [stage EXCEPT ![t] = "gone"]
        /\ task' = [task EXCEPT ![t] = "over"]
        /\ UNCHANGED <<fd, file, shellVars, pty, thread, view, down>>
    BY <1>8 DEF Finish, CancelsReader
  <2>1. OnlyAt(queue, queue', t, Seq(Messages))
    <3>1. /\ queue[t] \in Seq(Messages) /\ <<>> \in Seq(Messages) /\ <<End>> \in Seq(Messages)
          /\ \A a, b \in Seq(Messages) : a \o b \in Seq(Messages)
      BY EndIsAnywhere, ConcatProperties DEF TypeOK, Messages
    <3>2. queue[t] \o (IF task[t] = "reading" THEN <<End>> ELSE <<>>) \o <<End>> \in Seq(Messages)
      BY <3>1
    <3>3. QED
      BY <1>8, <3>2 DEF Finish, CancelsReader, OnlyAt
  <2>2. TypeOK'
    BY <2>0, <2>1 DEF TypeOK, OnlyAt, Messages
  <2>3. Wired'
    BY <2>0 DEF Wired, Connected, TypeOK
  <2>4. DescriptorsOwned'
    BY <2>0 DEF DescriptorsOwned, TypeOK
  <2>5. AtHome'
    BY <2>0, <2>1 DEF AtHome, Stopped, Stopping, Home, TypeOK, OnlyAt
  <2>6. QED
    BY <2>2, <2>3, <2>4, <2>5
<1>9. CASE Shutdown
  <2> USE DEF Shutdown, InTable
  <2>1. TypeOK'
    BY <1>9 DEF TypeOK
  <2>2. Wired'
    BY <1>9 DEF Wired, Connected
  <2>3. DescriptorsOwned'
    BY <1>9 DEF DescriptorsOwned, TypeOK
  <2>4. AtHome'
    BY <1>9 DEF AtHome, Stopped, Stopping, Home
  <2>5. QED
    BY <2>1, <2>2, <2>3, <2>4
<1>10. ASSUME NEW v \in Viewers, NEW t \in Terminals, Connect(v, t)
       PROVE  IInv'
  <2>1. ViewsTyped'
    BY <1>10 DEF Connect, ViewsTyped, Connected, TypeOK, Wired, Connections
  <2>2. \A x \in Terminals : ~Stopped(x) => queue'[x] \in Seq(Home(x))
    BY <1>10 DEF Connect, AtHome
  <2>3. QED
    BY <1>10, <2>1, <2>2, ViewKeeps DEF Connect
<1>11. ASSUME NEW v \in Viewers, PumpStep(v)
       PROVE  IInv'
  <2> DEFINE t == view[v].on
             Took == /\ queue[t] # <<>> /\ queue' = [queue EXCEPT ![t] = Tail(@)]
  <2>1. /\ t \in Terminals
        /\ \E at \in {"refused", "streaming", "sending", "ended"} : Viewing(v, at)
        /\ UNCHANGED queue \/ Took
        /\ UNCHANGED <<sessionVars, shellVars, pty, readerVars, down>>
    BY <1>11 DEF PumpStep, Open, Take, Sent, Takes, Wired, Connected
  <2>2. ViewsTyped'
    <3>1. PICK at \in {"refused", "streaming", "sending", "ended"} : Viewing(v, at)
      BY <2>1
    <3>2. QED
      BY <2>1, <3>1, StageKeeps
  <2>3. CASE UNCHANGED queue
    <3>1. \A x \in Terminals : ~Stopped(x) => queue'[x] \in Seq(Home(x))
      BY <2>3 DEF AtHome
    <3>2. QED
      BY <2>1, <2>2, <2>3, <3>1, ViewKeeps
  <2>4. CASE Took
    <3>1. Tail(queue[t]) \in Seq(Messages) /\ (~Stopped(t) => Tail(queue[t]) \in Seq(Home(t)))
      BY <2>1, <2>4, HeadTailProperties DEF TypeOK, Messages, AtHome
    <3>2. OnlyAt(queue, queue', t, Seq(Messages))
      BY <2>4, <3>1 DEF OnlyAt
    <3>3. \A x \in Terminals : ~Stopped(x) => queue'[x] \in Seq(Home(x))
      BY <2>1, <2>4, <3>1 DEF AtHome, TypeOK
    <3>4. QED
      BY <2>1, <2>2, <3>2, <3>3, ViewKeeps
  <2>5. QED
    BY <2>1, <2>3, <2>4
<1>12. ASSUME NEW v \in Viewers, Write(v)
       PROVE  IInv'
  <2> DEFINE t == view[v].on
  <2>1. t \in Terminals /\ InTable(t)
    BY <1>12 DEF Write, Wired
  <2>2. Target(t) = t
    BY <2>1 DEF Target, DescriptorsOwned, Wired, InTable
  <2>3. QED
    BY <1>12, <2>1, <2>2, PrintsKeeps DEF Write
<1>13. ASSUME NEW v \in Viewers, Leave(v)
       PROVE  IInv'
  <2> DEFINE t == view[v].on
  <2>1. /\ t \in Terminals
        /\ \E at \in {"left", "closed"} : Viewing(v, at)
        /\ UNCHANGED down
    BY <1>13 DEF Leave, Wired
  <2>2. ViewsTyped'
    <3>1. PICK at \in {"left", "closed"} : Viewing(v, at)
      BY <2>1
    <3>2. QED
      BY <2>1, <3>1, StageKeeps
  <2>3. CASE InTable(t)
    BY <1>13, <2>1, <2>2, <2>3, TerminatingKeeps DEF Leave, InTable
  <2>4. CASE ~InTable(t)
    <3>1. UNCHANGED <<sessionVars, shellVars, pty, readerVars, queue>>
      BY <1>13, <2>4 DEF Leave
    <3>2. \A x \in Terminals : ~Stopped(x) => queue'[x] \in Seq(Home(x))
      BY <3>1 DEF AtHome
    <3>3. QED
      BY <2>1, <2>2, <3>1, <3>2, ViewKeeps
  <2>5. QED
    BY <2>3, <2>4
<1>14. ASSUME NEW v \in Viewers, AcceptFails(v)
       PROVE  IInv'
  <2>1. view[v].on \in Terminals /\ Viewing(v, "left")
    BY <1>14 DEF AcceptFails, Wired, Connected
  <2>2. ViewsTyped'
    BY <2>1, StageKeeps
  <2>3. \A x \in Terminals : ~Stopped(x) => queue'[x] \in Seq(Home(x))
    BY <1>14 DEF AcceptFails, AtHome
  <2>4. QED
    BY <1>14, <2>2, <2>3, ViewKeeps DEF AcceptFails
<1>15. QED
  BY <1>1, <1>2, <1>3, <1>4, <1>5, <1>6, <1>7, <1>8, <1>9, <1>10, <1>11, <1>12, <1>13, <1>14
     DEF Next, Start, TerminateStep

(***************************************************************************)
(* Results                                                                 *)
(***************************************************************************)
LEMMA Invariance == Spec => []IInv
BY InvInit, InvStep, PTL DEF Spec

\* Every variable keeps its type.
THEOREM TerminalTypeCorrect == Spec => []TypeOK
<1>1. IInv => TypeOK
  BY DEF IInv
<1>2. QED
  BY <1>1, Invariance, PTL

\* However starts, stops, disconnects and a shutdown interleave, and whatever
\* numbers are used again, each open descriptor is that of one session that
\* was not stopped, and each such session has one.
THEOREM TerminalDescriptors == Spec => []DescriptorsOwned
<1>1. IInv => DescriptorsOwned
  BY DEF IInv
<1>2. QED
  BY <1>1, Invariance, PTL

\* A terminal that is not stopped reads its own PTY and queues its own output,
\* whatever the threads of stopped terminals still hold.
THEOREM TerminalReadsOwn == Spec => []LiveReadsOwn
<1>1. ASSUME IInv, NEW t \in Terminals, ~Stopped(t), NEW i \in DOMAIN queue[t]
      PROVE  queue[t][i].of \in {t, NoTerminal}
  <2>1. queue[t] \in Seq(Home(t))
    BY <1>1 DEF IInv, AtHome
  <2>2. queue[t][i] \in Home(t)
    BY <2>1, ElementOfSeq, LenProperties
  <2>3. QED
    BY <2>2 DEF Home
<1>2. IInv => LiveReadsOwn
  BY <1>1 DEF IInv, AtHome, LiveReadsOwn
<1>3. QED
  BY <1>2, Invariance, PTL

(***************************************************************************)
(* The order of the output, and the end of the shells.                     *)
(***************************************************************************)
\* How much of what a shell has printed was read from its PTY.
Taken(u) == printed[u] - Len(pty[u])

\* A PTY holds the last chunks its shell has printed, without a gap.
PtyInOrder ==
  \A u \in Terminals :
    /\ Len(pty[u]) <= printed[u]
    /\ \A i \in 1..Len(pty[u]) : pty[u][i] = [of |-> u, nr |-> Taken(u) + i]

\* Chunks of one shell follow each other as they were printed.
Comes(a, b) == a.of = b.of /\ a # End => a.nr < b.nr
InOrder(q) == \A i, j \in DOMAIN q : i < j => Comes(q[i], q[j])
Content(q) == {q[i] : i \in DOMAIN q}

\* Every queue is in order and holds only what was read from a PTY, and no
\* chunk is in two of them.
OutputOnce ==
  \A t \in Terminals :
    /\ InOrder(queue[t])
    /\ \A e \in Content(queue[t]) : e # End => e.nr <= Taken(e.of)
    /\ \A s \in Terminals \ {t} : Content(queue[t]) \cap Content(queue[s]) \subseteq {End}

\* The shell of a session that was given up has exited or was sent SIGKILL.
Signalled ==
  \A t \in Terminals :
    /\ stage[t] \in {"killing", "gone"} => shell[t] \in {"killed", "exited"}
    /\ stage[t] = "grace" => shell[t] \in {"signalled", "exited"}

LEMMA MessageKinds ==
  /\ \A e \in Messages : e = End \/ (e \in Chunks /\ e.of \in Terminals /\ e.nr \in Nat)
  /\ \A e \in Messages : Comes(e, End)
  /\ End.of = NoTerminal
<1>1. \A e \in Chunks : e.of \in Terminals /\ e.nr \in Nat
  BY DEF Chunks
<1>2. End.of = NoTerminal
  BY DEF End
<1>3. QED
  BY <1>1, <1>2, TerminalsAreNumbers DEF Messages, Comes

\* Putting messages behind others.
LEMMA QueueGrows ==
  ASSUME NEW q \in Seq(Messages), NEW r \in Seq(Messages), InOrder(q), InOrder(r),
         \A a \in Content(q), b \in Content(r) : Comes(a, b)
  PROVE  /\ q \o r \in Seq(Messages) /\ InOrder(q \o r)
         /\ Content(q \o r) = Content(q) \cup Content(r)
<1>1. PICK l \in Nat, m \in Nat : /\ l = Len(q) /\ DOMAIN q = 1..l
                                 /\ m = Len(r) /\ DOMAIN r = 1..m
  BY LenProperties
<1>2. PICK u : u = q \o r
  OBVIOUS
<1>3. /\ u \in Seq(Messages) /\ DOMAIN u = 1..(l + m)
      /\ \A i \in 1..(l + m) : u[i] = IF i <= l THEN q[i] ELSE r[i - l]
  <2>1. /\ q \o r \in Seq(Messages) /\ Len(q \o r) = Len(q) + Len(r)
        /\ \A i \in 1..(Len(q) + Len(r)) : (q \o r)[i] = IF i <= Len(q) THEN q[i] ELSE r[i - Len(q)]
    BY ConcatProperties
  <2>2. u \in Seq(Messages) /\ Len(u) = l + m
    BY <1>1, <1>2, <2>1
  <2>3. DOMAIN u = 1..(l + m)
    BY <2>2, LenProperties
  <2>4. QED
    BY <1>1, <1>2, <2>1, <2>2, <2>3
<1>4. \A i \in 1..(l + m) : \/ i \in 1..l /\ u[i] = q[i]
                            \/ i - l \in 1..m /\ ~(i <= l) /\ u[i] = r[i - l]
  BY <1>3
<1>5. ASSUME NEW i \in 1..(l + m), NEW j \in 1..(l + m), i < j
      PROVE  Comes(u[i], u[j])
  <2>1. CASE i \in 1..l /\ j \in 1..l
    <3>1. u[i] = q[i] /\ u[j] = q[j]
      BY <1>3, <2>1
    <3>2. PICK a \in 1..l, b \in 1..l : a = i /\ b = j /\ a < b
      BY <1>5, <2>1
    <3>3. Comes(q[a], q[b])
      BY <1>1, <3>2 DEF InOrder
    <3>4. QED
      BY <3>1, <3>2, <3>3
  <2>2. CASE i \in 1..l /\ j - l \in 1..m /\ ~(j <= l)
    <3>1. q[i] \in Content(q) /\ r[j - l] \in Content(r)
      BY <1>1, <2>2 DEF Content
    <3>2. u[i] = q[i] /\ u[j] = r[j - l]
      BY <1>3, <2>2
    <3>3. QED
      BY <3>1, <3>2
  <2>3. CASE i - l \in 1..m /\ j - l \in 1..m /\ ~(i <= l)
    <3>1. i - l < j - l /\ ~(j <= l)
      BY <1>5, <2>3
    <3>2. u[i] = r[i - l] /\ u[j] = r[j - l]
      BY <1>3, <2>3, <3>1
    <3>3. PICK a \in 1..m, b \in 1..m : a = i - l /\ b = j - l /\ a < b
      BY <2>3, <3>1
    <3>4. Comes(r[a], r[b])
      BY <1>1, <3>3 DEF InOrder
    <3>5. QED
      BY <3>2, <3>3, <3>4
  <2>4. QED
    BY <1>4, <1>5, <2>1, <2>2, <2>3
<1>6. Content(u) = Content(q) \cup Content(r)
  <2>1. \A e \in Content(u) : e \in Content(q) \cup Content(r)
    BY <1>1, <1>3, <1>4 DEF Content
  <2>2. \A i \in 1..l : i \in 1..(l + m) /\ u[i] = q[i]
    BY <1>3
  <2>3. \A i \in 1..m : i + l \in 1..(l + m) /\ u[i + l] = r[i]
    <3>1. ASSUME NEW i \in 1..m
          PROVE  i + l \in 1..(l + m) /\ ~(i + l <= l) /\ (i + l) - l = i
      OBVIOUS
    <3>2. QED
      BY <1>3, <3>1
  <2>4. \A e \in Content(q) : e \in Content(u)
    BY <1>1, <1>3, <2>2 DEF Content
  <2>5. ASSUME NEW e \in Content(r)
        PROVE  e \in Content(u)
    <3>1. PICK i \in 1..m : e = r[i]
      BY <1>1, <2>5 DEF Content
    <3>2. PICK k \in 1..(l + m) : k = i + l /\ u[k] = e
      BY <2>3, <3>1
    <3>3. QED
      BY <1>3, <3>2 DEF Content
  <2>6. QED
    BY <2>1, <2>4, <2>5
<1>7. QED
  BY <1>2, <1>3, <1>5, <1>6 DEF InOrder

LEMMA QueueShrinks ==
  ASSUME NEW q \in Seq(Messages), q # <<>>, InOrder(q)
  PROVE  Tail(q) \in Seq(Messages) /\ InOrder(Tail(q)) /\ Content(Tail(q)) \subseteq Content(q)
<1>1. PICK l \in Nat : l = Len(q) /\ DOMAIN q = 1..l
  BY LenProperties
<1>2. /\ Tail(q) \in Seq(Messages) /\ DOMAIN Tail(q) = 1..(l - 1)
      /\ \A i \in 1..(l - 1) : Tail(q)[i] = q[i + 1] /\ i + 1 \in 1..l
  BY <1>1, HeadTailProperties, LenProperties
<1>3. ASSUME NEW i \in 1..(l - 1), NEW j \in 1..(l - 1), i < j
      PROVE  Comes(Tail(q)[i], Tail(q)[j])
  BY <1>1, <1>2, <1>3 DEF InOrder
<1>4. QED
  BY <1>1, <1>2, <1>3 DEF InOrder, Content

LEMMA OneMessage ==
  ASSUME NEW e \in Messages
  PROVE  <<e>> \in Seq(Messages) /\ InOrder(<<e>>) /\ Content(<<e>>) = {e}
<1>1. <<e>> \in Seq(Messages) /\ DOMAIN <<e>> = {1} /\ <<e>>[1] = e
  BY SMT
<1>2. QED
  BY <1>1 DEF InOrder, Content

LEMMA NoMessage == <<>> \in Seq(Messages) /\ InOrder(<<>>) /\ Content(<<>>) = {}
<1>1. <<>> \in Seq(Messages) /\ DOMAIN <<>> = {}
  BY SMT
<1>2. QED
  BY <1>1 DEF InOrder, Content

\* End markers may come behind anything.
LEMMA MarkerQueued ==
  ASSUME NEW q \in Seq(Messages), InOrder(q), NEW again \in BOOLEAN
  PROVE  LET r == q \o (IF again THEN <<>> ELSE <<End>>) IN
         r \in Seq(Messages) /\ InOrder(r) /\ Content(r) \subseteq Content(q) \cup {End}
<1>1. \A e \in Content(q) : e \in Messages
  BY ElementOfSeq, LenProperties DEF Content
<1>2. CASE again
  BY <1>2, NoMessage, QueueGrows
<1>3. CASE ~again
  <2>1. \A a \in Content(q), b \in {End} : Comes(a, b)
    BY <1>1, MessageKinds
  <2>2. <<End>> \in Seq(Messages) /\ InOrder(<<End>>) /\ Content(<<End>>) = {End}
    BY EndIsAnywhere, OneMessage
  <2>3. PICK e : e = <<End>>
    OBVIOUS
  <2>4. e \in Seq(Messages) /\ InOrder(e) /\ Content(e) = {End}
    BY <2>2, <2>3
  <2>5. \A a \in Content(q), b \in Content(e) : Comes(a, b)
    BY <2>1, <2>4
  <2>6. /\ q \o e \in Seq(Messages) /\ InOrder(q \o e)
        /\ Content(q \o e) = Content(q) \cup {End}
    BY <2>4, <2>5, QueueGrows
  <2>7. QED
    BY <1>3, <2>3, <2>6
<1>4. QED
  BY <1>2, <1>3

\* A queue takes new chunks, which were read from a PTY in this step.
LEMMA QueueKeeps ==
  ASSUME IInv, OutputOnce, NEW t \in Terminals, NEW q, NEW Fresh \in SUBSET Chunks,
         queue' = [queue EXCEPT ![t] = q], InOrder(q),
         Content(q) \subseteq Content(queue[t]) \cup Fresh \cup {End},
         \A u \in Terminals : Taken(u) \in Int /\ Taken(u)' \in Int /\ Taken(u) <= Taken(u)',
         \A e \in Fresh : Taken(e.of) < e.nr /\ e.nr <= Taken(e.of)'
  PROVE  OutputOnce'
<1>1. queue \in [Terminals -> Seq(Messages)]
  BY DEF IInv, TypeOK, Messages
<1>2. \A s \in Terminals : \A e \in Content(queue[s]) : e \in Messages
  BY <1>1, ElementOfSeq, LenProperties DEF Content
<1>3. queue'[t] = q /\ \A s \in Terminals \ {t} : queue'[s] = queue[s]
  BY <1>1
<1>4. \A e \in Chunks : e.of \in Terminals /\ e.nr \in Int /\ e # End
  BY TerminalsAreNumbers DEF Chunks, End
<1>5. \A s \in Terminals : \A e \in Content(queue[s]) : e # End => e \in Chunks /\ e.nr <= Taken(e.of)
  BY <1>2 DEF Messages, OutputOnce
<1>6. ASSUME NEW s \in Terminals, NEW e \in Content(queue[s]), e # End
      PROVE  e.nr <= Taken(e.of)' /\ e \notin Fresh
  BY <1>4, <1>5, <1>6
<1>7. ASSUME NEW e \in Content(q), e # End
      PROVE  e.nr <= Taken(e.of)'
  BY <1>6, <1>7
<1>8. \A s \in Terminals \ {t} : Content(q) \cap Content(queue[s]) \subseteq {End}
  BY <1>6 DEF OutputOnce
<1>9. ASSUME NEW s \in Terminals
      PROVE  /\ InOrder(queue'[s])
             /\ \A e \in Content(queue'[s]) : e # End => e.nr <= Taken(e.of)'
             /\ \A x \in Terminals \ {s} : Content(queue'[s]) \cap Content(queue'[x]) \subseteq {End}
  <2>1. CASE s = t
    BY <1>3, <1>7, <1>8, <2>1
  <2>2. CASE s # t
    BY <1>3, <1>6, <1>8, <2>2 DEF OutputOnce
  <2>3. QED
    BY <2>1, <2>2
<1>10. (\A s \in Terminals :
          /\ InOrder(queue[s])
          /\ \A e \in Content(queue[s]) : e # End => e.nr <= Taken(e.of)
          /\ \A x \in Terminals \ {s} : Content(queue[s]) \cap Content(queue[x]) \subseteq {End})'
       => OutputOnce'
  BY DEF OutputOnce
<1>11. QED
  BY <1>9, <1>10 DEF InOrder, Content

LEMMA TakenTyped == ASSUME TypeOK, NEW u \in Terminals PROVE Taken(u) \in Int
<1>1. printed[u] \in Nat /\ Len(pty[u]) \in Nat
  BY BoundsAssumption, LenProperties DEF TypeOK
<1>2. QED
  BY <1>1 DEF Taken

\* The job of a reader's thread returns with what it read.
LEMMA ReturnsInOrder ==
  ASSUME IInv, OutputOnce, NEW t \in Terminals, NEW c, Returns(t, c), NEW Fresh \in SUBSET Chunks,
         \/ c = <<>>
         \/ \E x \in Fresh : c = <<x>>,
         \A e \in Fresh : Taken(e.of) < e.nr /\ e.nr <= Taken(e.of)',
         \A u \in Terminals : Taken(u)' \in Int /\ Taken(u) <= Taken(u)'
  PROVE  OutputOnce'
<1>1. /\ queue \in [Terminals -> Seq(Messages)] /\ queue[t] \in Seq(Messages)
      /\ InOrder(queue[t])
      /\ \A e \in Content(queue[t]) : e # End => e.nr <= Taken(e.of)
  BY DEF IInv, TypeOK, Messages, OutputOnce
<1>2. \A u \in Terminals : Taken(u) \in Int
  BY TakenTyped DEF IInv
<1>3. CASE task[t] = "reading"
  <2> DEFINE again == c # <<>> /\ ~Stopped(t)
  <2>1. /\ queue[t] \o c \in Seq(Messages) /\ InOrder(queue[t] \o c)
        /\ Content(queue[t] \o c) \subseteq Content(queue[t]) \cup Fresh
    <3>1. CASE c = <<>>
      BY <1>1, <3>1, NoMessage, QueueGrows
    <3>2. ASSUME NEW x \in Fresh, c = <<x>>
          PROVE  <2>1
      <4>1. x \in Messages /\ x.of \in Terminals /\ x.nr \in Int
        BY DEF Messages, Chunks
      <4>2. c \in Seq(Messages) /\ InOrder(c) /\ Content(c) = {x}
        BY <3>2, <4>1, OneMessage
      <4>3. \A a \in Content(queue[t]) : a \in Messages
        BY <1>1, ElementOfSeq, LenProperties DEF Content
      <4>4. \A a \in Content(queue[t]) : Comes(a, x)
        BY <1>1, <1>2, <4>1, <4>3, MessageKinds DEF Comes
      <4>5. QED
        BY <1>1, <4>2, <4>4, QueueGrows
    <3>3. QED
      BY <3>1, <3>2
  <2>2. again \in BOOLEAN
    OBVIOUS
  <2>3. PICK q : q = queue[t] \o c \o (IF again THEN <<>> ELSE <<End>>)
    OBVIOUS
  <2>4. queue' = [queue EXCEPT ![t] = q]
    BY <1>3, <2>3 DEF Returns
  <2> HIDE DEF again
  <2>5. InOrder(q) /\ Content(q) \subseteq Content(queue[t]) \cup Fresh \cup {End}
    BY <2>1, <2>2, <2>3, MarkerQueued
  <2>6. QED
    BY <1>2, <2>4, <2>5, QueueKeeps
<1>4. CASE task[t] # "reading"
  <2>1. queue' = [queue EXCEPT ![t] = queue[t]]
    BY <1>1, <1>4 DEF Returns
  <2>2. QED
    BY <1>1, <1>2, <2>1, QueueKeeps
<1>5. QED
  BY <1>3, <1>4

\* Steps that leave what was printed and read alone.
LEMMA NoOutput ==
  ASSUME IInv, OutputOnce, PtyInOrder, UNCHANGED <<printed, pty>>,
         \/ UNCHANGED queue
         \/ \E t \in Terminals : \E q :
              /\ queue' = [queue EXCEPT ![t] = q] /\ InOrder(q)
              /\ Content(q) \subseteq Content(queue[t]) \cup {End}
  PROVE  OutputOnce' /\ PtyInOrder'
<1>1. \A u \in Terminals : Taken(u) \in Int /\ Taken(u)' = Taken(u)
  BY TakenTyped DEF IInv, Taken
<1>2. PtyInOrder'
  BY DEF PtyInOrder, Taken
<1>3. CASE UNCHANGED queue
  <2>1. \A s \in Terminals : /\ InOrder(queue[s])' = InOrder(queue[s])
                             /\ Content(queue[s])' = Content(queue[s])
    BY <1>3 DEF InOrder, Content
  <2>2. ASSUME NEW s \in Terminals, NEW e \in Content(queue[s]), e # End
        PROVE  e.nr <= Taken(e.of)'
    BY <2>2 DEF OutputOnce, Taken
  <2>3. ASSUME NEW s \in Terminals
        PROVE  InOrder(queue[s])' /\ \A x \in Terminals \ {s} :
                 Content(queue[s])' \cap Content(queue[x])' \subseteq {End}
    BY <2>1 DEF OutputOnce
  <2>4. (\A s \in Terminals :
           /\ InOrder(queue[s])
           /\ \A e \in Content(queue[s]) : e # End => e.nr <= Taken(e.of)
           /\ \A x \in Terminals \ {s} : Content(queue[s]) \cap Content(queue[x]) \subseteq {End})'
         => OutputOnce'
    BY DEF OutputOnce
  <2>5. \A s \in Terminals : \A e \in Content(queue[s])' : e # End => e.nr <= Taken(e.of)'
    BY <2>1, <2>2
  <2>6. QED
    BY <1>2, <2>3, <2>4, <2>5
<1>4. ASSUME NEW t \in Terminals, NEW q,
             queue' = [queue EXCEPT ![t] = q], InOrder(q),
             Content(q) \subseteq Content(queue[t]) \cup {End}
      PROVE  OutputOnce'
  <2>1. Content(q) \subseteq Content(queue[t]) \cup {} \cup {End} /\ {} \in SUBSET Chunks
    BY <1>4
  <2>2. \A u \in Terminals : Taken(u) \in Int /\ Taken(u)' \in Int /\ Taken(u) <= Taken(u)'
    BY <1>1
  <2>3. \A e \in {} : Taken(e.of) < e.nr /\ e.nr <= Taken(e.of)'
    OBVIOUS
  <2>4. QED
    BY <1>4, <2>1, <2>2, <2>3, QueueKeeps
<1>5. QED
  BY <1>2, <1>3, <1>4

\* A shell prints on its own PTY.
LEMMA PrintsInOrder ==
  ASSUME IInv, OutputOnce, PtyInOrder, NEW t \in Terminals, Prints(t, t), UNCHANGED queue
  PROVE  OutputOnce' /\ PtyInOrder'
<1>1. PICK p \in Nat : p = printed[t]
  BY BoundsAssumption DEF IInv, TypeOK
<1>2. PICK s \in Seq(Chunks) : s = pty[t]
  BY DEF IInv, TypeOK
<1>3. PICK l \in Nat : l = Len(s)
  BY LenProperties
<1>4. Chunk(t) \in Chunks /\ Chunk(t) = [of |-> t, nr |-> p + 1]
  BY <1>1, ChunkIsHome DEF Prints, IInv, Chunk
<1>5. PICK r : r = Append(s, Chunk(t))
  OBVIOUS
<1>6. /\ pty' = [pty EXCEPT ![t] = r] /\ pty'[t] = r
      /\ printed' = [printed EXCEPT ![t] = p + 1] /\ printed'[t] = p + 1
      /\ \A u \in Terminals \ {t} : pty'[u] = pty[u] /\ printed'[u] = printed[u]
  BY <1>1, <1>2, <1>5 DEF Prints, IInv, TypeOK
<1>7. Len(r) = l + 1 /\ \A i \in 1..l : r[i] = s[i] /\ r[l + 1] = Chunk(t)
  BY <1>3, <1>4, <1>5, AppendProperties
<1>8. r[l + 1] = Chunk(t)
  BY <1>3, <1>4, <1>5, AppendProperties
<1>9. Taken(t) = p - l /\ Taken(t)' = p - l
  BY <1>1, <1>2, <1>3, <1>6, <1>7 DEF Taken
<1>10. \A u \in Terminals : Taken(u) \in Int /\ Taken(u)' = Taken(u)
  BY <1>6, <1>9, TakenTyped DEF IInv, Taken
<1>11. OutputOnce'
  <2>1. /\ \A s1 \in Terminals : \A e \in Content(queue[s1]) : e # End => e.of \in Terminals
    <3>1. \A s1 \in Terminals : \A e \in Content(queue[s1]) : e \in Messages
      BY ElementOfSeq, LenProperties DEF IInv, TypeOK, Content, Messages
    <3>2. QED
      BY <3>1, MessageKinds
  <2>2. QED
    <3>1. \A s1 \in Terminals : /\ InOrder(queue[s1])' = InOrder(queue[s1])
                                /\ Content(queue[s1])' = Content(queue[s1])
      BY DEF InOrder, Content
    <3>2. ASSUME NEW s1 \in Terminals, NEW e \in Content(queue[s1]), e # End
          PROVE  e.nr <= Taken(e.of)'
      BY <1>10, <2>1, <3>2 DEF OutputOnce
    <3>3. QED
      BY <3>1, <3>2 DEF OutputOnce
<1>12. ASSUME NEW u \in Terminals
       PROVE  /\ Len(pty'[u]) <= printed'[u]
              /\ \A i \in 1..Len(pty'[u]) : pty'[u][i] = [of |-> u, nr |-> Taken(u)' + i]
  <2>1. CASE u # t
    BY <1>6, <1>10, <2>1 DEF PtyInOrder
  <2>2. CASE u = t
    <3>1. l <= p /\ \A i \in 1..l : s[i] = [of |-> t, nr |-> (p - l) + i]
      BY <1>1, <1>2, <1>3, <1>9 DEF PtyInOrder
    <3>2. (p - l) + (l + 1) = p + 1
      OBVIOUS
    <3>3. ASSUME NEW i \in 1..(l + 1) PROVE r[i] = [of |-> t, nr |-> (p - l) + i]
      <4>1. CASE i = l + 1
        BY <1>4, <1>8, <3>2, <4>1
      <4>2. CASE i # l + 1
        <5>1. i \in 1..l
          BY <4>2
        <5>2. QED
          BY <1>7, <3>1, <5>1
      <4>3. QED
        BY <4>1, <4>2
    <3>4. QED
      BY <1>6, <1>7, <1>9, <2>2, <3>1, <3>3
  <2>3. QED
    BY <2>1, <2>2
<1>13. PtyInOrder'
  BY <1>12 DEF PtyInOrder, Taken
<1>14. QED
  BY <1>11, <1>13

\* The reader moves a chunk from a PTY to its queue, or drops it.
LEMMA ReaderInOrder ==
  ASSUME IInv, OutputOnce, PtyInOrder, NEW t \in Terminals, ReaderStep(t)
  PROVE  OutputOnce' /\ PtyInOrder'
<1>1. UNCHANGED printed
  BY DEF ReaderStep, shellVars
<1>2. \A u \in Terminals : Taken(u) \in Int
  BY TakenTyped DEF IInv
<1>3. CASE Returns(t, <<>>) /\ UNCHANGED pty
  <2>1. \A u \in Terminals : Taken(u)' = Taken(u)
    BY <1>1, <1>3 DEF Taken
  <2>2. PICK c : c = <<>> /\ Returns(t, c)
    BY <1>3
  <2>3. {} \in SUBSET Chunks /\ \A e \in {} : Taken(e.of) < e.nr /\ e.nr <= Taken(e.of)'
    OBVIOUS
  <2>4. \A u \in Terminals : Taken(u)' \in Int /\ Taken(u) <= Taken(u)'
    BY <1>2, <2>1
  <2>5. OutputOnce'
    BY <2>2, <2>3, <2>4, ReturnsInOrder
  <2>6. PtyInOrder'
    BY <1>1, <1>3 DEF PtyInOrder, Taken
  <2>7. QED
    BY <2>5, <2>6
<1>4. ASSUME NEW x, Moves(t, x), UNCHANGED pty
      PROVE  OutputOnce' /\ PtyInOrder'
  BY <1>1, <1>4, NoOutput DEF Moves
<1>5. CASE Selected(t) \/ Read(t)
  BY <1>3, <1>4, <1>5 DEF Selected, Read
<1>6. CASE ReadEnds(t)
  <2>1. PICK f \in Terminals : f = thread[t].on
    BY <1>6 DEF ReadEnds, IInv, Wired
  <2>2. CASE pty[f] = <<>>
    BY <1>3, <1>6, <2>1, <2>2 DEF ReadEnds
  <2>3. CASE pty[f] # <<>>
    <3>1. PICK s \in Seq(Chunks) : s = pty[f]
      BY <2>1 DEF IInv, TypeOK
    <3>2. PICK l \in Nat : l = Len(s) /\ l # 0
      BY <2>3, <3>1, LenProperties, EmptySeq
    <3>3. PICK p \in Nat : p = printed[f]
      BY <2>1, BoundsAssumption DEF IInv, TypeOK
    <3>4. PICK x : x = Head(s)
      OBVIOUS
    <3>5. PICK r : r = Tail(s)
      OBVIOUS
    <3>6. Returns(t, <<x>>) /\ pty' = [pty EXCEPT ![f] = r]
      BY <1>6, <2>1, <2>3, <3>1, <3>4, <3>5 DEF ReadEnds
    <3>7. /\ x \in Chunks /\ x = s[1]
          /\ Len(r) = l - 1 /\ \A i \in 1..(l - 1) : r[i] = s[i + 1]
      BY <2>3, <3>1, <3>2, <3>4, <3>5, HeadTailProperties
    <3>8. l <= p /\ \A i \in 1..l : s[i] = [of |-> f, nr |-> (p - l) + i]
      BY <2>1, <3>1, <3>2, <3>3 DEF PtyInOrder, Taken
    <3>9. x = [of |-> f, nr |-> (p - l) + 1]
      <4>1. 1 \in 1..l
        BY <3>2
      <4>2. s[1] = [of |-> f, nr |-> (p - l) + 1]
        BY <3>8, <4>1
      <4>3. QED
        BY <3>7, <4>2
    <3>10. pty'[f] = r /\ \A u \in Terminals \ {f} : pty'[u] = pty[u]
      BY <2>1, <3>6 DEF IInv, TypeOK
    <3>11. /\ Taken(f) = p - l /\ Taken(f)' = p - l + 1
           /\ \A u \in Terminals \ {f} : Taken(u)' = Taken(u)
      <4>1. Taken(f)' = p - Len(r)
        BY <1>1, <3>3, <3>10 DEF Taken
      <4>2. Len(r) = l - 1 /\ p - (l - 1) = p - l + 1
        BY <3>7
      <4>3. QED
        BY <1>1, <3>1, <3>2, <3>3, <3>10, <4>1, <4>2 DEF Taken
    <3>12. \A u \in Terminals : Taken(u)' \in Int /\ Taken(u) <= Taken(u)'
      BY <1>2, <3>11
    <3>13. OutputOnce'
      <4>1. {x} \in SUBSET Chunks /\ \A e \in {x} : Taken(e.of) < e.nr /\ e.nr <= Taken(e.of)'
        BY <3>7, <3>9, <3>11
      <4>2. PICK c : c = <<x>> /\ Returns(t, c) /\ \E y \in {x} : c = <<y>>
        BY <3>6
      <4>3. QED
        BY <3>12, <4>1, <4>2, ReturnsInOrder
    <3>14. ASSUME NEW u \in Terminals
           PROVE  /\ Len(pty'[u]) <= printed'[u]
                  /\ \A i \in 1..Len(pty'[u]) : pty'[u][i] = [of |-> u, nr |-> Taken(u)' + i]
      <4>1. CASE u # f
        BY <1>1, <3>10, <3>11, <4>1 DEF PtyInOrder
      <4>2. CASE u = f
        <5>1. ASSUME NEW i \in 1..(l - 1)
              PROVE  r[i] = [of |-> f, nr |-> (p - l + 1) + i]
          <6>1. i + 1 \in 1..l /\ (p - l) + (i + 1) = (p - l + 1) + i
            OBVIOUS
          <6>2. QED
            BY <3>7, <3>8, <6>1
        <5>2. QED
          BY <1>1, <3>2, <3>3, <3>7, <3>8, <3>10, <3>11, <4>2, <5>1
      <4>3. QED
        BY <4>1, <4>2
    <3>15. PtyInOrder'
      BY <3>14 DEF PtyInOrder, Taken
    <3>16. QED
      BY <3>13, <3>15
  <2>4. QED
    BY <2>2, <2>3
<1>7. QED
  BY <1>5, <1>6 DEF ReaderStep

LEMMA OrderInit == Init => OutputOnce /\ PtyInOrder /\ Signalled
<1> SUFFICES ASSUME Init PROVE OutputOnce /\ PtyInOrder /\ Signalled
  OBVIOUS
<1>1. \A t \in Terminals : queue[t] = <<>> /\ pty[t] = <<>> /\ printed[t] = 0 /\ stage[t] = "none"
  BY DEF Init
<1>2. OutputOnce
  BY <1>1, NoMessage DEF OutputOnce
<1>3. PtyInOrder /\ Signalled
  BY <1>1, EmptySeq DEF PtyInOrder, Signalled
<1>4. QED
  BY <1>2, <1>3

LEMMA OrderStep == IInv /\ OutputOnce /\ PtyInOrder /\ [Next]_vars => OutputOnce' /\ PtyInOrder'
<1> SUFFICES ASSUME IInv, OutputOnce, PtyInOrder, [Next]_vars PROVE OutputOnce' /\ PtyInOrder'
  OBVIOUS
<1>1. CASE UNCHANGED <<printed, pty, queue>>
  BY <1>1, NoOutput
<1>2. ASSUME NEW t \in Terminals, Finish(t)
      PROVE  OutputOnce' /\ PtyInOrder'
  <2> DEFINE reading == task[t] = "reading"
             m == IF reading THEN <<End>> ELSE <<>>
             notReading == ~reading
  <2>1. queue[t] \in Seq(Messages) /\ InOrder(queue[t])
    BY DEF IInv, TypeOK, Messages, OutputOnce
  <2>2. PICK a : a = queue[t] \o m
    OBVIOUS
  <2>3. a = queue[t] \o (IF notReading THEN <<>> ELSE <<End>>) /\ notReading \in BOOLEAN
    BY <2>2
  <2> HIDE DEF notReading
  <2>4. a \in Seq(Messages) /\ InOrder(a) /\ Content(a) \subseteq Content(queue[t]) \cup {End}
    BY <2>1, <2>3, MarkerQueued
  <2>5. PICK q : q = a \o <<End>>
    OBVIOUS
  <2>6. q = a \o (IF FALSE THEN <<>> ELSE <<End>>) /\ FALSE \in BOOLEAN
    BY <2>5
  <2>7. InOrder(q) /\ Content(q) \subseteq Content(a) \cup {End}
    BY <2>4, <2>6, MarkerQueued
  <2>8. queue' = [queue EXCEPT ![t] = q] /\ UNCHANGED <<printed, pty>>
    BY <1>2, <2>2, <2>5 DEF Finish, CancelsReader, shellVars
  <2>9. QED
    BY <2>4, <2>7, <2>8, NoOutput
<1>3. ASSUME NEW v \in Viewers, PumpStep(v)
      PROVE  OutputOnce' /\ PtyInOrder'
  <2> DEFINE t == view[v].on
  <2>1. /\ t \in Terminals /\ UNCHANGED <<printed, pty>>
        /\ UNCHANGED queue \/ (queue[t] # <<>> /\ queue' = [queue EXCEPT ![t] = Tail(@)])
    BY <1>3 DEF PumpStep, Open, Take, Sent, Takes, Connected, IInv, Wired, shellVars
  <2>2. queue[t] \in Seq(Messages) /\ InOrder(queue[t])
    BY <2>1 DEF IInv, TypeOK, Messages, OutputOnce
  <2>3. QED
    BY <2>1, <2>2, QueueShrinks, NoOutput
<1>4. ASSUME NEW t \in Terminals, Emit(t)
      PROVE  OutputOnce' /\ PtyInOrder'
  BY <1>4, PrintsInOrder DEF Emit
<1>5. ASSUME NEW v \in Viewers, Write(v)
      PROVE  OutputOnce' /\ PtyInOrder'
  <2> DEFINE t == view[v].on
  <2>1. t \in Terminals /\ InTable(t)
    BY <1>5 DEF Write, IInv, Wired
  <2>2. Target(t) = t
    BY <2>1 DEF Target, DescriptorsOwned, Wired, InTable, IInv
  <2>3. QED
    BY <1>5, <2>1, <2>2, PrintsInOrder DEF Write
<1>6. ASSUME \/ \E t \in Terminals : Start(t) \/ Exit(t) \/ Stop(t) \/ Kill(t) \/ TerminateNext(t)
             \/ \E v \in Viewers : AcceptFails(v) \/ Leave(v) \/ \E t \in Terminals : Connect(v, t)
             \/ Shutdown \/ UNCHANGED vars
      PROVE  UNCHANGED <<printed, pty, queue>>
  BY <1>6 DEF Start, StartOn, Exit, Stop, Kill, TerminateNext, Terminating, AcceptFails, Leave,
              Connect, Shutdown, shellVars, vars
<1>7. QED
  BY <1>1, <1>2, <1>3, <1>4, <1>5, <1>6, ReaderInOrder DEF Next, TerminateStep

LEMMA SignalledStep == IInv /\ Signalled /\ [Next]_vars => Signalled'
<1> SUFFICES ASSUME IInv, Signalled, [Next]_vars PROVE Signalled'
  OBVIOUS
<1> USE DEF sessionVars, shellVars, readerVars
<1>1. CASE UNCHANGED <<stage, shell>>
  BY <1>1 DEF Signalled
<1>2. ASSUME NEW t \in Terminals, Terminating(t)
      PROVE  Signalled'
  <2>1. shell[t] # "none" => shell'[t] \in {"signalled", "exited"}
    BY <1>2 DEF Terminating, IInv, TypeOK
  <2>2. shell'[t] \in {"signalled", "exited"}
    BY <1>2 DEF Terminating, IInv, TypeOK
  <2>3. QED
    BY <1>2, <2>2 DEF Terminating, IInv, TypeOK, Signalled
<1>3. ASSUME NEW t \in Terminals, Start(t) \/ Exit(t) \/ Kill(t) \/ Finish(t)
      PROVE  Signalled'
  BY <1>3 DEF Start, StartOn, Exit, Kill, Finish, CancelsReader, IInv, TypeOK, Signalled
<1>4. CASE Shutdown
  BY <1>4 DEF Shutdown, InTable, Signalled
<1>5. ASSUME \/ \E t \in Terminals : Emit(t) \/ ReaderStep(t)
             \/ \E v \in Viewers :
                  PumpStep(v) \/ AcceptFails(v) \/ Write(v) \/ \E t \in Terminals : Connect(v, t)
             \/ UNCHANGED vars
      PROVE  UNCHANGED <<stage, shell>>
  BY <1>5 DEF Emit, ReaderStep, PumpStep, Open, Take, Sent, AcceptFails, Write, Connect, vars
<1>6. ASSUME NEW v \in Viewers, Leave(v)
      PROVE  Signalled'
  <2>1. view[v].on \in Terminals
    BY <1>6 DEF Leave, IInv, Wired
  <2>2. QED
    BY <1>1, <1>2, <1>6, <2>1 DEF Leave
<1>7. QED
  BY <1>1, <1>2, <1>3, <1>4, <1>5, <1>6 DEF Next, TerminateStep, Stop, TerminateNext

LEMMA OrderInvariance == Spec => [](IInv /\ OutputOnce /\ PtyInOrder /\ Signalled)
<1>1. Init => IInv /\ OutputOnce /\ PtyInOrder /\ Signalled
  BY InvInit, OrderInit
<1>2. /\ IInv /\ OutputOnce /\ PtyInOrder /\ Signalled /\ [Next]_vars
        => (IInv /\ OutputOnce /\ PtyInOrder /\ Signalled)'
  BY InvStep, OrderStep, SignalledStep
<1>3. QED
  BY <1>1, <1>2, PTL DEF Spec

\* Although the threads of stopped terminals may read what is not theirs, no
\* chunk is queued twice, and what a queue holds of one shell is in the order
\* in which the shell printed it (os_terminal.py:275-334).
THEOREM TerminalOutputOnce == Spec => []OutputOnce
BY OrderInvariance, PTL

\* No session is given up while its shell runs unsignalled: when _terminate is
\* over the shell has exited or was sent SIGKILL, whoever called it.
THEOREM TerminalShellsEnd ==
  Spec => [](\A t \in Terminals : stage[t] = "gone" => shell[t] \in {"killed", "exited"})
<1>1. Signalled => \A t \in Terminals : stage[t] = "gone" => shell[t] \in {"killed", "exited"}
  BY DEF Signalled
<1>2. QED
  BY <1>1, OrderInvariance, PTL
====
