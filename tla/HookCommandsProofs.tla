------------------------- MODULE HookCommandsProofs -------------------------
(***************************************************************************)
(* Theorems about HookCommands, for every set of reservations, every        *)
(* configuration and every size of the queue: a child that is not watched   *)
(* any more has been sent both signals; a handler announces an event once;  *)
(* a deletion that was held is announced after the end of its recording.    *)
(***************************************************************************)
EXTENDS HookCommands, SequenceTheorems, TLAPS

Jobs == [stage : {"new", "open", "settled", "finalized", "released"}, prep : BOOLEAN,
         child : {"none", "alive", "gone"}, timedOut : BOOLEAN, timers : SUBSET Timers,
         signals : SUBSET {"SIGINT", "SIGKILL"}]

\* The variables have the values that the code can give them; hookCommandMaxPending is kept.
TypeOK ==
    /\ row \in [Reserves -> BOOLEAN] /\ past \in [Reserves -> BOOLEAN]
    /\ recording \in [Reserves -> {"waiting", "running", "tagging", "over"}]
    /\ starting \subseteq Reserves /\ held \subseteq Reserves
    /\ waited \in [Reserves -> {"no", "held", "limit"}]
    /\ offered \in Seq(Commands) /\ queue \in Seq(Commands) /\ Len(queue) <= MaxPending
    /\ running \in Commands \cup {None} /\ active \in Commands \cup {None}
    /\ job \in [Commands -> Jobs]

-----------------------------------------------------------------------------
(* The inductive invariant. *)

Current == {"open", "settled", "finalized"}
BothSignals == {"SIGINT", "SIGKILL"}

\* What the stage of a job says of its child and its timers: the deadline runs until the
\* command is settled, the kill timer only after both signals.
JobFits(j) ==
    /\ j.stage = "new" => ~j.prep /\ j.child = "none"
    /\ j.prep => j.child = "none"
    /\ j.child = "alive" /\ j.stage \notin {"open", "settled"} => j.signals = BothSignals
    /\ j.stage \notin {"open", "settled"} => j.timers = {}
    /\ "deadline" \in j.timers => j.stage = "open"
    /\ "termination" \in j.timers => j.stage = "settled" /\ "SIGINT" \in j.signals
    /\ "kill" \in j.timers => j.stage = "settled" /\ j.signals = BothSignals

\* The job that is under way is that of the active command, whose promise is the one
\* PromiseQueue waits for.
JobInv ==
    /\ running = active
    /\ \A c \in Commands : JobFits(job[c]) /\ (job[c].stage \in Current <=> active = c)

\* A command is in a sequence of commands.
Has(s, c) == \E i \in 1 .. Len(s) : s[i] = c

\* What has been announced of a reservation, and what is still to be announced.
Announced(r) ==
    /\ recording[r] = "waiting" => r \notin starting
    /\ recording[r] = "waiting" \/ r \in starting => ~Has(offered, <<"start", r>>)
    /\ Has(offered, <<"end", r>>) => recording[r] = "over"
    /\ Has(offered, <<"delete", r>>) => ~row[r] /\ r \notin held
    /\ r \in held => ~row[r] /\ waited[r] = "held"
    /\ waited[r] = "held" /\ r \notin held => recording[r] = "over"
    /\ row[r] => waited[r] = "no"

\* No command is offered twice.
OfferedOnce ==
    \A i, j \in 1 .. Len(offered) : offered[i] = offered[j] => i = j

EventInv == OfferedOnce /\ HeldDeletionOrder /\ \A r \in Reserves : Announced(r)

\* A command that waits in the queue has not been run: StartCommand never takes the job of a
\* child that may still live.
QueueIsFresh ==
    /\ \A i \in 1 .. Len(queue) :
          /\ Has(offered, queue[i]) /\ job[queue[i]].stage = "new"
          /\ \A j \in 1 .. Len(queue) : queue[i] = queue[j] => i = j
    /\ \A c \in Commands : job[c].stage # "new" => Has(offered, c)

IInv == TypeOK /\ JobInv /\ EventInv /\ QueueIsFresh

-----------------------------------------------------------------------------
(* Running commands. *)

\* Fresh, Finalized and TimedOut keep the type of a job.
LEMMA JobTypes ==
    /\ Fresh \in Jobs
    /\ \A j \in Jobs : Finalized(j) \in Jobs /\ TimedOut(j) \in Jobs
<1>1. Fresh \in Jobs
  BY DEF Fresh, Jobs, Timers
<1>2. ASSUME NEW j \in Jobs PROVE Finalized(j) \in Jobs
  BY DEF Finalized, Jobs
<1>3. ASSUME NEW j \in Jobs PROVE TimedOut(j) \in Jobs
  BY <1>2 DEF TimedOut, Finalized, Jobs, Timers
<1> QED BY <1>1, <1>2, <1>3

\* A job is not a new one again, and it fits; the job has left the current one only if it
\* is released.
Advances(c, new) ==
    /\ new \in Jobs /\ JobFits(new)
    /\ job[c].stage # "new" /\ new.stage # "new"
    /\ new.stage \in Current <=> job[c].stage \in Current

\* The steps of one job that leave the command active or let it rest.
LEMMA JobAdvances ==
    ASSUME TypeOK, JobInv, NEW c \in Commands, NEW new, Advances(c, new),
           job' = [job EXCEPT ![c] = new], UNCHANGED <<running, active>>
    PROVE  /\ job' \in [Commands -> Jobs] /\ JobInv'
           /\ \A d \in Commands : job'[d].stage = "new" <=> job[d].stage = "new"
<1>1. job' \in [Commands -> Jobs]
  BY DEF TypeOK, Advances
<1>2. ASSUME NEW d \in Commands
      PROVE  /\ JobFits(job'[d]) /\ (job'[d].stage \in Current <=> active' = d)
             /\ job'[d].stage = "new" <=> job[d].stage = "new"
  <2>1. CASE d = c
    BY <2>1 DEF TypeOK, JobInv, Advances
  <2>2. CASE d # c
    BY <2>2 DEF TypeOK, JobInv
  <2> QED BY <2>1, <2>2
<1> QED BY <1>1, <1>2 DEF JobInv

\* A preparation ends, with or without a child; a child exits; a timer fires.
LEMMA JobMiddle ==
    ASSUME TypeOK, JobInv, NEW c \in Commands,
           \/ PreparationEnds(c) \/ Spawn(c) \/ ChildExit(c)
           \/ \E timer \in Timers : TimerFires(c, timer)
    PROVE  /\ job' \in [Commands -> Jobs] /\ JobInv'
           /\ \A d \in Commands : job'[d].stage = "new" <=> job[d].stage = "new"
           /\ UNCHANGED <<events, offered, queue, running, active>>
<1> DEFINE j == job[c]
<1>0. UNCHANGED <<events, offered, queue, running, active>>
  BY DEF PreparationEnds, Spawn, ChildExit, TimerFires
<1>1. j \in Jobs /\ JobFits(j) /\ (j.stage \in Current <=> active = c)
  BY DEF TypeOK, JobInv
<1>2. ASSUME NEW new, job' = [job EXCEPT ![c] = new], Advances(c, new)
      PROVE  /\ job' \in [Commands -> Jobs] /\ JobInv'
             /\ \A d \in Commands : job'[d].stage = "new" <=> job[d].stage = "new"
  BY <1>0, <1>2, JobAdvances
<1>3. CASE PreparationEnds(c)
  <2> DEFINE new == IF CanSettle(c) THEN [Finalized(j) EXCEPT !.prep = FALSE]
                                    ELSE [j EXCEPT !.prep = FALSE]
  <2>1. job' = [job EXCEPT ![c] = new] /\ j.prep
    BY <1>3 DEF PreparationEnds
  <2>2. new \in Jobs
    BY <1>1 DEF Finalized, Jobs
  <2>3. Advances(c, new)
    BY <1>1, <2>1, <2>2 DEF Advances, JobFits, CanSettle, Finalized, Jobs, Current
  <2> HIDE DEF new
  <2> QED BY <1>0, <1>2, <2>1, <2>3
<1>4. CASE Spawn(c)
  <2>1. PICK exited \in BOOLEAN : job' = [job EXCEPT ![c] =
            IF exited THEN [Finalized(j) EXCEPT !.prep = FALSE, !.child = "gone"]
                      ELSE [j EXCEPT !.prep = FALSE, !.child = "alive"]]
    BY <1>4 DEF Spawn
  <2>2. j.prep /\ j.stage = "open"
    BY <1>4 DEF Spawn, IsPreparingCommand, CanSettle
  <2> DEFINE new == IF exited THEN [Finalized(j) EXCEPT !.prep = FALSE, !.child = "gone"]
                              ELSE [j EXCEPT !.prep = FALSE, !.child = "alive"]
  <2>3. new \in Jobs
    BY <1>1 DEF Finalized, Jobs
  <2>5. job' = [job EXCEPT ![c] = new]
    BY <2>1
  <2>4. Advances(c, new)
    BY <1>1, <2>2, <2>3 DEF Advances, JobFits, Finalized, Jobs, Current
  <2> HIDE DEF new
  <2> QED BY <1>0, <1>2, <2>4, <2>5
<1>5. CASE ChildExit(c)
  <2> DEFINE new == [(IF j.timedOut \/ CanSettle(c) THEN Finalized(j) ELSE j) EXCEPT !.child = "gone"]
  <2>1. job' = [job EXCEPT ![c] = new] /\ j.child = "alive"
    BY <1>5 DEF ChildExit
  <2>2. new \in Jobs
    BY <1>1 DEF Finalized, Jobs
  <2>3. Advances(c, new)
    BY <1>1, <2>1, <2>2 DEF Advances, JobFits, CanSettle, Finalized, Jobs, Current
  <2> HIDE DEF new
  <2> QED BY <1>0, <1>2, <2>1, <2>3
<1>6. ASSUME NEW timer \in Timers, TimerFires(c, timer)
      PROVE  /\ job' \in [Commands -> Jobs] /\ JobInv'
             /\ \A d \in Commands : job'[d].stage = "new" <=> job[d].stage = "new"
  <2> DEFINE old == [j EXCEPT !.timers = @ \ {timer}]
             new == Fired(c, timer, old)
  <2>1. job' = [job EXCEPT ![c] = new] /\ timer \in j.timers
    BY <1>6 DEF TimerFires
  <2>2. /\ old \in Jobs /\ old.stage = j.stage /\ old.child = j.child /\ old.prep = j.prep
        /\ old.signals = j.signals /\ old.timers = j.timers \ {timer}
    BY <1>1 DEF Jobs
  <2> HIDE DEF old
  <2>3. CASE timer = "deadline"
    <3>1. j.stage = "open" /\ new = TimedOut(old)
      BY <1>1, <2>1, <2>3 DEF Fired, JobFits, CanSettle, Current
    <3> HIDE DEF new
    <3>2. new \in Jobs
      BY <2>2, <3>1, JobTypes
    <3>3. Advances(c, new)
      <4>1. j.timers \ {"deadline"} = {}
        BY <1>1, <3>1 DEF JobFits, Jobs, Timers
      <4>2. CASE old.child = "none"
        <5>1. new.stage = "finalized" /\ new.timers = {} /\ new.child = "none"
          BY <2>2, <3>1, <4>2 DEF TimedOut, Finalized, Jobs
        <5> QED BY <1>1, <3>1, <3>2, <5>1 DEF Advances, JobFits, Current
      <4>3. CASE old.child # "none"
        <5>1. /\ new.stage = "settled" /\ new.timers = {"termination"} /\ new.child = j.child
              /\ new.prep = j.prep /\ "SIGINT" \in new.signals
          BY <2>2, <2>3, <3>1, <4>1, <4>3 DEF TimedOut, Jobs
        <5> QED BY <1>1, <3>1, <3>2, <5>1 DEF Advances, JobFits, Current
      <4> QED BY <4>2, <4>3
    <3> QED BY <1>2, <2>1, <3>3
  <2>4. CASE timer = "termination"
    <3>1. /\ j.stage = "settled" /\ "SIGINT" \in j.signals
          /\ new = [old EXCEPT !.signals = @ \cup {"SIGKILL"}, !.timers = @ \cup {"kill"}]
      BY <1>1, <2>1, <2>2, <2>4 DEF Fired, JobFits, Current
    <3> HIDE DEF new
    <3>2. new \in Jobs
      BY <2>2, <3>1 DEF Jobs, Timers
    <3>4. /\ new.signals = BothSignals /\ new.timers = (j.timers \ {"termination"}) \cup {"kill"}
          /\ new.stage = j.stage /\ new.prep = j.prep /\ new.child = j.child
      BY <1>1, <2>2, <2>4, <3>1 DEF Jobs, BothSignals
    <3>3. Advances(c, new)
      BY <1>1, <2>1, <2>2, <2>4, <3>1, <3>2, <3>4 DEF Advances, JobFits, Jobs, Current
    <3> QED BY <1>2, <2>1, <3>3
  <2>5. CASE timer = "kill"
    <3>1. j.stage = "settled" /\ j.signals = BothSignals /\ new = Finalized(old)
      BY <1>1, <2>1, <2>2, <2>5 DEF Fired, JobFits, Current
    <3>2. new \in Jobs
      BY <2>2, <3>1, JobTypes
    <3>4. /\ new.stage = "finalized" /\ new.timers = {} /\ new.signals = BothSignals
          /\ new.prep = j.prep /\ new.child = j.child
      BY <2>2, <3>1 DEF Finalized, Jobs
    <3>5. JobFits(new)
      BY <1>1, <3>1, <3>4 DEF JobFits
    <3>3. Advances(c, new)
      BY <1>1, <3>1, <3>2, <3>4, <3>5 DEF Advances, Current
    <3> HIDE DEF new
    <3> QED BY <1>2, <2>1, <3>3
  <2> QED BY <1>6, <2>3, <2>4, <2>5 DEF Timers
<1> QED BY <1>0, <1>3, <1>4, <1>5, <1>6

\* releaseCommand: the next command may run.
LEMMA JobReleased ==
    ASSUME TypeOK, JobInv, NEW c \in Commands, ReleaseCommand(c)
    PROVE  /\ job' \in [Commands -> Jobs] /\ JobInv' /\ running' = None /\ active' = None
           /\ \A d \in Commands : job'[d].stage = "new" <=> job[d].stage = "new"
<1>1. /\ job[c].stage = "finalized" /\ active = c
      /\ job' = [job EXCEPT ![c] = [job[c] EXCEPT !.stage = "released"]]
  BY SMTT(30) DEF ReleaseCommand, JobInv, Current, TypeOK
<1>2. running' = None /\ active' = None
  BY <1>1 DEF ReleaseCommand
<1>3. [job[c] EXCEPT !.stage = "released"] \in Jobs
  BY DEF TypeOK, Jobs
<1>4. job' \in [Commands -> Jobs]
  BY <1>1, <1>3 DEF TypeOK
<1>5. ASSUME NEW d \in Commands
      PROVE  /\ JobFits(job'[d]) /\ job'[d].stage \notin Current
             /\ job'[d].stage = "new" <=> job[d].stage = "new"
  <2>1. CASE d = c
    <3>1. JobFits(job[c]) /\ job[c] \in Jobs
      BY DEF TypeOK, JobInv
    <3>2. JobFits([job[c] EXCEPT !.stage = "released"])
      BY <1>1, <3>1 DEF JobFits, Jobs
    <3>3. job'[d] = [job[c] EXCEPT !.stage = "released"]
      BY <1>1, <2>1 DEF TypeOK
    <3>4. job'[d].stage = "released"
      BY <3>1, <3>3 DEF Jobs
    <3> QED BY <1>1, <2>1, <3>2, <3>3, <3>4 DEF Current
  <2>2. CASE d # c
    <3>1. job'[d] = job[d] /\ job[d].stage \notin Current /\ JobFits(job[d])
      BY <1>1, <2>2 DEF TypeOK, JobInv
    <3> QED BY <3>1
  <2> QED BY <2>1, <2>2
<1>6. None \notin Commands
  BY DEF None, Commands
<1> QED BY <1>2, <1>4, <1>5, <1>6 DEF JobInv

\* PromiseQueue begins the next command: it has not been run before, and the one before it is
\* over.
LEMMA CommandStarts ==
    ASSUME TypeOK, JobInv, QueueIsFresh, StartCommand
    PROVE  TypeOK' /\ JobInv' /\ QueueIsFresh'
<1>1. /\ queue \in Seq(Commands) /\ queue # <<>> /\ offered \in Seq(Commands)
      /\ job \in [Commands -> Jobs]
  BY DEF StartCommand, TypeOK
<1> DEFINE n == Len(queue)
           c == Head(queue)
<1>2. /\ n \in Nat /\ 1 \in 1 .. n /\ c = queue[1] /\ c \in Commands
      /\ Tail(queue) \in Seq(Commands) /\ Len(Tail(queue)) = n - 1
      /\ \A i \in 1 .. n - 1 : Tail(queue)[i] = queue[i + 1] /\ i + 1 \in 1 .. n
      /\ \A i \in 1 .. n : queue[i] \in Commands
  BY ONLY <1>1, HeadTailProperties, LenProperties, ElementOfSeq, EmptySeq
<1>3. running = None /\ active = None /\ None \notin Commands
  BY DEF StartCommand, JobInv, None, Commands
<1>4. /\ queue' = Tail(queue) /\ running' = c /\ active' = c
      /\ job' = [job EXCEPT ![c] = Fresh] /\ UNCHANGED <<events, offered>>
  BY <1>3 DEF StartCommand
<1>5. job[c].stage = "new" /\ Has(offered, c)
  BY <1>2 DEF QueueIsFresh
<1> HIDE DEF n, c
<1>6. job' \in [Commands -> Jobs]
  BY <1>1, <1>2, <1>4, JobTypes
<1>7. TypeOK'
  <2>1. Len(queue') <= MaxPending
    <3>1. n <= MaxPending /\ MaxPending \in Nat
      BY HookAssumption DEF TypeOK, n
    <3> QED BY <1>2, <1>4, <3>1
  <2> QED BY <1>2, <1>4, <1>6, <2>1 DEF TypeOK, events
<1>8. JobInv'
  <2>1. ASSUME NEW d \in Commands
        PROVE  JobFits(job'[d]) /\ (job'[d].stage \in Current <=> c = d)
    <3>1. CASE d = c
      BY <1>1, <1>2, <1>4, <3>1 DEF Fresh, JobFits, Current, Timers
    <3>2. CASE d # c
      BY <1>1, <1>3, <1>4, <3>2 DEF JobInv
    <3> QED BY <3>1, <3>2
  <2> QED BY <1>4, <2>1 DEF JobInv
<1>9. QueueIsFresh'
  <2>1. offered' = offered
    BY <1>4
  <2>2. ASSUME NEW i \in 1 .. n - 1
        PROVE  /\ Has(offered', queue'[i]) /\ job'[queue'[i]].stage = "new"
               /\ \A j \in 1 .. n - 1 : queue'[i] = queue'[j] => i = j
    <3>1. queue'[i] = queue[i + 1] /\ i + 1 \in 1 .. n /\ i + 1 # 1 /\ queue[i + 1] \in Commands
      BY <1>2, <1>4
    <3>2. /\ Has(offered, queue[i + 1]) /\ job[queue[i + 1]].stage = "new"
          /\ \A j \in 1 .. n : queue[i + 1] = queue[j] => i + 1 = j
      BY <3>1 DEF QueueIsFresh, n
    <3>3. queue[i + 1] # c
      BY <1>2, <3>1, <3>2
    <3>4. ASSUME NEW j \in 1 .. n - 1, queue'[i] = queue'[j] PROVE i = j
      <4>1. queue'[j] = queue[j + 1] /\ j + 1 \in 1 .. n
        BY <1>2, <1>4
      <4>2. i + 1 = j + 1
        BY <3>1, <3>2, <3>4, <4>1
      <4> QED BY <1>2, <4>2
    <3>5. job'[queue[i + 1]] = job[queue[i + 1]]
      BY <1>1, <1>4, <3>1, <3>3
    <3>6. Has(offered', queue[i + 1])
      BY <2>1, <3>1, <3>2
    <3> QED BY <3>1, <3>2, <3>4, <3>5, <3>6
  <2>3. ASSUME NEW d \in Commands, job'[d].stage # "new" PROVE Has(offered', d)
    BY <1>1, <1>4, <1>5, <2>1, <2>3 DEF QueueIsFresh
  <2> QED BY <1>2, <1>4, <2>2, <2>3 DEF QueueIsFresh
<1> QED BY <1>7, <1>8, <1>9

-----------------------------------------------------------------------------
(* Offering commands. *)

\* A handler offers commands that differ and have not been offered before: they are offered
\* behind the earlier ones, and those the queue has room for wait behind the others.
LEMMA AddProperties ==
    ASSUME TypeOK, OfferedOnce, QueueIsFresh, NEW commands \in Seq(Commands), Add(commands),
           \A c : Has(commands, c) => ~Has(offered, c),
           \A i, j \in 1 .. Len(commands) : commands[i] = commands[j] => i = j,
           job' = job
    PROVE  /\ offered' \in Seq(Commands) /\ queue' \in Seq(Commands) /\ Len(queue') <= MaxPending
           /\ OfferedOnce' /\ QueueIsFresh'
           /\ Len(offered) \in Nat /\ Len(commands) \in Nat
           /\ \A i \in 1 .. Len(offered') :
                 \/ i \in 1 .. Len(offered) /\ offered'[i] = offered[i]
                 \/ i - Len(offered) \in 1 .. Len(commands) /\ offered'[i] = commands[i - Len(offered)]
           /\ \A c : Has(offered', c) <=> Has(offered, c) \/ Has(commands, c)
<1> DEFINE n == Len(offered)
           m == Len(commands)
           q == Len(queue)
           k == IF m < MaxPending - q THEN m ELSE MaxPending - q
           part == SubSeq(commands, 1, k)
<1>1. /\ offered \in Seq(Commands) /\ queue \in Seq(Commands) /\ n \in Nat /\ m \in Nat /\ q \in Nat
      /\ q <= MaxPending /\ MaxPending \in Nat
      /\ \A i \in 1 .. q : queue[i] \in Commands
  <2>1. offered \in Seq(Commands) /\ queue \in Seq(Commands) /\ q <= MaxPending
    BY DEF TypeOK
  <2> QED BY <2>1, HookAssumption, LenProperties, ElementOfSeq
<1>2. offered' = offered \o commands /\ queue' = queue \o part
  BY DEF Add
<1>3. k \in 0 .. m /\ q + k <= MaxPending
  BY <1>1
<1> HIDE DEF n, m, q, k
<1>4. /\ part \in Seq(Commands) /\ Len(part) = k
      /\ \A i \in 1 .. k : part[i] = commands[i] /\ i \in 1 .. m
  <2>1. \A i \in 1 .. k : 1 + i - 1 = i /\ i \in 1 .. m
    BY <1>1, <1>3
  <2>2. /\ part \in Seq(Commands)
        /\ Len(part) = IF 1 <= k THEN k - 1 + 1 ELSE 0
        /\ \A i \in 1 .. k - 1 + 1 : part[i] = commands[1 + i - 1]
    <3>1. 1 \in 1 .. m + 1 /\ k \in 0 .. m
      BY <1>1, <1>3
    <3> QED BY <3>1, SubSeqProperties DEF m
  <2>3. k - 1 + 1 = k /\ (1 <= k \/ k = 0)
    BY <1>1, <1>3
  <2> QED BY <2>1, <2>2, <2>3
<1> HIDE DEF part
<1>5. /\ offered' \in Seq(Commands) /\ Len(offered') = n + m
      /\ \A i \in 1 .. n + m : offered'[i] = IF i <= n THEN offered[i] ELSE commands[i - n]
  BY ONLY <1>1, <1>2, ConcatProperties, commands \in Seq(Commands) DEF n, m
<1>6. /\ queue' \in Seq(Commands) /\ Len(queue') = q + k
      /\ \A i \in 1 .. q + k : queue'[i] = IF i <= q THEN queue[i] ELSE part[i - q]
  BY ONLY <1>1, <1>2, <1>4, ConcatProperties DEF q
<1>7. ASSUME NEW i \in 1 .. n + m
      PROVE  \/ i \in 1 .. n /\ offered'[i] = offered[i]
             \/ i - n \in 1 .. m /\ offered'[i] = commands[i - n]
  BY <1>1, <1>5
<1>8. /\ \A i \in 1 .. n : i \in 1 .. n + m /\ offered'[i] = offered[i]
      /\ \A i \in 1 .. m : n + i \in 1 .. n + m /\ offered'[n + i] = commands[i]
  <2>1. ASSUME NEW i \in 1 .. n PROVE i \in 1 .. n + m /\ offered'[i] = offered[i]
    BY <1>1, <1>5
  <2>2. ASSUME NEW i \in 1 .. m PROVE n + i \in 1 .. n + m /\ offered'[n + i] = commands[i]
    <3> DEFINE d == n + i
    <3>1. d \in 1 .. n + m /\ ~(d <= n) /\ d - n = i
      BY <1>1
    <3> HIDE DEF d
    <3>2. offered'[d] = commands[d - n]
      BY ONLY <1>5, <3>1
    <3>3. offered'[d] = commands[i]
      BY ONLY <3>1, <3>2
    <3> QED BY <3>1, <3>3 DEF d
  <2> QED BY <2>1, <2>2
<1>9. ASSUME NEW c
      PROVE  Has(offered', c) <=> Has(offered, c) \/ Has(commands, c)
  <2>1. Has(offered', c) => Has(offered, c) \/ Has(commands, c)
    BY <1>5, <1>7 DEF Has, n, m
  <2>2. Has(offered, c) => Has(offered', c)
    BY <1>5, <1>8 DEF Has, n
  <2>3. Has(commands, c) => Has(offered', c)
    <3> SUFFICES ASSUME NEW i \in 1 .. m, commands[i] = c PROVE Has(offered', c)
      BY DEF Has, m
    <3>1. n + i \in 1 .. Len(offered') /\ offered'[n + i] = c
      BY <1>5, <1>8
    <3> QED BY <3>1 DEF Has
  <2> QED BY <2>1, <2>2, <2>3
<1>10. OfferedOnce'
  <2> SUFFICES ASSUME NEW i \in 1 .. n + m, NEW j \in 1 .. n + m, offered'[i] = offered'[j]
               PROVE  i = j
    BY <1>5 DEF OfferedOnce
  <2>1. \A a \in 1 .. n, b \in 1 .. m : offered[a] # commands[b]
    BY DEF Has, n, m
  <2>2. CASE i \in 1 .. n /\ j \in 1 .. n
    BY <1>8, <2>2 DEF OfferedOnce, n
  <2>3. CASE i - n \in 1 .. m /\ j - n \in 1 .. m /\ offered'[i] = commands[i - n]
             /\ offered'[j] = commands[j - n]
    <3>1. i - n = j - n
      BY <2>3 DEF m
    <3> QED BY <1>1, <3>1
  <2> QED BY <1>7, <2>1, <2>2, <2>3
<1>11. QueueIsFresh'
  <2>1. ASSUME NEW i \in 1 .. m PROVE /\ commands[i] \in Commands /\ ~Has(offered, commands[i])
                                      /\ job[commands[i]].stage = "new"
    <3>1. commands[i] \in Commands /\ ~Has(offered, commands[i])
      BY ElementOfSeq DEF m, Has
    <3> QED BY <3>1 DEF QueueIsFresh
  <2>2. ASSUME NEW i \in 1 .. q + k
        PROVE  \/ i \in 1 .. q /\ queue'[i] = queue[i]
               \/ i - q \in 1 .. k /\ i - q \in 1 .. m /\ queue'[i] = commands[i - q]
    BY <1>1, <1>3, <1>4, <1>6
  <2>3. ASSUME NEW i \in 1 .. q + k PROVE Has(offered', queue'[i]) /\ job[queue'[i]].stage = "new"
    <3>1. CASE i \in 1 .. q /\ queue'[i] = queue[i]
      BY <1>9, <3>1 DEF QueueIsFresh, q
    <3>2. CASE i - q \in 1 .. m /\ queue'[i] = commands[i - q]
      <4>1. Has(commands, commands[i - q])
        BY <3>2 DEF Has, m
      <4> QED BY <1>9, <2>1, <3>2, <4>1
    <3> QED BY <2>2, <3>1, <3>2
  <2>4. ASSUME NEW i \in 1 .. q + k, NEW j \in 1 .. q + k, queue'[i] = queue'[j] PROVE i = j
    <3>1. \A a \in 1 .. q, b \in 1 .. m : queue[a] # commands[b]
      BY <2>1 DEF QueueIsFresh, q
    <3>2. CASE i \in 1 .. q /\ j \in 1 .. q /\ queue'[i] = queue[i] /\ queue'[j] = queue[j]
      BY <2>4, <3>2 DEF QueueIsFresh, q
    <3>3. CASE i - q \in 1 .. m /\ j - q \in 1 .. m /\ queue'[i] = commands[i - q]
               /\ queue'[j] = commands[j - q]
      <4>1. i - q = j - q
        BY <2>4, <3>3 DEF m
      <4> QED BY <1>1, <4>1
    <3> QED BY <2>2, <2>4, <3>1, <3>2, <3>3
  <2>5. ASSUME NEW c \in Commands, job[c].stage # "new" PROVE Has(offered', c)
    BY <1>9, <2>5 DEF QueueIsFresh
  <2> QED BY <1>6, <2>3, <2>4, <2>5 DEF QueueIsFresh
<1>12. Len(queue') <= MaxPending
  BY <1>3, <1>6
<1> QED BY <1>1, <1>5, <1>6, <1>7, <1>9, <1>10, <1>11, <1>12 DEF n, m

\* What is offered of one kind is one command, or none if config.yml does not name it.
LEMMA OfferIs ==
    ASSUME NEW kind, NEW r \in Reserves
    PROVE  /\ Offer(kind, r) \in Seq(Commands) /\ Len(Offer(kind, r)) \in {0, 1}
           /\ \A i \in 1 .. Len(Offer(kind, r)) : i = 1 /\ Offer(kind, r)[i] = <<kind, r>>
<1>1. CASE kind \in Configured
  <2> DEFINE c == <<kind, r>>
             s == <<c>>
  <2>1. c \in Commands
    BY <1>1 DEF Commands
  <2>2. Offer(kind, r) = s
    BY <1>1 DEF Offer
  <2> HIDE DEF c
  <2>3. s \in Seq(Commands) /\ Len(s) = 1 /\ s[1] = c
    BY <2>1
  <2> HIDE DEF s
  <2>4. \A i \in 1 .. 1 : i = 1
    OBVIOUS
  <2> QED BY <2>2, <2>3, <2>4 DEF c
<1>2. CASE kind \notin Configured
  <2>1. Offer(kind, r) = <<>>
    BY <1>2 DEF Offer
  <2>2. <<>> \in Seq(Commands) /\ Len(<<>>) = 0 /\ \A i \in 1 .. 0 : FALSE
    OBVIOUS
  <2> QED BY <2>1, <2>2
<1> QED BY <1>1, <1>2

\* The end of a recording and the deletions that were held for it, in this order.
LEMMA ReleaseOffers ==
    ASSUME NEW r \in Reserves, NEW before \in {<<>>, Offer("end", r)},
           NEW after \in {<<>>, Offer("delete", r)}
    PROVE  /\ before \o after \in Seq(Commands)
           /\ \A i \in 1 .. Len(before \o after) :
                 \/ (before \o after)[i] = <<"end", r>> /\ before # <<>> /\ i = 1
                 \/ (before \o after)[i] = <<"delete", r>> /\ after # <<>> /\ i = Len(before) + 1
           /\ Len(before) \in {0, 1}
           /\ before = <<>> <=> Len(before) = 0
<1>1. /\ before \in Seq(Commands) /\ Len(before) \in {0, 1}
      /\ \A i \in 1 .. Len(before) : i = 1 /\ before[i] = <<"end", r>>
  <2>1. <<>> \in Seq(Commands) /\ Len(<<>>) = 0 /\ \A i \in 1 .. 0 : FALSE
    OBVIOUS
  <2>2. CASE before = <<>>
    BY <2>1, <2>2
  <2>3. CASE before = Offer("end", r)
    BY <2>3, OfferIs
  <2> QED BY <2>2, <2>3
<1>2. /\ after \in Seq(Commands) /\ Len(after) \in {0, 1}
      /\ \A i \in 1 .. Len(after) : i = 1 /\ after[i] = <<"delete", r>>
  <2>1. <<>> \in Seq(Commands) /\ Len(<<>>) = 0 /\ \A i \in 1 .. 0 : FALSE
    OBVIOUS
  <2>2. CASE after = <<>>
    BY <2>1, <2>2
  <2>3. CASE after = Offer("delete", r)
    BY <2>3, OfferIs
  <2> QED BY <2>2, <2>3
<1> DEFINE z == before \o after
<1>3. /\ z \in Seq(Commands) /\ Len(z) = Len(before) + Len(after)
      /\ \A i \in 1 .. Len(before) + Len(after) :
            z[i] = IF i <= Len(before) THEN before[i] ELSE after[i - Len(before)]
  BY ONLY <1>1, <1>2, ConcatProperties
<1>4. /\ before = <<>> <=> Len(before) = 0
      /\ after = <<>> <=> Len(after) = 0
  BY ONLY <1>1, <1>2, EmptySeq
<1> HIDE DEF z
<1>5. ASSUME NEW i \in 1 .. Len(z)
      PROVE  \/ z[i] = <<"end", r>> /\ before # <<>> /\ i = 1
             \/ z[i] = <<"delete", r>> /\ after # <<>> /\ i = Len(before) + 1
  <2>1. CASE i <= Len(before)
    <3>1. i \in 1 .. Len(before) /\ z[i] = before[i]
      BY <1>1, <1>2, <1>3, <2>1
    <3>2. Len(before) # 0
      BY <1>1, <3>1
    <3> QED BY <1>1, <1>4, <3>1, <3>2
  <2>2. CASE ~(i <= Len(before))
    <3>1. i - Len(before) \in 1 .. Len(after) /\ z[i] = after[i - Len(before)]
      BY <1>1, <1>2, <1>3, <2>2
    <3>2. Len(after) # 0 /\ i - Len(before) = 1 /\ i = Len(before) + 1
      BY <1>1, <1>2, <3>1
    <3> QED BY <1>2, <1>4, <3>1, <3>2
  <2> QED BY <2>1, <2>2
<1> QED BY <1>1, <1>3, <1>4, <1>5 DEF z

\* A handler of one reservation changes nothing of the others.
Alone(r) ==
    \A d \in Reserves \ {r} :
        /\ row'[d] = row[d] /\ recording'[d] = recording[d] /\ waited'[d] = waited[d]
        /\ d \in starting' <=> d \in starting
        /\ d \in held' <=> d \in held

\* What is announced of the other reservations stays as it is.
LEMMA OthersAnnounced ==
    ASSUME EventInv, NEW r \in Reserves, Alone(r),
           \A c : Has(offered', c) => Has(offered, c) \/ \E kind : c = <<kind, r>>
    PROVE  \A d \in Reserves \ {r} : Announced(d)'
<1> SUFFICES ASSUME NEW d \in Reserves \ {r} PROVE Announced(d)'
  OBVIOUS
<1>1. \A kind : <<kind, d>> # <<kind, r>>
  OBVIOUS
<1>2. \A kind : Has(offered', <<kind, d>>) => Has(offered, <<kind, d>>)
  <2> SUFFICES ASSUME NEW kind, Has(offered', <<kind, d>>) PROVE Has(offered, <<kind, d>>)
    OBVIOUS
  <2>1. \A other : <<kind, d>> # <<other, r>>
    OBVIOUS
  <2> QED BY <2>1
<1>3. Announced(d)
  BY DEF EventInv
<1>4. /\ row'[d] = row[d] /\ recording'[d] = recording[d] /\ waited'[d] = waited[d]
      /\ d \in starting' <=> d \in starting
      /\ d \in held' <=> d \in held
  BY DEF Alone
<1> QED BY <1>2, <1>3, <1>4 DEF Announced

\* A handler that offers nothing.
LEMMA EventQuiet ==
    ASSUME TypeOK, EventInv, QueueIsFresh, NEW r \in Reserves, Alone(r),
           UNCHANGED <<offered, queue, job>>, Announced(r)',
           waited'[r] = "held" => waited[r] = "held" \/ ~Has(offered, <<"end", r>>)
    PROVE  EventInv' /\ QueueIsFresh'
<1>1. OfferedOnce' /\ QueueIsFresh'
  BY DEF EventInv, OfferedOnce, QueueIsFresh, Has
<1>2. HeldDeletionOrder'
  <2> SUFFICES ASSUME NEW i \in 1 .. Len(offered), NEW j \in 1 .. Len(offered), NEW s \in Reserves,
                      waited'[s] = "held", offered[i] = <<"end", s>>, offered[j] = <<"delete", s>>
               PROVE  i < j
    BY DEF HeldDeletionOrder
  <2>1. Has(offered, <<"end", s>>)
    BY DEF Has
  <2>2. waited[s] = "held"
    BY <2>1 DEF Alone
  <2> QED BY <2>2 DEF EventInv, HeldDeletionOrder
<1>3. \A d \in Reserves \ {r} : Announced(d)'
  BY OthersAnnounced
<1> QED BY <1>1, <1>2, <1>3 DEF EventInv

\* A handler that offers commands of its reservation.
LEMMA EventOffers ==
    ASSUME TypeOK, EventInv, QueueIsFresh, NEW r \in Reserves, Alone(r), job' = job,
           NEW z \in Seq(Commands), Add(z),
           \A c : Has(z, c) => ~Has(offered, c) /\ c \in {<<"start", r>>, <<"end", r>>, <<"delete", r>>},
           \A i, j \in 1 .. Len(z) : z[i] = z[j] => i = j,
           \A i, j \in 1 .. Len(z) : z[i] = <<"end", r>> /\ z[j] = <<"delete", r>> => i < j,
           Has(z, <<"end", r>>) => recording[r] # "over",
           waited'[r] = "held" => waited[r] = "held",
           (\A c : Has(offered', c) <=> Has(offered, c) \/ Has(z, c)) => Announced(r)'
    PROVE  /\ offered' \in Seq(Commands) /\ queue' \in Seq(Commands) /\ Len(queue') <= MaxPending
           /\ EventInv' /\ QueueIsFresh'
<1> DEFINE n == Len(offered)
           new(i) == i - n \in 1 .. Len(z) /\ offered'[i] = z[i - n]
<1>0. \A c : Has(z, c) => ~Has(offered, c)
  OBVIOUS
<1>1. /\ offered' \in Seq(Commands) /\ queue' \in Seq(Commands) /\ Len(queue') <= MaxPending
      /\ OfferedOnce' /\ QueueIsFresh' /\ n \in Nat /\ Len(z) \in Nat
      /\ \A i \in 1 .. Len(offered') : (i \in 1 .. n /\ offered'[i] = offered[i]) \/ new(i)
      /\ \A c : Has(offered', c) <=> Has(offered, c) \/ Has(z, c)
  BY <1>0, AddProperties DEF EventInv
<1>2. \A c : Has(z, c) => \E kind : c = <<kind, r>>
  OBVIOUS
<1>3. \A d \in Reserves \ {r} : Announced(d)'
  BY <1>1, <1>2, OthersAnnounced
<1>4. HeldDeletionOrder'
  <2> SUFFICES ASSUME NEW i \in 1 .. Len(offered'), NEW j \in 1 .. Len(offered'), NEW s \in Reserves,
                      waited'[s] = "held", offered'[i] = <<"end", s>>, offered'[j] = <<"delete", s>>
               PROVE  i < j
    BY DEF HeldDeletionOrder
  <2>1. waited[s] = "held"
    BY DEF Alone
  <2> HIDE DEF n
  <2>2. CASE i \in 1 .. n /\ offered'[i] = offered[i] /\ j \in 1 .. n /\ offered'[j] = offered[j]
    BY <2>1, <2>2 DEF EventInv, HeldDeletionOrder, n
  <2>3. CASE i \in 1 .. n /\ new(j)
    BY <1>1, <2>3
  <2>4. CASE new(i)
    <3>1. Has(z, <<"end", s>>)
      BY <2>4 DEF Has
    <3>2. s = r
      <4>1. <<"end", s>> \in {<<"start", r>>, <<"end", r>>, <<"delete", r>>}
        BY <3>1
      <4> QED BY <4>1
    <3>3. recording[r] # "over"
      BY <3>1, <3>2
    <3>4. CASE new(j)
      <4>1. i - n < j - n
        BY <2>4, <3>2, <3>4
      <4> QED BY <1>1, <4>1
    <3>5. CASE j \in 1 .. n /\ offered'[j] = offered[j]
      <4>1. Has(offered, <<"delete", r>>)
        BY <3>2, <3>5 DEF Has, n
      <4>2. Announced(r)
        BY DEF EventInv
      <4> QED BY <2>1, <3>2, <3>3, <4>1, <4>2 DEF Announced
    <3> QED BY <1>1, <3>4, <3>5
  <2> QED BY <1>1, <2>2, <2>3, <2>4
<1>5. Announced(r)'
  BY <1>1
<1> QED BY <1>1, <1>3, <1>4, <1>5 DEF EventInv

\* releaseReserveDeletions: the end of the recording, then the deletions that were held for it.
LEMMA EventReleases ==
    ASSUME TypeOK, EventInv, QueueIsFresh, NEW r \in Reserves, job' = job, row' = row,
           starting' = starting,
           NEW before \in {<<>>, Offer("end", r)}, ReleaseReserveDeletions(r, before),
           \A d \in Reserves \ {r} : recording'[d] = recording[d] /\ waited'[d] = waited[d],
           before # <<>> => recording[r] # "over" /\ recording'[r] = "over",
           recording'[r] \in {recording[r], "over"},
           waited'[r] = waited[r] \/ (waited'[r] = "limit" /\ r \in held),
           waited'[r] = "limit" \/ recording'[r] = "over"
    PROVE  /\ offered' \in Seq(Commands) /\ queue' \in Seq(Commands) /\ Len(queue') <= MaxPending
           /\ held' = held \ {r} /\ EventInv' /\ QueueIsFresh'
<1> DEFINE after == IF r \in held THEN Offer("delete", r) ELSE <<>>
           z == before \o after
<1>1. Add(z) /\ held' = held \ {r}
  BY DEF ReleaseReserveDeletions
<1>2. after \in {<<>>, Offer("delete", r)} /\ (after # <<>> => r \in held)
  OBVIOUS
<1>3. /\ z \in Seq(Commands)
      /\ \A i \in 1 .. Len(z) :
            \/ z[i] = <<"end", r>> /\ before # <<>> /\ i = 1
            \/ z[i] = <<"delete", r>> /\ after # <<>> /\ i = Len(before) + 1
      /\ Len(before) \in {0, 1} /\ (before = <<>> <=> Len(before) = 0)
  BY <1>2, ReleaseOffers
<1> HIDE DEF z, after
<1>4. Announced(r)
  BY DEF EventInv
<1>5. ASSUME NEW c, Has(z, c)
      PROVE  /\ ~Has(offered, c) /\ c \in {<<"start", r>>, <<"end", r>>, <<"delete", r>>}
             /\ c # <<"start", r>>
             /\ c = <<"end", r>> => before # <<>>
             /\ c = <<"delete", r>> => after # <<>>
  <2>1. \/ c = <<"end", r>> /\ before # <<>>
        \/ c = <<"delete", r>> /\ after # <<>>
    BY <1>3, <1>5 DEF Has
  <2>2. CASE c = <<"end", r>> /\ before # <<>>
    BY <1>4, <2>2 DEF Announced
  <2>3. CASE c = <<"delete", r>> /\ after # <<>>
    BY <1>2, <1>4, <2>3 DEF Announced
  <2> QED BY <2>1, <2>2, <2>3
<1>6. ASSUME NEW i \in 1 .. Len(z), NEW j \in 1 .. Len(z)
      PROVE  /\ z[i] = z[j] => i = j
             /\ z[i] = <<"end", r>> /\ z[j] = <<"delete", r>> => i < j
  <2>1. <<"end", r>> # <<"delete", r>>
    OBVIOUS
  <2>2. z[i] = <<"end", r>> => i = 1 /\ Len(before) = 1
    BY <1>3, <2>1
  <2>3. z[i] = <<"delete", r>> => i = Len(before) + 1
    BY <1>3, <2>1
  <2>4. z[j] = <<"end", r>> => j = 1
    BY <1>3, <2>1
  <2>5. z[j] = <<"delete", r>> => j = Len(before) + 1
    BY <1>3, <2>1
  <2>6. z[i] \in {<<"end", r>>, <<"delete", r>>}
    BY <1>3
  <2>7. z[i] = z[j] => i = j
    BY <2>2, <2>3, <2>4, <2>5, <2>6
  <2>8. z[i] = <<"end", r>> /\ z[j] = <<"delete", r>> => i < j
    BY <2>2, <2>5
  <2> QED BY <2>7, <2>8
<1>7. ASSUME \A c : Has(offered', c) <=> Has(offered, c) \/ Has(z, c) PROVE Announced(r)'
  <2>1. Has(offered', <<"start", r>>) => Has(offered, <<"start", r>>)
    BY <1>5, <1>7
  <2>2. Has(offered', <<"end", r>>) => Has(offered, <<"end", r>>) \/ before # <<>>
    BY <1>5, <1>7
  <2>3. Has(offered', <<"delete", r>>) => Has(offered, <<"delete", r>>) \/ after # <<>>
    BY <1>5, <1>7
  <2> QED BY <1>1, <1>2, <1>4, <2>1, <2>2, <2>3 DEF Announced
<1>8. Alone(r)
  BY <1>1 DEF Alone
<1>9. Has(z, <<"end", r>>) => recording[r] # "over"
  BY <1>5
<1>10. waited'[r] = "held" => waited[r] = "held"
  OBVIOUS
<1>11. /\ \A c : Has(z, c) => ~Has(offered, c) /\ c \in {<<"start", r>>, <<"end", r>>, <<"delete", r>>}
       /\ \A i, j \in 1 .. Len(z) : z[i] = z[j] => i = j
       /\ \A i, j \in 1 .. Len(z) : z[i] = <<"end", r>> /\ z[j] = <<"delete", r>> => i < j
  BY <1>5, <1>6
<1> QED BY <1>1, <1>3, <1>7, <1>8, <1>9, <1>10, <1>11, EventOffers

\* A handler that offers one command, at the start of the recording or for a deletion.
LEMMA EventOffersOne ==
    ASSUME TypeOK, EventInv, QueueIsFresh, NEW r \in Reserves, Alone(r), job' = job,
           NEW kind \in {"start", "delete"}, Add(Offer(kind, r)), ~Has(offered, <<kind, r>>),
           waited'[r] = "held" => waited[r] = "held",
           (\A c : Has(offered', c) => Has(offered, c) \/ c = <<kind, r>>) => Announced(r)'
    PROVE  /\ offered' \in Seq(Commands) /\ queue' \in Seq(Commands) /\ Len(queue') <= MaxPending
           /\ EventInv' /\ QueueIsFresh'
<1> DEFINE z == Offer(kind, r)
<1>1. /\ z \in Seq(Commands) /\ \A i \in 1 .. Len(z) : i = 1 /\ z[i] = <<kind, r>>
  BY OfferIs
<1>2. Add(z)
  OBVIOUS
<1> HIDE DEF z
<1>3. \A c : Has(z, c) => c = <<kind, r>>
  BY <1>1 DEF Has
<1>4. \A c : Has(z, c) => ~Has(offered, c) /\ c \in {<<"start", r>>, <<"end", r>>, <<"delete", r>>}
  BY <1>3
<1>5. /\ \A i, j \in 1 .. Len(z) : z[i] = z[j] => i = j
      /\ \A i, j \in 1 .. Len(z) : z[i] = <<"end", r>> /\ z[j] = <<"delete", r>> => i < j
      /\ ~Has(z, <<"end", r>>)
  <2>1. <<kind, r>> # <<"end", r>>
    OBVIOUS
  <2>2. ASSUME NEW i \in 1 .. Len(z), NEW j \in 1 .. Len(z)
        PROVE  i = j /\ z[i] # <<"end", r>>
    BY <1>1, <2>1
  <2> QED BY <1>3, <2>1, <2>2
<1>6. ASSUME \A c : Has(offered', c) <=> Has(offered, c) \/ Has(z, c) PROVE Announced(r)'
  BY <1>3, <1>6
<1> QED BY <1>1, <1>2, <1>4, <1>5, <1>6, EventOffers

-----------------------------------------------------------------------------
(* The handlers of EventSetter. *)

\* The end time of a reservation passes.
LEMMA EndPassedStep ==
    ASSUME TypeOK, EventInv, QueueIsFresh, NEW r \in Reserves, EndPassed(r)
    PROVE  TypeOK' /\ EventInv' /\ QueueIsFresh'
<1>1. /\ past' = [past EXCEPT ![r] = TRUE]
      /\ UNCHANGED <<row, recording, starting, held, waited, offered, queue, running, active, job>>
  BY DEF EndPassed, runner
<1>2. TypeOK'
  BY <1>1 DEF TypeOK
<1>3. Alone(r) /\ Announced(r)'
  BY <1>1 DEF Alone, Announced, EventInv, Has
<1> QED BY <1>1, <1>2, <1>3, EventQuiet

\* A recording starts, with tags or without (setStartRecording).
LEMMA StartRecordingStep ==
    ASSUME TypeOK, EventInv, QueueIsFresh, NEW r \in Reserves, StartRecording(r)
    PROVE  TypeOK' /\ EventInv' /\ QueueIsFresh'
<1>1. /\ recording[r] = "waiting" /\ recording' = [recording EXCEPT ![r] = "running"]
      /\ UNCHANGED <<row, past, held, waited, running, active, job>>
  BY DEF StartRecording, runner
<1>2. recording'[r] = "running" /\ \A d \in Reserves \ {r} : recording'[d] = recording[d]
  BY <1>1 DEF TypeOK
<1>3. recording' \in [Reserves -> {"waiting", "running", "tagging", "over"}]
  BY <1>1 DEF TypeOK
<1>4. Announced(r)
  BY DEF EventInv
<1>5. /\ ~Has(offered, <<"start", r>>) /\ ~Has(offered, <<"end", r>>) /\ r \notin starting
      /\ ~(waited[r] = "held" /\ r \notin held)
  BY <1>1, <1>4 DEF Announced
<1>6. CASE starting' = starting \cup {r} /\ UNCHANGED <<offered, queue>>
  <2>1. TypeOK'
    BY <1>1, <1>3, <1>6 DEF TypeOK
  <2>2. Alone(r)
    BY <1>1, <1>2, <1>6 DEF Alone
  <2>3. Announced(r)'
    BY <1>1, <1>2, <1>4, <1>5, <1>6 DEF Announced, Has
  <2> QED BY <1>1, <1>6, <2>1, <2>2, <2>3, EventQuiet
<1>7. CASE Add(Offer("start", r)) /\ UNCHANGED starting
  <2>1. Alone(r)
    BY <1>1, <1>2, <1>7 DEF Alone
  <2>2. ASSUME \A c : Has(offered', c) => Has(offered, c) \/ c = <<"start", r>> PROVE Announced(r)'
    <3>1. <<"end", r>> # <<"start", r>> /\ <<"delete", r>> # <<"start", r>>
      OBVIOUS
    <3>2. /\ ~Has(offered', <<"end", r>>)
          /\ Has(offered', <<"delete", r>>) => Has(offered, <<"delete", r>>)
      BY <1>5, <2>2, <3>1
    <3> QED BY <1>1, <1>2, <1>4, <1>5, <1>7, <3>2 DEF Announced
  <2>3. /\ offered' \in Seq(Commands) /\ queue' \in Seq(Commands) /\ Len(queue') <= MaxPending
        /\ EventInv' /\ QueueIsFresh'
    BY <1>1, <1>5, <1>7, <2>1, <2>2, EventOffersOne
  <2>4. TypeOK'
    BY <1>1, <1>3, <1>7, <2>3 DEF TypeOK
  <2> QED BY <2>3, <2>4
<1> QED BY <1>6, <1>7 DEF StartRecording

\* The tags are set: the command of the start is offered.
LEMMA StartTaggedStep ==
    ASSUME TypeOK, EventInv, QueueIsFresh, NEW r \in Reserves, StartTagged(r)
    PROVE  TypeOK' /\ EventInv' /\ QueueIsFresh'
<1>1. /\ r \in starting /\ starting' = starting \ {r} /\ Add(Offer("start", r))
      /\ UNCHANGED <<row, past, recording, held, waited, running, active, job>>
  BY DEF StartTagged, runner
<1>2. Announced(r)
  BY DEF EventInv
<1>3. ~Has(offered, <<"start", r>>) /\ recording[r] # "waiting"
  BY <1>1, <1>2 DEF Announced
<1>4. Alone(r)
  BY <1>1 DEF Alone
<1>5. ASSUME \A c : Has(offered', c) => Has(offered, c) \/ c = <<"start", r>> PROVE Announced(r)'
  <2>1. <<"end", r>> # <<"start", r>> /\ <<"delete", r>> # <<"start", r>>
    OBVIOUS
  <2>2. /\ Has(offered', <<"end", r>>) => Has(offered, <<"end", r>>)
        /\ Has(offered', <<"delete", r>>) => Has(offered, <<"delete", r>>)
    BY <1>5, <2>1
  <2> QED BY <1>1, <1>2, <1>3, <2>2 DEF Announced
<1>6. /\ offered' \in Seq(Commands) /\ queue' \in Seq(Commands) /\ Len(queue') <= MaxPending
      /\ EventInv' /\ QueueIsFresh'
  BY <1>1, <1>3, <1>4, <1>5, EventOffersOne
<1>7. TypeOK'
  BY <1>1, <1>6 DEF TypeOK
<1> QED BY <1>6, <1>7

\* A recording ends; its row has tags, or it cannot be announced, or it is announced at once
\* (setFinishRecording).
LEMMA FinishRecordingStep ==
    ASSUME TypeOK, EventInv, QueueIsFresh, NEW r \in Reserves, FinishRecording(r)
    PROVE  TypeOK' /\ EventInv' /\ QueueIsFresh'
<1>1. recording[r] = "running" /\ UNCHANGED <<row, past, starting, waited, running, active, job>>
  BY DEF FinishRecording, runner
<1>2. Announced(r)
  BY DEF EventInv
<1>3. CASE /\ \E next \in {"tagging", "over"} : recording' = [recording EXCEPT ![r] = next]
           /\ UNCHANGED <<held, offered, queue>>
  <2>1. PICK next \in {"tagging", "over"} : recording' = [recording EXCEPT ![r] = next]
    BY <1>3
  <2>2. recording'[r] = next /\ \A d \in Reserves \ {r} : recording'[d] = recording[d]
    BY <2>1 DEF TypeOK
  <2>3. recording' \in [Reserves -> {"waiting", "running", "tagging", "over"}]
    BY <2>1 DEF TypeOK
  <2>4. TypeOK'
    BY <1>1, <1>3, <2>3 DEF TypeOK
  <2>5. Alone(r)
    BY <1>1, <1>3, <2>2 DEF Alone
  <2>6. Announced(r)'
    BY <1>1, <1>2, <1>3, <2>2 DEF Announced, Has
  <2> QED BY <1>1, <1>3, <2>4, <2>5, <2>6, EventQuiet
<1>4. CASE /\ recording' = [recording EXCEPT ![r] = "over"]
           /\ ReleaseReserveDeletions(r, Offer("end", r))
  <2>1. recording'[r] = "over" /\ \A d \in Reserves \ {r} : recording'[d] = recording[d]
    BY <1>4 DEF TypeOK
  <2>2. recording' \in [Reserves -> {"waiting", "running", "tagging", "over"}]
    BY <1>4 DEF TypeOK
  <2>3. /\ offered' \in Seq(Commands) /\ queue' \in Seq(Commands) /\ Len(queue') <= MaxPending
        /\ held' = held \ {r} /\ EventInv' /\ QueueIsFresh'
    BY <1>1, <1>4, <2>1, EventReleases
  <2>4. TypeOK'
    BY <1>1, <2>2, <2>3 DEF TypeOK
  <2> QED BY <2>3, <2>4
<1> QED BY <1>3, <1>4 DEF FinishRecording

\* The tags are set: the end is announced, then the deletions held for it.
LEMMA FinishTaggedStep ==
    ASSUME TypeOK, EventInv, QueueIsFresh, NEW r \in Reserves, FinishTagged(r)
    PROVE  TypeOK' /\ EventInv' /\ QueueIsFresh'
<1>1. /\ recording[r] = "tagging" /\ recording' = [recording EXCEPT ![r] = "over"]
      /\ ReleaseReserveDeletions(r, Offer("end", r))
      /\ UNCHANGED <<row, past, starting, waited, running, active, job>>
  BY DEF FinishTagged, runner
<1>2. recording'[r] = "over" /\ \A d \in Reserves \ {r} : recording'[d] = recording[d]
  BY <1>1 DEF TypeOK
<1>3. recording' \in [Reserves -> {"waiting", "running", "tagging", "over"}]
  BY <1>1 DEF TypeOK
<1>4. /\ offered' \in Seq(Commands) /\ queue' \in Seq(Commands) /\ Len(queue') <= MaxPending
      /\ held' = held \ {r} /\ EventInv' /\ QueueIsFresh'
  BY <1>1, <1>2, EventReleases
<1>5. TypeOK'
  BY <1>1, <1>3, <1>4 DEF TypeOK
<1> QED BY <1>4, <1>5

\* A recording fails or is not begun.
LEMMA RecordingFailedStep ==
    ASSUME TypeOK, EventInv, QueueIsFresh, NEW r \in Reserves, RecordingFailed(r)
    PROVE  TypeOK' /\ EventInv' /\ QueueIsFresh'
<1>1. PICK commands \in {<<>>, Offer("end", r)} : ReleaseReserveDeletions(r, commands)
  BY DEF RecordingFailed
<1>2. /\ recording[r] \in {"waiting", "running"} /\ recording' = [recording EXCEPT ![r] = "over"]
      /\ UNCHANGED <<row, past, starting, waited, running, active, job>>
  BY DEF RecordingFailed, runner
<1>3. recording'[r] = "over" /\ \A d \in Reserves \ {r} : recording'[d] = recording[d]
  BY <1>2 DEF TypeOK
<1>4. recording' \in [Reserves -> {"waiting", "running", "tagging", "over"}]
  BY <1>2 DEF TypeOK
<1>5. /\ offered' \in Seq(Commands) /\ queue' \in Seq(Commands) /\ Len(queue') <= MaxPending
      /\ held' = held \ {r} /\ EventInv' /\ QueueIsFresh'
  BY <1>1, <1>2, <1>3, EventReleases
<1>6. TypeOK'
  BY <1>2, <1>4, <1>5 DEF TypeOK
<1> QED BY <1>5, <1>6

\* A reservation is deleted: that is announced now, or held for the end of its recording.
LEMMA ReserveDeletedStep ==
    ASSUME TypeOK, EventInv, QueueIsFresh, NEW r \in Reserves, ReserveDeleted(r)
    PROVE  TypeOK' /\ EventInv' /\ QueueIsFresh'
<1>1. /\ row[r] /\ row' = [row EXCEPT ![r] = FALSE]
      /\ UNCHANGED <<past, recording, starting, running, active, job>>
  BY DEF ReserveDeleted, runner
<1>2. ~row'[r] /\ \A d \in Reserves \ {r} : row'[d] = row[d]
  BY <1>1 DEF TypeOK
<1>3. row' \in [Reserves -> BOOLEAN]
  BY <1>1 DEF TypeOK
<1>4. Announced(r)
  BY DEF EventInv
<1>5. r \notin held /\ waited[r] = "no" /\ ~Has(offered, <<"delete", r>>)
  BY <1>1, <1>4 DEF Announced
<1>6. CASE AwaitsRecordingEnd(r)
  <2>1. /\ held' = held \cup {r} /\ waited' = [waited EXCEPT ![r] = "held"]
        /\ UNCHANGED <<offered, queue>>
    BY <1>6 DEF ReserveDeleted
  <2>2. waited'[r] = "held" /\ \A d \in Reserves \ {r} : waited'[d] = waited[d]
    BY <2>1 DEF TypeOK
  <2>3. waited' \in [Reserves -> {"no", "held", "limit"}]
    BY <2>1 DEF TypeOK
  <2>4. TypeOK'
    BY <1>1, <1>3, <2>1, <2>3 DEF TypeOK
  <2>5. Alone(r)
    BY <1>1, <1>2, <2>1, <2>2 DEF Alone
  <2>6. ~Has(offered, <<"end", r>>)
    BY <1>4, <1>6 DEF Announced, AwaitsRecordingEnd
  <2>7. Announced(r)'
    BY <1>1, <1>2, <1>4, <1>5, <2>1, <2>2, <2>6 DEF Announced, Has
  <2> QED BY <1>1, <2>1, <2>4, <2>5, <2>6, <2>7, EventQuiet
<1>7. CASE ~AwaitsRecordingEnd(r)
  <2>1. Add(Offer("delete", r)) /\ UNCHANGED <<held, waited>>
    BY <1>7 DEF ReserveDeleted
  <2>2. Alone(r)
    BY <1>1, <1>2, <2>1 DEF Alone
  <2>3. ASSUME \A c : Has(offered', c) => Has(offered, c) \/ c = <<"delete", r>> PROVE Announced(r)'
    <3>1. <<"end", r>> # <<"delete", r>> /\ <<"start", r>> # <<"delete", r>>
      OBVIOUS
    <3>2. /\ Has(offered', <<"end", r>>) => Has(offered, <<"end", r>>)
          /\ Has(offered', <<"start", r>>) => Has(offered, <<"start", r>>)
      BY <2>3, <3>1
    <3> QED BY <1>1, <1>2, <1>4, <1>5, <2>1, <3>2 DEF Announced
  <2>4. /\ offered' \in Seq(Commands) /\ queue' \in Seq(Commands) /\ Len(queue') <= MaxPending
        /\ EventInv' /\ QueueIsFresh'
    BY <1>1, <1>5, <2>1, <2>2, <2>3, EventOffersOne
  <2>5. TypeOK'
    BY <1>1, <1>3, <2>1, <2>4 DEF TypeOK
  <2> QED BY <2>4, <2>5
<1> QED BY <1>6, <1>7

\* The limit passes for a deletion that is held.
LEMMA HoldLimitStep ==
    ASSUME TypeOK, EventInv, QueueIsFresh, NEW r \in Reserves, HoldLimit(r)
    PROVE  TypeOK' /\ EventInv' /\ QueueIsFresh'
<1>1. /\ r \in held /\ waited' = [waited EXCEPT ![r] = "limit"]
      /\ ReleaseReserveDeletions(r, <<>>)
      /\ UNCHANGED <<row, past, recording, starting, running, active, job>>
  BY DEF HoldLimit, runner
<1>2. waited'[r] = "limit" /\ \A d \in Reserves \ {r} : waited'[d] = waited[d]
  BY <1>1 DEF TypeOK
<1>3. waited' \in [Reserves -> {"no", "held", "limit"}]
  BY <1>1 DEF TypeOK
<1>4. /\ offered' \in Seq(Commands) /\ queue' \in Seq(Commands) /\ Len(queue') <= MaxPending
      /\ held' = held \ {r} /\ EventInv' /\ QueueIsFresh'
  BY <1>1, <1>2, EventReleases
<1>5. TypeOK'
  BY <1>1, <1>3, <1>4 DEF TypeOK
<1> QED BY <1>4, <1>5

-----------------------------------------------------------------------------
(* The theorems. *)

\* What the invariant says of the events does not depend on the runner's variables.
LEMMA RunnerStep ==
    ASSUME TypeOK, EventInv, QueueIsFresh, UNCHANGED <<events, offered, queue>>,
           job' \in [Commands -> Jobs], running' \in Commands \cup {None},
           active' \in Commands \cup {None},
           \A d \in Commands : job'[d].stage = "new" <=> job[d].stage = "new"
    PROVE  TypeOK' /\ EventInv' /\ QueueIsFresh'
<1>1. UNCHANGED <<row, past, recording, starting, held, waited, offered, queue>>
  BY DEF events
<1>2. TypeOK'
  BY <1>1 DEF TypeOK
<1>3. EventInv'
  <2>1. \A r \in Reserves : Announced(r)'
    BY <1>1 DEF EventInv, Announced
  <2> QED BY <1>1, <2>1 DEF EventInv, OfferedOnce, HeldDeletionOrder
<1>4. QueueIsFresh'
  <2>1. \A i \in 1 .. Len(queue) : queue[i] \in Commands
    BY ElementOfSeq DEF TypeOK
  <2> QED BY <1>1, <2>1 DEF QueueIsFresh
<1> QED BY <1>2, <1>3, <1>4

\* The invariant holds at the start.
LEMMA InitInv == Init => IInv
<1> SUFFICES ASSUME Init PROVE IInv
  OBVIOUS
<1>1. offered = <<>> /\ queue = <<>> /\ <<>> \in Seq(Commands) /\ Len(<<>>) = 0
  BY DEF Init
<1>2. \A c \in Commands :
         /\ job[c] \in Jobs /\ job[c].stage = "new" /\ ~job[c].prep /\ job[c].child = "none"
         /\ job[c].timers = {}
  BY DEF Init, Fresh, Jobs, Timers
<1>3. job \in [Commands -> Jobs]
  BY <1>2 DEF Init
<1>4. TypeOK
  <2>1. Len(queue) <= MaxPending
    BY <1>1, HookAssumption
  <2> QED BY <1>1, <1>3, <2>1 DEF Init, TypeOK
<1>5. JobInv
  <2>1. None \notin Commands
    BY DEF None, Commands
  <2>2. running = active /\ active = None
    BY DEF Init
  <2>3. \A c \in Commands : JobFits(job[c])
    BY <1>2 DEF JobFits
  <2> QED BY <1>2, <2>1, <2>2, <2>3 DEF JobInv, Current
<1>6. ~\E i \in 1 .. 0 : TRUE
  OBVIOUS
<1>7. EventInv
  <2>1. \A c : ~Has(offered, c)
    BY <1>1, <1>6 DEF Has
  <2>2. ASSUME NEW r \in Reserves PROVE Announced(r)
    BY <2>1 DEF Init, Announced
  <2>3. OfferedOnce /\ HeldDeletionOrder
    BY <1>1, <1>6 DEF OfferedOnce, HeldDeletionOrder
  <2> QED BY <2>2, <2>3 DEF EventInv
<1>8. QueueIsFresh
  BY <1>1, <1>2, <1>6 DEF QueueIsFresh
<1> QED BY <1>4, <1>5, <1>7, <1>8 DEF IInv

\* Every step keeps the invariant.
LEMMA NextInv == IInv /\ [Next]_vars => IInv'
<1> SUFFICES ASSUME IInv, [Next]_vars PROVE IInv'
  OBVIOUS
<1>0. TypeOK /\ JobInv /\ EventInv /\ QueueIsFresh
  BY DEF IInv
<1>1. ASSUME NEW r \in Reserves,
             \/ EndPassed(r) \/ StartRecording(r) \/ StartTagged(r) \/ FinishRecording(r)
             \/ FinishTagged(r) \/ RecordingFailed(r) \/ ReserveDeleted(r) \/ HoldLimit(r)
      PROVE  IInv'
  <2>1. TypeOK' /\ EventInv' /\ QueueIsFresh'
    BY <1>0, <1>1, EndPassedStep, StartRecordingStep, StartTaggedStep, FinishRecordingStep,
       FinishTaggedStep, RecordingFailedStep, ReserveDeletedStep, HoldLimitStep
  <2>2. UNCHANGED <<running, active, job>>
    BY <1>1 DEF EndPassed, StartRecording, StartTagged, FinishRecording, FinishTagged,
                RecordingFailed, ReserveDeleted, HoldLimit, runner
  <2>3. JobInv'
    BY <1>0, <2>2 DEF JobInv
  <2> QED BY <2>1, <2>3 DEF IInv
<1>2. CASE StartCommand
  <2>1. TypeOK' /\ JobInv' /\ QueueIsFresh'
    BY <1>0, <1>2, CommandStarts
  <2>2. UNCHANGED <<row, past, recording, starting, held, waited, offered>>
    BY <1>2 DEF StartCommand, events
  <2>3. EventInv'
    <3>1. \A r \in Reserves : Announced(r)'
      BY <1>0, <2>2 DEF EventInv, Announced
    <3> QED BY <1>0, <2>2, <3>1 DEF EventInv, OfferedOnce, HeldDeletionOrder
  <2> QED BY <2>1, <2>3 DEF IInv
<1>3. ASSUME NEW c \in Commands, ReleaseCommand(c) PROVE IInv'
  <2>1. /\ job' \in [Commands -> Jobs] /\ JobInv' /\ running' = None /\ active' = None
        /\ \A d \in Commands : job'[d].stage = "new" <=> job[d].stage = "new"
    BY <1>0, <1>3, JobReleased
  <2>2. UNCHANGED <<events, offered, queue>>
    BY <1>3 DEF ReleaseCommand
  <2>3. TypeOK' /\ EventInv' /\ QueueIsFresh'
    BY <1>0, <2>1, <2>2, RunnerStep
  <2> QED BY <2>1, <2>3 DEF IInv
<1>4. ASSUME NEW c \in Commands,
             \/ PreparationEnds(c) \/ Spawn(c) \/ ChildExit(c)
             \/ \E timer \in Timers : TimerFires(c, timer)
      PROVE  IInv'
  <2>1. /\ job' \in [Commands -> Jobs] /\ JobInv'
        /\ \A d \in Commands : job'[d].stage = "new" <=> job[d].stage = "new"
        /\ UNCHANGED <<events, offered, queue, running, active>>
    BY <1>0, <1>4, JobMiddle
  <2>2. running' \in Commands \cup {None} /\ active' \in Commands \cup {None}
    BY <1>0, <2>1 DEF TypeOK
  <2>3. TypeOK' /\ EventInv' /\ QueueIsFresh'
    BY <1>0, <2>1, <2>2, RunnerStep
  <2> QED BY <2>1, <2>3 DEF IInv
<1>5. CASE UNCHANGED vars
  <2>1. /\ UNCHANGED <<row, past, recording, starting, held, waited, offered, queue>>
        /\ UNCHANGED <<running, active, job>>
    BY <1>5 DEF vars, events, runner
  <2>2. TypeOK' /\ EventInv' /\ QueueIsFresh'
    BY <1>0, <2>1, RunnerStep DEF TypeOK, events
  <2>3. JobInv'
    BY <1>0, <2>1 DEF JobInv
  <2> QED BY <2>2, <2>3 DEF IInv
<1> QED BY <1>1, <1>2, <1>3, <1>4, <1>5 DEF Next

\* The invariant holds in every reachable state.
THEOREM Invariance == Spec => []IInv
  BY InitInv, NextInv, PTL DEF Spec

\* The variables keep their types; at most hookCommandMaxPending commands wait.
THEOREM TypeCorrect == Spec => []TypeOK
<1>1. IInv => TypeOK
  BY DEF IInv
<1> QED BY <1>1, Invariance, PTL

\* A child that lives and is not watched any more has been sent both signals: no preparation
\* that ends late starts a child behind the back of its command (isPreparingCommand), and none
\* is given up before finishKillGrace.
THEOREM ChildrenAreSignalled == Spec => []NoStrayChild
<1>1. IInv => NoStrayChild
  <2> SUFFICES ASSUME IInv, NEW c \in Commands, job[c].child = "alive", active # c
               PROVE  job[c].signals = {"SIGINT", "SIGKILL"}
    BY DEF NoStrayChild
  <2>1. JobFits(job[c]) /\ job[c].stage \notin Current
    BY DEF IInv, JobInv
  <2> QED BY <2>1 DEF JobFits, Current, BothSignals
<1> QED BY <1>1, Invariance, PTL

\* A deletion that was held is announced after the end of its recording, unless the limit
\* has passed (releaseReserveDeletions), whatever the order of the events and the tags.
THEOREM HeldDeletionsFollow == Spec => []HeldDeletionOrder
<1>1. IInv => HeldDeletionOrder
  BY DEF IInv, EventInv
<1> QED BY <1>1, Invariance, PTL

\* An event is announced at most once, so no command is run twice.
THEOREM AnnouncedOnce == Spec => []OfferedOnce
<1>1. IInv => OfferedOnce
  BY DEF IInv, EventInv
<1> QED BY <1>1, Invariance, PTL
=============================================================================
