---------------------------- MODULE ForkBench -----------------------------
(***************************************************************************)
(* assignment3/forkbench.c: the processes of one run of the benchmark, the *)
(* pipes between them and the file descriptors they hold.  Process 1 is    *)
(* the program; processes 2p and 2p+1 are the children that process p      *)
(* spawns for the lower and the upper half of its range.  A pipe is named  *)
(* after the child that writes to it.                                      *)
(*                                                                         *)
(* Line 43, fdopen(fd[0], 'r'), passes the character 114 where a pointer   *)
(* is expected; the C library dereferences it and the child dies there.    *)
(* The line after it, which would send the child back into its parent's    *)
(* code, is never reached.                                                 *)
(***************************************************************************)
EXTENDS ForkTypes, FiniteSets

CONSTANT MaxFaults   \* bound on the pipe() and fork() calls that fail

ASSUME BenchAssumption ==
    /\ \A a \in Args : a[2] - a[1] < Half   \* end - start fits in an int
    /\ Junk # {}
    /\ MaxFaults \in Nat

VARIABLES
  pc,       \* pc[p]: the call process p is about to make
  turn,     \* turn[p]: which of its two children that call is about
  range,    \* range[p]: p's start and end
  res,      \* res[p]: the Result p computed; Lost when p exited without one
  heard,    \* heard[p][k]: res1 and res2, what p read from its children
  pipe,     \* pipe[c]: the Result in the pipe of child c, NoValue when empty
  fds,      \* fds[p]: p's open pipe ends, pairs <<c, "r">> and <<c, "w">>
  faults,   \* how many calls failed so far
  verdict   \* how the program ended

vars == <<pc, turn, range, res, heard, pipe, fds, faults, verdict>>

Labels == {"absent", "enter", "pipe", "fork", "wait", "read", "join", "write",
           "fdopen", "main", "zombie", "reaped"}

Parent(c) == c \div 2

\* The child the current call of p is about.
Current(p) == Child(p, turn[p])


\* start + (end - start) / 2
Mid(r) == Plus(r[1], Halved(Minus(r[2], r[1])))

\* The arguments of the k-th spawnChild call.
Part(r, k) == IF k = 1 THEN <<r[1], Mid(r)>> ELSE <<Plus(Mid(r), 1), r[2]>>

Init == \E a \in Args :
  /\ pc      = [p \in Procs |-> IF p = 1 THEN "enter" ELSE "absent"]
  /\ turn    = [p \in Procs |-> 1]
  /\ range   = [p \in Procs |-> IF p = 1 THEN a ELSE NoRange]
  /\ res     = [p \in Procs |-> NoValue]
  /\ heard   = [p \in Procs |-> [k \in 1..2 |-> NoValue]]
  /\ pipe    = [p \in Procs |-> NoValue]
  /\ fds     = [p \in Procs |-> {}]
  /\ faults  = 0
  /\ verdict = "running"

Goto(p, label) == pc' = [pc EXCEPT ![p] = label]

\* Where forkbench() returns to: spawnChild in a child, main in process 1.
Caller(p) == IF p = 1 THEN "main" ELSE "write"

\* p exits: the kernel closes its descriptors and keeps it for its parent.
Exit(p) ==
  /\ Goto(p, "zombie")
  /\ fds' = [fds EXCEPT ![p] = {}]

---------------------------------------------------------------------------
\* forkbench(start, end) is entered: a leaf returns its own number.
Enter(p) ==
  /\ pc[p] = "enter"
  /\ IF Leaf(range[p])
       THEN /\ res' = [res EXCEPT ![p] = [sum |-> range[p][1], num |-> 1]]
            /\ Goto(p, Caller(p))
       ELSE /\ UNCHANGED res
            /\ Goto(p, "pipe")
  /\ UNCHANGED <<turn, range, heard, pipe, fds, faults, verdict>>

MakePipe(p) ==
  /\ pc[p] = "pipe"
  /\ Current(p) \in Procs
  /\ fds' = [fds EXCEPT ![p] = @ \cup {<<Current(p), "r">>, <<Current(p), "w">>}]
  /\ Goto(p, "fork")
  /\ UNCHANGED <<turn, range, res, heard, pipe, faults, verdict>>

\* The child starts with copies of its parent's descriptors.
Fork(p) ==
  /\ pc[p] = "fork"
  /\ pc'    = [pc EXCEPT ![p] = "wait", ![Current(p)] = "enter"]
  /\ range' = [range EXCEPT ![Current(p)] = Part(range[p], turn[p])]
  /\ fds'   = [fds EXCEPT ![Current(p)] = fds[p]]
  /\ UNCHANGED <<turn, res, heard, pipe, faults, verdict>>

\* pipe() or fork() fails: perror and exit(EXIT_FAILURE), with no Result.
CallFails(p) ==
  /\ pc[p] \in {"pipe", "fork"}
  /\ faults < MaxFaults
  /\ faults' = faults + 1
  /\ res' = [res EXCEPT ![p] = Lost]
  /\ verdict' = IF p = 1 THEN "aborted" ELSE verdict
  /\ Exit(p)
  /\ UNCHANGED <<turn, range, heard, pipe>>

Zombies(p)  == {c \in Procs : Parent(c) = p /\ pc[c] = "zombie"}
Children(p) == {c \in Procs : Parent(c) = p /\ pc[c] \notin {"absent", "reaped"}}

\* wait(NULL) returns at label next: any child that has exited is reaped,
\* whatever its status; a process without children gets an error instead.
WaitReturns(p, next) ==
  \/ \E c \in Zombies(p) : pc' = [pc EXCEPT ![p] = next, ![c] = "reaped"]
  \/ Children(p) = {} /\ Goto(p, next)

\* Mutant: spawnChild does not wait for the first child.
WaitChildParallel(p) ==
  /\ pc[p] = "wait"
  /\ IF turn[p] = 1 THEN Goto(p, "pipe") ELSE WaitReturns(p, "read")
  /\ fds'  = [fds EXCEPT ![p] = @ \ {<<Current(p), "w">>}]
  /\ turn' = [turn EXCEPT ![p] = 3 - @]
  /\ UNCHANGED <<range, res, heard, pipe, faults, verdict>>

\* Mutant: spawnChild keeps the write end open.
WaitChildKeepsEnd(p) ==
  /\ pc[p] = "wait"
  /\ WaitReturns(p, IF turn[p] = 1 THEN "pipe" ELSE "read")
  /\ turn' = [turn EXCEPT ![p] = 3 - @]
  /\ UNCHANGED <<range, res, heard, pipe, fds, faults, verdict>>

\* spawnChild waits for the child before it returns the read end.
WaitChild(p) ==
  /\ pc[p] = "wait"
  /\ WaitReturns(p, IF turn[p] = 1 THEN "pipe" ELSE "read")
  /\ fds'  = [fds EXCEPT ![p] = @ \ {<<Current(p), "w">>}]
  /\ turn' = [turn EXCEPT ![p] = 3 - @]
  /\ UNCHANGED <<range, res, heard, pipe, faults, verdict>>

Writers(c) == {q \in Procs : <<c, "w">> \in fds[q]}
Readers(c) == {q \in Procs : <<c, "r">> \in fds[q]}

\* readChild: read() blocks while the pipe is empty and has a writer; on an
\* empty pipe without writers it returns 0 and r stays uninitialised.
ReadChild(p) ==
  LET c == Current(p) IN
  /\ pc[p] = "read"
  /\ \/ /\ pipe[c] # NoValue
        /\ heard' = [heard EXCEPT ![p][turn[p]] = pipe[c]]
     \/ /\ pipe[c] = NoValue
        /\ Writers(c) = {}
        /\ \E r \in Junk : heard' = [heard EXCEPT ![p][turn[p]] = r]
  /\ pipe' = [pipe EXCEPT ![c] = NoValue]
  /\ fds'  = [fds EXCEPT ![p] = @ \ {<<c, "r">>}]
  /\ turn' = [turn EXCEPT ![p] = 3 - @]
  /\ Goto(p, IF turn[p] = 1 THEN "read" ELSE "join")
  /\ UNCHANGED <<range, res, faults, verdict>>

\* Mutant: the process itself is not counted.
JoinedUncounted(a, b) == [sum |-> Plus(a.sum, b.sum), num |-> Plus(a.num, b.num)]

Joined(a, b) == [sum |-> Plus(a.sum, b.sum), num |-> Plus(Plus(a.num, b.num), 1)]

\* The two wait(0) calls of forkbench, then its return.
JoinChildren(p) ==
  /\ pc[p] = "join"
  /\ turn' = [turn EXCEPT ![p] = 3 - @]
  /\ WaitReturns(p, IF turn[p] = 1 THEN "join" ELSE Caller(p))
  /\ res' = IF turn[p] = 1 THEN res
            ELSE [res EXCEPT ![p] = Joined(heard[p][1], heard[p][2])]
  /\ UNCHANGED <<range, heard, pipe, fds, faults, verdict>>

\* The child closes its read end, writes its Result and closes the write end.
\* A write with no reader left would kill it.
WriteResult(p) ==
  /\ pc[p] = "write"
  /\ IF Readers(p) \ {p} # {}
       THEN /\ pipe' = [pipe EXCEPT ![p] = res[p]]
            /\ fds'  = [fds EXCEPT ![p] = @ \ {<<p, "r">>, <<p, "w">>}]
            /\ Goto(p, "fdopen")
       ELSE /\ Exit(p)
            /\ UNCHANGED pipe
  /\ UNCHANGED <<turn, range, res, heard, faults, verdict>>

\* fdopen(fd[0], 'r') dereferences address 114: the child dies of SIGSEGV.
Fdopen(p) ==
  /\ pc[p] = "fdopen"
  /\ Exit(p)
  /\ UNCHANGED <<turn, range, res, heard, pipe, faults, verdict>>

\* Mutant: start is not added back.
TestExclusive(a) == Minus(Halved(Times(a[2], Plus(a[2], 1))),
                          Halved(Times(a[1], Plus(a[1], 1))))

\* The result main expects, in int arithmetic.
Test(a) == Plus(Minus(Halved(Times(a[2], Plus(a[2], 1))),
                      Halved(Times(a[1], Plus(a[1], 1)))), a[1])

\* main compares the sum with the formula and exits.
Main(p) ==
  /\ pc[p] = "main"
  /\ verdict' = IF Test(range[p]) = res[p].sum THEN "correct" ELSE "wrong"
  /\ Exit(p)
  /\ UNCHANGED <<turn, range, res, heard, pipe, faults>>

Step(p) == \/ Enter(p)
           \/ MakePipe(p)
           \/ Fork(p)
           \/ WaitChild(p)
           \/ ReadChild(p)
           \/ JoinChildren(p)
           \/ WriteResult(p)
           \/ Fdopen(p)
           \/ Main(p)

\* The program is over; nothing is left to run.
Finished == /\ verdict # "running"
            /\ UNCHANGED vars

Next == \/ \E p \in Procs : Step(p) \/ CallFails(p)
        \/ Finished

Spec == Init /\ [][Next]_vars

\* The kernel schedules every process that can run.  Nothing makes a call fail.
FairSpec == Spec /\ \A p \in Procs : WF_vars(Step(p))
---------------------------------------------------------------------------
(* Properties *)

Entries == UNION {{<<c, "r">>, <<c, "w">>} : c \in Procs}

TypeOK ==
  /\ pc \in [Procs -> Labels]
  /\ turn \in [Procs -> 1..2]
  /\ range \in [Procs -> Ranges \cup {NoRange}]
  /\ res \in [Procs -> Result \cup {NoValue, Lost}]
  /\ heard \in [Procs -> [1..2 -> Result \cup {NoValue}]]
  /\ pipe \in [Procs -> Result \cup {NoValue}]
  /\ fds \in [Procs -> SUBSET Entries]
  /\ faults \in 0..MaxFaults
  /\ verdict \in {"running", "correct", "wrong", "aborted"}

\* A process that can run, or one whose end its parent has not seen yet.
Active(p) == pc[p] \notin {"absent", "wait", "reaped"}

\* The two "parallel" children never run at the same time: spawnChild waits
\* before it returns (line 49), so the whole tree has one process at work
\* and the benchmark measures forks one after the other.
OneRunner == \A p, q \in Procs : Active(p) /\ Active(q) => p = q

\* The wait in spawnChild (line 49) takes any child; the one it finds is
\* always the child just forked, so no result is read before it is written.
WaitsForOwn ==
  [][\A p, c \in Procs :
       pc[p] = "wait" /\ pc'[p] # "wait" /\ pc[c] = "zombie" /\ pc'[c] = "reaped"
         => c = Current(p)]_vars

\* The read in readChild (line 64) never blocks: by then the pipe holds a
\* Result, or no process of the tree, however deep, still has its write end.
ReadNeverBlocks ==
  \A p \in Procs : pc[p] = "read" =>
     pipe[Current(p)] # NoValue \/ Writers(Current(p)) = {}

Depth[p \in Nat] == IF p <= 1 THEN 0 ELSE 1 + Depth[Parent(p)]

\* Descriptors grow with the depth of the tree and not with its size: three
\* for each level, in spite of the copies every fork makes.
FdBound == \A p \in Procs : Cardinality(fds[p]) <= 3 * (Depth[p] + 1)

AllHeard == \A p \in Procs : res[p] # Lost

Fits(x) == x \in Ints

\* main (lines 139-146) raises no false alarm: with no failed call, a range in
\* order, and start*(start+1) and end*(end+1) within an int, it never
\* reports a wrong result.
NoFalseAlarm ==
  LET a == range[1] IN
  AllHeard /\ a[1] <= a[2] /\ Fits(a[1] * (a[1] + 1)) /\ Fits(a[2] * (a[2] + 1))
    => verdict # "wrong"

\* Failed calls and all, the program always comes to an end: no wait and no
\* read of lines 49, 64, 94 and 95 is for ever.
Terminates == <>(verdict # "running")

\* The processes and their pipes implement the divide-and-conquer sum.
Tree == INSTANCE ForkTree WITH value <- res
ImplementsTree == Tree!Spec

\* Unless a call failed, every Result is the sum of its process's range, up
\* to the width of an int, and counts the processes below and itself
\* (forkbench, lines 75-96).
SumsRight == Tree!SumsRight

===========================================================================
