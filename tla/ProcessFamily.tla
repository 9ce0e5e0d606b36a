--------------------------- MODULE ProcessFamily ---------------------------
(***************************************************************************)
(* A family of processes made with libprocess: Template::Run forks, parent *)
(* and child close the end of the socket pair they do not use and enter    *)
(* each other in their maps; SIGCHLD runs SignalCommonCallback_SIGCHLD,    *)
(* which reaps one child, calls its dead callback and drops its entry.     *)
(*                                                                         *)
(* Every call of Run has a number; a process is known by its pid, which    *)
(* the kernel gives again once the process was reaped, and by the number   *)
(* of the Run that made it.  A map holds the number of an entry's Run      *)
(* under the entry's pid, 0 where there is no entry.                       *)
(*                                                                         *)
(* Root has registered the handler before its first Run, as the test does; *)
(* children inherit it.                                                    *)
(*                                                                         *)
(* A process has two frames: "main", and "sig" while the handler runs on   *)
(* top of it (SIGCHLD is blocked meanwhile: signal::Action never sets      *)
(* SA_NODEFER).  A dead callback may itself call Run.  A process forked by *)
(* one starts with SIGCHLD blocked and, as _run_main ends in exit(0), it   *)
(* never returns from the handler it was forked in.                        *)
(***************************************************************************)
EXTENDS Naturals, FiniteSets

CONSTANTS
  Pid,          \* the process identifiers the kernel hands out
  Root,         \* the first process, which lives throughout
  MaxRuns       \* bound: calls of Run in one behaviour

ASSUME FamilyAssumption == Root \in Pid /\ 0 \notin Pid /\ MaxRuns \in Nat

VARIABLES
  state, ppid,      \* the kernel's table: state and parent of each process
  run,              \* the Run that made the process, 0 for Root
  pid_,             \* Handler::pid_
  child_map,        \* Handler::child_map_
  parent_map,       \* Handler::parent_map_
  fds,              \* the ends of socket pairs the process has open
  pending, blocked, \* SIGCHLD is pending, is blocked
  pc, cur, kid,     \* per frame: where it is, the number and pid of its Run
  dead,             \* per process: the pid its handler reaped
  runs,             \* the number of calls of Run so far
  died,             \* the Runs whose process is dead
  called            \* per Run: the calls of its dead callback

handler == <<pid_, child_map, parent_map, fds>>
vars == <<state, ppid, run, handler, pending, blocked, pc, cur, kid, dead,
          runs, died, called>>

Runs == 1..MaxRuns
Frames == {"main", "sig"}
Ends == {"toParent", "toChild"}   \* fd_pair[ParentSockFDIndex], fd_pair[ChildSockFDIndex]
End(k, e) == <<k, e>>
Pair(k) == {End(k, "toParent"), End(k, "toChild")}
Entries(map) == {map[c] : c \in Pid} \ {0}
NoEntries == [c \in Pid |-> 0]
AddParent(map, q, k) == IF map[q] # 0 THEN map ELSE [map EXCEPT ![q] = k]
DelChild(map, c) == [map EXCEPT ![c] = 0]

Live(p) == state[p] = "running"
Zombies(p) == {c \in Pid : state[c] = "zombie" /\ ppid[c] = p}

\* The frame that has the processor: the handler, while there is one.
Running(p, f) == Live(p) /\ f = (IF pc[p].sig = "none" THEN "main" ELSE "sig")
At(p, f, l) == Running(p, f) /\ pc[p][f] = l
Goto(p, f, l) == pc' = [pc EXCEPT ![p][f] = l]

Init ==
  /\ state = [p \in Pid |-> IF p = Root THEN "running" ELSE "free"]
  /\ ppid = [p \in Pid |-> 0] /\ run = [p \in Pid |-> 0]
  /\ pid_ = [p \in Pid |-> p]
  /\ child_map = [p \in Pid |-> NoEntries] /\ parent_map = [p \in Pid |-> NoEntries]
  /\ fds = [p \in Pid |-> {}]
  /\ pending = [p \in Pid |-> FALSE] /\ blocked = [p \in Pid |-> FALSE]
  /\ pc = [p \in Pid |-> [main |-> "user", sig |-> "none"]]
  /\ cur = [p \in Pid |-> [f \in Frames |-> 0]]
  /\ kid = [p \in Pid |-> [f \in Frames |-> 0]]
  /\ dead = [p \in Pid |-> 0]
  /\ runs = 0 /\ died = {} /\ called = [k \in Runs |-> 0]

(***************************************************************************)
(* Template::Run, in the calling process.                                  *)
(***************************************************************************)
\* Where a frame calls Run from, and where it goes on after it.
Home(f) == IF f = "main" THEN "user" ELSE "callback"

SocketPair(p, f) ==
  /\ At(p, f, Home(f)) /\ runs < MaxRuns
  /\ runs' = runs + 1
  /\ cur' = [cur EXCEPT ![p][f] = runs']
  /\ fds' = [fds EXCEPT ![p] = @ \union Pair(runs')]
  /\ Goto(p, f, "pair")
  /\ UNCHANGED <<state, ppid, run, pid_, child_map, parent_map, pending, blocked,
                 kid, dead, died, called>>

\* The child starts with copies of everything the process has, except the
\* pending signals, in the frame that forked.
Fork(p, f) ==
  /\ At(p, f, "pair")
  /\ \E c \in Pid :
       /\ state[c] = "free"
       /\ state' = [state EXCEPT ![c] = "running"]
       /\ ppid' = [ppid EXCEPT ![c] = p]
       /\ run' = [run EXCEPT ![c] = cur[p][f]]
       /\ pid_' = [pid_ EXCEPT ![c] = pid_[p]]
       /\ child_map' = [child_map EXCEPT ![c] = child_map[p]]
       /\ parent_map' = [parent_map EXCEPT ![c] = parent_map[p]]
       /\ fds' = [fds EXCEPT ![c] = fds[p]]
       /\ pending' = [pending EXCEPT ![c] = FALSE]
       /\ blocked' = [blocked EXCEPT ![c] = blocked[p]]
       /\ kid' = [kid EXCEPT ![p][f] = c]
       /\ pc' = [[pc EXCEPT ![p][f] = "forked"] EXCEPT ![c] = [main |-> "child", sig |-> "none"]]
  /\ UNCHANGED <<cur, dead, runs, died, called>>

ForkFails(p, f) ==
  /\ At(p, f, "pair")
  /\ fds' = [fds EXCEPT ![p] = @ \ Pair(cur[p][f])]
  /\ Goto(p, f, Home(f))
  /\ UNCHANGED <<state, ppid, run, pid_, child_map, parent_map, pending, blocked,
                 cur, kid, dead, runs, died, called>>

\* Variant: an entry under the same pid is replaced.
AddChildReplacing(map, c, k) == [map EXCEPT ![c] = k]

\* An entry under the same pid stays: PROCESS_CHILD_EEXIST.
AddChild(map, c, k) == IF map[c] # 0 THEN map ELSE [map EXCEPT ![c] = k]

\* The parent keeps its end of the pair in the entry.  A Child that was
\* refused closes it when it goes out of scope, and Run succeeds all the same.
Register(p, f) ==
  /\ At(p, f, "forked")
  /\ LET k == cur[p][f]  c == kid[p][f] IN
       /\ child_map' = [child_map EXCEPT ![p] = AddChild(@, c, k)]
       /\ fds' = [fds EXCEPT ![p] =
                    @ \ (IF child_map'[p][c] = k THEN {End(k, "toParent")} ELSE Pair(k))]
  /\ Goto(p, f, Home(f))
  /\ UNCHANGED <<state, ppid, run, pid_, parent_map, pending, blocked, cur, kid,
                 dead, runs, died, called>>

(***************************************************************************)
(* Template::Run, in the child.                                            *)
(***************************************************************************)
\* The ends that the entries of a process own.
Owned(p) == {End(k, "toChild") : k \in Entries(child_map[p])}
              \union {End(k, "toParent") : k \in Entries(parent_map[p])}

\* Variant: the inherited entries go without closing their ends.
ChildSetupNoAutoClose(p) ==
  /\ At(p, "main", "child")
  /\ fds' = [fds EXCEPT ![p] = @ \ {End(run[p], "toChild")}]
  /\ child_map' = [child_map EXCEPT ![p] = NoEntries]
  /\ parent_map' = [parent_map EXCEPT ![p] = AddParent(NoEntries, pid_[p], run[p])]
  /\ pid_' = [pid_ EXCEPT ![p] = p]
  /\ Goto(p, "main", "user")
  /\ UNCHANGED <<state, ppid, run, pending, blocked, cur, kid, dead, runs, died, called>>

\* Variant: the process takes its own pid before it notes its parent's.
ChildSetupPidFirst(p) ==
  /\ At(p, "main", "child")
  /\ fds' = [fds EXCEPT ![p] = @ \ ({End(run[p], "toChild")} \union Owned(p))]
  /\ child_map' = [child_map EXCEPT ![p] = NoEntries]
  /\ pid_' = [pid_ EXCEPT ![p] = p]
  /\ parent_map' = [parent_map EXCEPT ![p] = AddParent(NoEntries, p, run[p])]
  /\ Goto(p, "main", "user")
  /\ UNCHANGED <<state, ppid, run, pending, blocked, cur, kid, dead, runs, died, called>>

\* The child drops the entries it inherited, which closes their ends, and
\* enters its parent under the pid the parent's Handler had.
ChildSetup(p) ==
  /\ At(p, "main", "child")
  /\ fds' = [fds EXCEPT ![p] = @ \ ({End(run[p], "toChild")} \union Owned(p))]
  /\ child_map' = [child_map EXCEPT ![p] = NoEntries]
  /\ parent_map' = [parent_map EXCEPT ![p] = AddParent(NoEntries, pid_[p], run[p])]
  /\ pid_' = [pid_ EXCEPT ![p] = p]
  /\ Goto(p, "main", "user")
  /\ UNCHANGED <<state, ppid, run, pending, blocked, cur, kid, dead, runs, died, called>>

(***************************************************************************)
(* A process ends, anywhere: it returns from its main function or it is    *)
(* killed.  Its children go to init, which reaps them at once.             *)
(***************************************************************************)
Exit(p) ==
  /\ Live(p) /\ p # Root
  /\ state' = [c \in Pid |->
                 IF c = p THEN (IF ppid[p] = 0 THEN "free" ELSE "zombie")
                 ELSE IF c \in Zombies(p) THEN "free" ELSE state[c]]
  /\ ppid' = [c \in Pid |-> IF ppid[c] = p THEN 0 ELSE ppid[c]]
  /\ died' = died \union {run[p]}
  /\ fds' = [fds EXCEPT ![p] = {}]
  /\ child_map' = [child_map EXCEPT ![p] = NoEntries]
  /\ parent_map' = [parent_map EXCEPT ![p] = NoEntries]
  /\ pending' = [c \in Pid |-> c # p /\ (pending[c] \/ c = ppid[p])]
  /\ UNCHANGED <<run, pid_, blocked, pc, cur, kid, dead, runs, called>>

\* A child that is stopped or continued raises SIGCHLD too: signal::Action
\* does not set SA_NOCLDSTOP.
ChildStops(c) ==
  /\ Live(c) /\ ppid[c] # 0
  /\ pending' = [pending EXCEPT ![ppid[c]] = TRUE]
  /\ UNCHANGED <<state, ppid, run, handler, blocked, pc, cur, kid, dead, runs, died, called>>

(***************************************************************************)
(* SignalCommonCallback_SIGCHLD.                                           *)
(***************************************************************************)
\* Variant: the handler can be interrupted by itself.
DeliverUnblocked(p) ==
  /\ Live(p) /\ pending[p] /\ ~blocked[p]
  /\ pending' = [pending EXCEPT ![p] = FALSE]
  /\ Goto(p, "sig", "handler")
  /\ UNCHANGED <<blocked, state, ppid, run, handler, cur, kid, dead, runs, died, called>>

\* Variant: a signal that comes while the process is in Run is dropped.
DeliverOutsideRun(p) ==
  /\ Live(p) /\ pending[p] /\ ~blocked[p]
  /\ pending' = [pending EXCEPT ![p] = FALSE]
  /\ IF pc[p].main = "user"
     THEN blocked' = [blocked EXCEPT ![p] = TRUE] /\ Goto(p, "sig", "handler")
     ELSE UNCHANGED <<blocked, pc>>
  /\ UNCHANGED <<state, ppid, run, handler, cur, kid, dead, runs, died, called>>

Deliver(p) ==
  /\ Live(p) /\ pending[p] /\ ~blocked[p]
  /\ pending' = [pending EXCEPT ![p] = FALSE]
  /\ blocked' = [blocked EXCEPT ![p] = TRUE]
  /\ Goto(p, "sig", "handler")
  /\ UNCHANGED <<state, ppid, run, handler, cur, kid, dead, runs, died, called>>

HandlerReturns(p) ==
  /\ blocked' = [blocked EXCEPT ![p] = FALSE]
  /\ Goto(p, "sig", "none")

\* waitpid returns 0 or an error.
HandlerNothing(p) ==
  /\ At(p, "sig", "handler") /\ Zombies(p) = {}
  /\ HandlerReturns(p)
  /\ UNCHANGED <<state, ppid, run, handler, pending, cur, kid, dead, runs, died, called>>

\* waitpid reaps one child, whichever, which has no entry ...
HandlerUnknown(p) ==
  /\ At(p, "sig", "handler")
  /\ \E c \in Zombies(p) :
       /\ child_map[p][c] = 0
       /\ state' = [state EXCEPT ![c] = "free"]
  /\ HandlerReturns(p)
  /\ UNCHANGED <<ppid, run, handler, pending, cur, kid, dead, runs, died, called>>

\* ... or has one, whose callback is called (an unset callback does nothing).
HandlerDead(p) ==
  /\ At(p, "sig", "handler")
  /\ \E c \in Zombies(p) :
       /\ child_map[p][c] # 0
       /\ state' = [state EXCEPT ![c] = "free"]
       /\ dead' = [dead EXCEPT ![p] = c]
       /\ called' = [called EXCEPT ![child_map[p][c]] = @ + 1]
  /\ Goto(p, "sig", "callback")
  /\ UNCHANGED <<ppid, run, handler, pending, blocked, cur, kid, runs, died>>

\* Variant: the entry stays.
CallbackEndKeeps(p) ==
  /\ At(p, "sig", "callback")
  /\ HandlerReturns(p)
  /\ UNCHANGED <<state, ppid, run, handler, pending, cur, kid, dead, runs, died, called>>

\* DelChild: the entry goes and its end of the pair is closed.
CallbackEnd(p) ==
  /\ At(p, "sig", "callback")
  /\ fds' = [fds EXCEPT ![p] = @ \ {End(child_map[p][dead[p]], "toChild")}]
  /\ child_map' = [child_map EXCEPT ![p] = DelChild(@, dead[p])]
  /\ HandlerReturns(p)
  /\ UNCHANGED <<state, ppid, run, pid_, parent_map, pending, cur, kid, dead, runs, died, called>>

-----------------------------------------------------------------------------
RunStep(p) == \E f \in Frames : Fork(p, f) \/ ForkFails(p, f) \/ Register(p, f)
HandlerStep(p) == HandlerNothing(p) \/ HandlerUnknown(p) \/ HandlerDead(p) \/ CallbackEnd(p)

Next == \E p \in Pid :
  \/ \E f \in Frames : SocketPair(p, f)
  \/ RunStep(p) \/ ChildSetup(p) \/ Exit(p) \/ ChildStops(p) \/ Deliver(p) \/ HandlerStep(p)

\* A process that can run does, its callbacks return, and a signal that is
\* pending and not blocked is delivered; nobody has to call Run or to end.
Fairness == \A p \in Pid :
  WF_vars(RunStep(p)) /\ WF_vars(ChildSetup(p)) /\ WF_vars(Deliver(p)) /\ WF_vars(HandlerStep(p))

Spec == Init /\ [][Next]_vars /\ Fairness

-----------------------------------------------------------------------------
(***************************************************************************)
(* Properties.                                                             *)
(***************************************************************************)
Calls == 0..MaxRuns

\* The types; and the handler is never entered while it runs.
TypeOK ==
  /\ state \in [Pid -> {"free", "running", "zombie"}]
  /\ ppid \in [Pid -> Pid \union {0}] /\ run \in [Pid -> Calls] /\ pid_ \in [Pid -> Pid]
  /\ child_map \in [Pid -> [Pid -> Calls]] /\ parent_map \in [Pid -> [Pid -> Calls]]
  /\ fds \in [Pid -> SUBSET (Runs \X Ends)]
  /\ pending \in [Pid -> BOOLEAN] /\ blocked \in [Pid -> BOOLEAN]
  /\ pc \in [Pid -> [main : {"child", "user", "pair", "forked"},
                     sig : {"none", "handler", "callback", "pair", "forked"}]]
  /\ cur \in [Pid -> [Frames -> Calls]] /\ kid \in [Pid -> [Frames -> Pid \union {0}]]
  /\ dead \in [Pid -> Pid \union {0}]
  /\ runs \in Calls /\ died \subseteq Runs /\ called \in [Runs -> Nat]
  /\ \A p \in Pid : Live(p) /\ pc[p].sig # "none" => blocked[p]

\* A dead callback is called at most once for each Run, and never while the
\* process of that Run lives, however pids are used again and callbacks fork.
CalledOnceWhenDead ==
  \A k \in Runs : called[k] > 0 => called[k] = 1 /\ k \in died

\* A process that had SIGCHLD blocked by a handler it was forked in.
ForkedInHandler(p) == Live(p) /\ blocked[p] /\ pc[p].sig = "none"

\* A frame of the process is inside Run and holds its pair of ends.
Held(p) == UNION {Pair(cur[p][f]) : f \in {f \in Frames : pc[p][f] \in {"pair", "forked"}}}

\* The ends a process has open are those its entries own and those of the
\* Runs it is in: none is closed under an entry, none stays open without one,
\* and none of a sibling's or of a grandparent's is kept.  A process forked
\* in a handler may keep the ends of the Run the handler interrupted.
EndsOwned ==
  \A p \in Pid : Live(p) /\ pc[p].main # "child" =>
    /\ Owned(p) \union Held(p) \subseteq fds[p]
    /\ ~ForkedInHandler(p) => fds[p] = Owned(p) \union Held(p)

\* A process that was set up knows exactly one parent, the process that
\* called its Run, and holds the end of that Run's pair.
ParentKnown ==
  \A p \in Pid : Live(p) /\ p # Root /\ pc[p].main # "child" =>
    /\ pid_[p] = p
    /\ \E q \in Pid : parent_map[p] = [NoEntries EXCEPT ![q] = run[p]]
                      /\ ppid[p] \in {0, q}

\* A parent forgets a child only when the child is dead.
LiveChildKept ==
  [][\A p, c \in Pid :
       Live(p) /\ Live(c) /\ ppid[c] = p /\ child_map[p][c] = run[c] /\ ppid'[c] = p
         => child_map'[p][c] = child_map[p][c]]_vars

\* The child of Run k has an entry with its parent and died.
RegisteredDead(p, k) ==
  Live(p) /\ k \in died /\ \E c \in Pid : child_map[p][c] = k /\ pc[p].main # "child"

Gone(p) == ~Live(p)

\* Two deaths of children of p meet: the second comes before the first is
\* reaped, or a child is dead before Run entered it.
Meet(p) ==
  \/ Cardinality(Zombies(p)) > 1
  \/ \E f \in Frames : pc[p][f] = "forked" /\ cur[p][f] \in died

\* As long as deaths do not meet, and the process was not forked in a handler,
\* every registered child that dies gets its callback and leaves the map.
LoneDeathNotified ==
  \A p \in Pid, k \in Runs :
    []~(Meet(p) \/ ForkedInHandler(p)) =>
      (RegisteredDead(p, k) ~> ((called[k] = 1 /\ k \notin Entries(child_map[p])) \/ Gone(p)))

\* What the comment at SignalCommonCallback_SIGCHLD says: the callback that
\* was registered for a child is called when the child is dead.
DeadChildNotified ==
  \A p \in Pid, k \in Runs : RegisteredDead(p, k) ~> (called[k] = 1 \/ Gone(p))
-----------------------------------------------------------------------------
(***************************************************************************)
(* The invariant of the proofs.                                            *)
(***************************************************************************)
IsSetUp(p) == Live(p) /\ pc[p].main # "child"
InRun(p, f) == Live(p) /\ pc[p][f] \in {"pair", "forked"}
Reporting(p) == Live(p) /\ pc[p].sig \in {"callback", "pair", "forked"}

\* The process of Run k is dead, or is the child of p under pid c.
ChildOrDead(p, c, k) == k \in died \/ (Live(c) /\ run[c] = k /\ ppid[c] = p)

\* Parents live, and are others; a process that was not set up has no children and no handler.
Kernel ==
  /\ Live(Root) /\ ppid[Root] = 0 /\ run[Root] = 0 /\ pc[Root].main # "child"
  /\ \A c \in Pid : ppid[c] # c /\ (ppid[c] # 0 => Live(ppid[c]))
  /\ \A c \in Pid : Live(c) /\ pc[c].main = "child" =>
       /\ pc[c].sig = "none" /\ ~pending[c]
       /\ \A d \in Pid : ppid[d] # c

\* Processes have different Runs, and those of the dead are noted.
Numbers ==
  /\ died \subseteq 1..runs
  /\ \A c \in Pid : state[c] # "free" /\ c # Root =>
       run[c] \in 1..runs /\ (state[c] = "zombie" <=> run[c] \in died)
  /\ \A c, d \in Pid : state[c] # "free" /\ state[d] # "free" /\ run[c] = run[d] => c = d
  /\ \A k \in Runs : k > runs => called[k] = 0

\* A frame in Run has a number that no process has before it forked, and that
\* of its child afterwards.
NumberTrue(p, f) ==
  /\ cur[p][f] \in 1..runs /\ called[cur[p][f]] = 0
  /\ pc[p][f] = "pair" =>
       cur[p][f] \notin died /\ \A c \in Pid : state[c] # "free" => run[c] # cur[p][f]
  /\ pc[p][f] = "forked" => kid[p][f] \in Pid /\ ChildOrDead(p, kid[p][f], cur[p][f])

UnderWay == \A p \in Pid, f \in Frames : InRun(p, f) => NumberTrue(p, f)

\* An entry is that of a child under its pid, or of a process that is dead.
EntryTrue ==
  \A p, c \in Pid : IsSetUp(p) /\ child_map[p][c] # 0 => ChildOrDead(p, c, child_map[p][c])

\* A number is in one frame or in one entry.
OnePlace ==
  /\ \A p, q \in Pid, f, g \in Frames :
       InRun(p, f) /\ InRun(q, g) /\ cur[p][f] = cur[q][g] => p = q /\ f = g
  /\ \A p, q, c \in Pid, f \in Frames :
       InRun(p, f) /\ IsSetUp(q) => child_map[q][c] # cur[p][f]
  /\ \A p, q, c, d \in Pid :
       IsSetUp(p) /\ IsSetUp(q) /\ child_map[p][c] # 0 /\ child_map[p][c] = child_map[q][d]
         => p = q /\ c = d

\* The entry whose callback was called is the one that the handler is about to
\* drop.
CalledOnce ==
  /\ CalledOnceWhenDead
  /\ \A p, c \in Pid :
       IsSetUp(p) /\ child_map[p][c] # 0 /\ called[child_map[p][c]] # 0 => Reporting(p) /\ dead[p] = c
  /\ \A p \in Pid : Reporting(p) => dead[p] \in Pid /\ child_map[p][dead[p]] \in died

\* A child that was not set up has its parent's Handler, whose pid_ tells the
\* parent.
Parents ==
  /\ ParentKnown
  /\ pid_[Root] = Root /\ parent_map[Root] = NoEntries
  /\ \A p \in Pid : Live(p) /\ pc[p].main = "child" => ppid[p] \in {0, pid_[p]}

\* An entry of p owns end e of the pair of Run k; p is inside Run k.
Owns(p, k, e) ==
  k # 0 /\ \E c \in Pid : k = IF e = "toChild" THEN child_map[p][c] ELSE parent_map[p][c]
Holds(p, k) == \E f \in Frames : pc[p][f] \in {"pair", "forked"} /\ cur[p][f] = k

\* EndsOwned, end by end.
EndRight(p, k, e) ==
  /\ Owns(p, k, e) \/ Holds(p, k) => End(k, e) \in fds[p]
  /\ ~ForkedInHandler(p) /\ End(k, e) \in fds[p] => Owns(p, k, e) \/ Holds(p, k)

EndsRight == \A p \in Pid, k \in Runs, e \in Ends : IsSetUp(p) => EndRight(p, k, e)

\* A child that was not set up has the ends that its parent's entries own and
\* both of its own.
EndCopied(p, k, e) ==
  /\ k = run[p] /\ e = "toParent" => ~Owns(p, k, e)
  /\ Owns(p, k, e) \/ k = run[p] => End(k, e) \in fds[p]
  /\ ~blocked[p] /\ End(k, e) \in fds[p] => Owns(p, k, e) \/ k = run[p]

Inherited ==
  \A p \in Pid, k \in Runs, e \in Ends :
    Live(p) /\ pc[p].main = "child" => EndCopied(p, k, e)

IInv ==
  /\ TypeOK /\ Kernel /\ Numbers /\ UnderWay /\ EntryTrue /\ OnePlace
  /\ CalledOnce /\ Parents /\ EndsRight /\ Inherited
=============================================================================
