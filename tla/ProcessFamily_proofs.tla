------------------------ MODULE ProcessFamily_proofs ------------------------
(***************************************************************************)
(* Proofs about ProcessFamily: IInv is an invariant of the specification,  *)
(* and from it TypeOK, CalledOnceWhenDead, ParentKnown, EndsOwned and the  *)
(* action property LiveChildKept follow.                                   *)
(*                                                                         *)
(* The actions write whole tables with EXCEPT.  The first part says once   *)
(* and for all what each step does to the row of every process; the parts  *)
(* of the invariant are then proved over those few kinds of steps.         *)
(***************************************************************************)
EXTENDS ProcessFamily, TLAPS

-----------------------------------------------------------------------------
(***************************************************************************)
(* Where the frames are.                                                   *)
(***************************************************************************)
\* The places of a frame, and the type of the counters of a process.
Places(f) == IF f = "main" THEN {"child", "user", "pair", "forked"}
             ELSE {"none", "handler", "callback", "pair", "forked"}
Counters == [main : {"child", "user", "pair", "forked"},
             sig : {"none", "handler", "callback", "pair", "forked"}]

\* Of the processes in S, frame f of p goes to l and the other frames stay.
PcMoves(p, f, l, S) ==
  /\ pc' \in [Pid -> Counters]
  /\ \A q \in S, g \in Frames : pc'[q][g] = IF q = p /\ g = f THEN l ELSE pc[q][g]
  /\ \A q \in S : pc'[q].main = IF q = p /\ f = "main" THEN l ELSE pc[q].main
  /\ \A q \in S : pc'[q].sig = IF q = p /\ f = "sig" THEN l ELSE pc[q].sig

\* Goto moves one frame of one process.
LEMMA GotoStep ==
  ASSUME TypeOK, NEW p \in Pid, NEW f \in Frames, NEW l \in Places(f), Goto(p, f, l)
  PROVE  PcMoves(p, f, l, Pid)
<1>1. CASE f = "main"
  BY <1>1 DEF TypeOK, Goto, Places, Frames, Counters, PcMoves
<1>2. CASE f = "sig"
  BY <1>2 DEF TypeOK, Goto, Places, Frames, Counters, PcMoves
<1> QED
  BY <1>1, <1>2 DEF Frames

\* Template::Run goes on with its pair.
LEMMA SocketPairPc ==
  ASSUME TypeOK, NEW p \in Pid, NEW f \in Frames, SocketPair(p, f)
  PROVE  PcMoves(p, f, "pair", Pid)
<1>1. f \in Frames /\ "pair" \in Places(f) /\ Goto(p, f, "pair")
  BY DEF SocketPair, Places, Frames
<1> QED
  BY <1>1, GotoStep

\* Template::Run without a child returns to where it was called.
LEMMA ForkFailsPc ==
  ASSUME TypeOK, NEW p \in Pid, NEW f \in Frames, ForkFails(p, f)
  PROVE  PcMoves(p, f, Home(f), Pid)
<1>1. f \in Frames /\ Home(f) \in Places(f) /\ Goto(p, f, Home(f))
  BY DEF ForkFails, Places, Frames, Home
<1> QED
  BY <1>1, GotoStep

\* Template::Run returns to where it was called.
LEMMA RegisterPc ==
  ASSUME TypeOK, NEW p \in Pid, NEW f \in Frames, Register(p, f)
  PROVE  PcMoves(p, f, Home(f), Pid)
<1>1. f \in Frames /\ Home(f) \in Places(f) /\ Goto(p, f, Home(f))
  BY DEF Register, Places, Frames, Home
<1> QED
  BY <1>1, GotoStep

\* A child that was set up goes on with its own function.
LEMMA ChildSetupPc ==
  ASSUME TypeOK, NEW p \in Pid, ChildSetup(p)
  PROVE  PcMoves(p, "main", "user", Pid)
<1>1. "main" \in Frames /\ "user" \in Places("main") /\ Goto(p, "main", "user")
  BY DEF ChildSetup, Places, Frames
<1> QED
  BY <1>1, GotoStep

\* The handler begins.
LEMMA DeliverPc ==
  ASSUME TypeOK, NEW p \in Pid, Deliver(p)
  PROVE  PcMoves(p, "sig", "handler", Pid)
<1>1. "sig" \in Frames /\ "handler" \in Places("sig") /\ Goto(p, "sig", "handler")
  BY DEF Deliver, Places, Frames
<1> QED
  BY <1>1, GotoStep

\* The handler ends without a child.
LEMMA HandlerNothingPc ==
  ASSUME TypeOK, NEW p \in Pid, HandlerNothing(p)
  PROVE  PcMoves(p, "sig", "none", Pid)
<1>1. "sig" \in Frames /\ "none" \in Places("sig") /\ Goto(p, "sig", "none")
  BY DEF HandlerNothing, HandlerReturns, Places, Frames
<1> QED
  BY <1>1, GotoStep

\* The handler ends with a child that has no entry.
LEMMA HandlerUnknownPc ==
  ASSUME TypeOK, NEW p \in Pid, HandlerUnknown(p)
  PROVE  PcMoves(p, "sig", "none", Pid)
<1>1. "sig" \in Frames /\ "none" \in Places("sig") /\ Goto(p, "sig", "none")
  BY DEF HandlerUnknown, HandlerReturns, Places, Frames
<1> QED
  BY <1>1, GotoStep

\* The handler is in the callback.
LEMMA HandlerDeadPc ==
  ASSUME TypeOK, NEW p \in Pid, HandlerDead(p)
  PROVE  PcMoves(p, "sig", "callback", Pid)
<1>1. "sig" \in Frames /\ "callback" \in Places("sig") /\ Goto(p, "sig", "callback")
  BY DEF HandlerDead, Places, Frames
<1> QED
  BY <1>1, GotoStep

\* The handler ends after the callback.
LEMMA CallbackEndPc ==
  ASSUME TypeOK, NEW p \in Pid, CallbackEnd(p)
  PROVE  PcMoves(p, "sig", "none", Pid)
<1>1. "sig" \in Frames /\ "none" \in Places("sig") /\ Goto(p, "sig", "none")
  BY DEF CallbackEnd, HandlerReturns, Places, Frames
<1> QED
  BY <1>1, GotoStep

\* The parent is past fork, and the child begins with one frame.
LEMMA ForkPc ==
  ASSUME TypeOK, NEW p \in Pid, NEW f \in Frames, NEW c \in Pid, c # p,
         pc' = [[pc EXCEPT ![p][f] = "forked"] EXCEPT ![c] = [main |-> "child", sig |-> "none"]]
  PROVE  PcMoves(p, f, "forked", Pid \ {c}) /\ pc'[c].main = "child" /\ pc'[c].sig = "none"
<1> DEFINE at == [pc EXCEPT ![p][f] = "forked"]
<1>1. pc \in [Pid -> Counters]
  BY DEF TypeOK, Counters
<1>4. [main |-> "child", sig |-> "none"] \in Counters /\ "forked" \in Places(f)
  BY DEF Counters, Places
<1>2. /\ at \in [Pid -> Counters]
      /\ \A q \in Pid, g \in Frames : at[q][g] = IF q = p /\ g = f THEN "forked" ELSE pc[q][g]
  <2>1. CASE f = "main"
    BY <2>1, <1>1 DEF Frames, Counters
  <2>2. CASE f = "sig"
    BY <2>2, <1>1 DEF Frames, Counters
  <2> QED
    BY <2>1, <2>2 DEF Frames
<1>3. pc' = [at EXCEPT ![c] = [main |-> "child", sig |-> "none"]]
  OBVIOUS
<1> HIDE DEF at
<1>5. pc' \in [Pid -> Counters] /\ pc'[c] = [main |-> "child", sig |-> "none"]
  BY <1>2, <1>3, <1>4
<1>6. \A q \in Pid \ {c} : pc'[q] = at[q]
  BY <1>2, <1>3
<1>7. pc'[c].main = "child" /\ pc'[c].sig = "none"
  BY <1>5
<1>8. ASSUME NEW q \in Pid \ {c}, NEW g \in Frames PROVE pc'[q][g] = IF q = p /\ g = f THEN "forked" ELSE pc[q][g]
  <2>1. pc'[q] = at[q]
    BY <1>6
  <2>2. pc'[q][g] = at[q][g]
    BY <2>1
  <2>3. at[q][g] = IF q = p /\ g = f THEN "forked" ELSE pc[q][g]
    BY <1>2
  <2> QED
    BY <2>2, <2>3
<1>9. ASSUME NEW q \in Pid \ {c}
      PROVE  /\ pc'[q].main = IF q = p /\ f = "main" THEN "forked" ELSE pc[q].main
             /\ pc'[q].sig = IF q = p /\ f = "sig" THEN "forked" ELSE pc[q].sig
  BY <1>8 DEF Frames
<1> QED
  BY <1>5, <1>7, <1>8, <1>9 DEF PcMoves

-----------------------------------------------------------------------------
(***************************************************************************)
(* What the steps do, process by process.                                  *)
(***************************************************************************)
\* Frame f of p begins Run with a new number and both ends of a pair.
Enters(p, f) ==
  /\ Live(p) /\ pc[p][f] \notin {"pair", "forked", "child"} /\ pc[p].main # "child"
  /\ f = "sig" => pc[p].sig = "callback"
  /\ f = "main" => pc[p].sig = "none"
  /\ PcMoves(p, f, "pair", Pid)
  /\ runs' = runs + 1 /\ runs' \in Runs
  /\ \A q \in Pid, g \in Frames : cur'[q][g] = IF q = p /\ g = f THEN runs' ELSE cur[q][g]
  /\ \A q \in Pid : fds'[q] = IF q = p THEN fds[q] \union Pair(runs') ELSE fds[q]
  /\ UNCHANGED <<state, ppid, run, pid_, child_map, parent_map, pending, blocked,
                 kid, dead, died, called>>

\* SocketPair is such a step.
LEMMA EntersStep ==
  ASSUME TypeOK, Kernel, NEW p \in Pid, NEW f \in Frames, SocketPair(p, f)
  PROVE  Enters(p, f)
<1>1. Live(p) /\ pc[p][f] = Home(f) /\ f = (IF pc[p].sig = "none" THEN "main" ELSE "sig")
  BY DEF SocketPair, At, Running
<1>2. pc[p][f] \notin {"pair", "forked", "child"} /\ pc[p].main # "child"
  BY <1>1 DEF Home, Frames, Kernel
<1>3. (f = "sig" => pc[p].sig = "callback") /\ (f = "main" => pc[p].sig = "none")
  BY <1>1 DEF Home, Frames
<1>4. runs' = runs + 1 /\ runs' \in Runs
  BY FamilyAssumption DEF SocketPair, TypeOK, Calls, Runs
<1>5. cur \in [Pid -> [Frames -> Calls]] /\ cur' = [cur EXCEPT ![p][f] = runs']
  BY DEF SocketPair, TypeOK
<1>6. \A q \in Pid, g \in Frames : cur'[q][g] = IF q = p /\ g = f THEN runs' ELSE cur[q][g]
  BY <1>5
<1>7. fds \in [Pid -> SUBSET (Runs \X Ends)] /\ fds' = [fds EXCEPT ![p] = @ \union Pair(runs')]
  BY DEF SocketPair, TypeOK
<1>8. \A q \in Pid : fds'[q] = IF q = p THEN fds[q] \union Pair(runs') ELSE fds[q]
  BY <1>7
<1>9. UNCHANGED <<state, ppid, run, pid_, child_map, parent_map, pending, blocked,
                  kid, dead, died, called>>
  BY DEF SocketPair
<1> QED
  BY <1>1, <1>2, <1>3, <1>4, <1>6, <1>8, <1>9, SocketPairPc DEF Enters

\* The child of frame f of p is c.
Born(p, f, c) ==
  /\ Live(p) /\ pc[p][f] = "pair" /\ f = (IF pc[p].sig = "none" THEN "main" ELSE "sig")
  /\ pc[p].main # "child" /\ state[c] = "free" /\ c # p /\ c # Root
  /\ \A q \in Pid :
       /\ state'[q] = IF q = c THEN "running" ELSE state[q]
       /\ ppid'[q] = IF q = c THEN p ELSE ppid[q]
       /\ run'[q] = IF q = c THEN cur[p][f] ELSE run[q]
       /\ pid_'[q] = IF q = c THEN pid_[p] ELSE pid_[q]
       /\ child_map'[q] = IF q = c THEN child_map[p] ELSE child_map[q]
       /\ parent_map'[q] = IF q = c THEN parent_map[p] ELSE parent_map[q]
       /\ fds'[q] = IF q = c THEN fds[p] ELSE fds[q]
       /\ pending'[q] <=> q # c /\ pending[q]
       /\ blocked'[q] <=> IF q = c THEN blocked[p] ELSE blocked[q]
       /\ \A g \in Frames : kid'[q][g] = IF q = p /\ g = f THEN c ELSE kid[q][g]
  /\ PcMoves(p, f, "forked", Pid \ {c}) /\ pc'[c].main = "child" /\ pc'[c].sig = "none"
  /\ \A g \in Frames : pc'[c][g] \notin {"pair", "forked"}
  /\ UNCHANGED <<cur, dead, runs, died, called>>

\* So is Fork, for the child it makes.
LEMMA BornStep ==
  ASSUME TypeOK, Kernel, NEW p \in Pid, NEW f \in Frames, Fork(p, f)
  PROVE  \E c \in Pid : Born(p, f, c)
<1>1. Live(p) /\ pc[p][f] = "pair" /\ f = (IF pc[p].sig = "none" THEN "main" ELSE "sig")
  BY DEF Fork, At, Running
<1>2. PICK c \in Pid :
        /\ state[c] = "free"
        /\ state' = [state EXCEPT ![c] = "running"]
        /\ ppid' = [ppid EXCEPT ![c] = p]
        /\ run' = [run EXCEPT ![c] = cur[p][f]]
        /\ pid_' = [pid_ EXCEPT ![c] = pid_[p]]
        /\ child_map' = [child_map EXCEPT ![c] = child_map[p]]
        /\ parent_map' = [parent_map EXCEPT ![c] = parent_map[p]]
        /\ fds' = [fds EXCEPT ![c] = fds[p]]
        /\ pending' = [pending EXCEPT ![c] = FALSE]
        /\ blocked' = [blocked EXCEPT ![c] = blocked[p]]
        /\ kid' = [kid EXCEPT ![p][f] = c]
        /\ pc' = [[pc EXCEPT ![p][f] = "forked"] EXCEPT ![c] = [main |-> "child", sig |-> "none"]]
  BY DEF Fork
<1>3. c # p /\ c # Root
  BY <1>1, <1>2 DEF Kernel, Live
<1>4. PcMoves(p, f, "forked", Pid \ {c}) /\ pc'[c].main = "child" /\ pc'[c].sig = "none"
  BY <1>2, <1>3, ForkPc
<1>5. UNCHANGED <<cur, dead, runs, died, called>> /\ pc[p].main # "child"
  BY <1>1 DEF Fork, Kernel, Frames
<1>6. \A q \in Pid :
        /\ state'[q] = IF q = c THEN "running" ELSE state[q]
        /\ ppid'[q] = IF q = c THEN p ELSE ppid[q]
        /\ run'[q] = IF q = c THEN cur[p][f] ELSE run[q]
        /\ pid_'[q] = IF q = c THEN pid_[p] ELSE pid_[q]
  BY <1>2 DEF TypeOK
<1>7. \A q \in Pid :
        /\ child_map'[q] = IF q = c THEN child_map[p] ELSE child_map[q]
        /\ parent_map'[q] = IF q = c THEN parent_map[p] ELSE parent_map[q]
        /\ fds'[q] = IF q = c THEN fds[p] ELSE fds[q]
  BY <1>2 DEF TypeOK
<1>8. \A q \in Pid :
        /\ pending'[q] <=> q # c /\ pending[q]
        /\ blocked'[q] <=> IF q = c THEN blocked[p] ELSE blocked[q]
  BY <1>2 DEF TypeOK
<1>9. \A q \in Pid, g \in Frames : kid'[q][g] = IF q = p /\ g = f THEN c ELSE kid[q][g]
  BY <1>2 DEF TypeOK
<1>10. \A g \in Frames : pc'[c][g] \notin {"pair", "forked"}
  BY <1>4 DEF Frames
<1> QED
  BY <1>1, <1>2, <1>3, <1>4, <1>5, <1>6, <1>7, <1>8, <1>9, <1>10 DEF Born

\* Frame f of p leaves Run, with the entry it made, if any.
Leaves(p, f, l) ==
  /\ Live(p) /\ pc[p][f] = l /\ pc[p].main # "child"
  /\ f = (IF pc[p].sig = "none" THEN "main" ELSE "sig")
  /\ PcMoves(p, f, Home(f), Pid)
  /\ UNCHANGED <<state, ppid, run, pid_, parent_map, pending, blocked, cur, kid, dead,
                 runs, died, called>>

\* It has no child and closes both ends.
Fails(p, f) ==
  /\ Leaves(p, f, "pair") /\ child_map' = child_map
  /\ \A q \in Pid : fds'[q] = IF q = p THEN fds[q] \ Pair(cur[p][f]) ELSE fds[q]

\* A fork that fails leaves without an entry.
LEMMA FailsStep ==
  ASSUME TypeOK, Kernel, NEW p \in Pid, NEW f \in Frames, ForkFails(p, f)
  PROVE  Fails(p, f)
<1>1. Live(p) /\ pc[p][f] = "pair" /\ f = (IF pc[p].sig = "none" THEN "main" ELSE "sig")
  BY DEF ForkFails, At, Running
<1>2. pc[p].main # "child"
  BY <1>1 DEF Kernel, Frames
<1>3. \A q \in Pid : fds'[q] = IF q = p THEN fds[q] \ Pair(cur[p][f]) ELSE fds[q]
  BY DEF ForkFails, TypeOK
<1> QED
  BY <1>1, <1>2, <1>3, ForkFailsPc DEF ForkFails, Leaves, Fails

\* Its child has an entry, which keeps one end, unless there was one.
Registers(p, f) ==
  /\ Leaves(p, f, "forked") /\ kid[p][f] \in Pid
  /\ \A q, c \in Pid : child_map'[q][c] =
       IF q = p /\ c = kid[p][f] /\ child_map[p][c] = 0 THEN cur[p][f] ELSE child_map[q][c]
  /\ \A q \in Pid : fds'[q] = IF q # p THEN fds[q]
       ELSE fds[p] \ (IF child_map'[p][kid[p][f]] = cur[p][f] THEN {End(cur[p][f], "toParent")}
                      ELSE Pair(cur[p][f]))

\* Register leaves with an entry, unless the pid has one.
LEMMA RegistersStep ==
  ASSUME TypeOK, Kernel, UnderWay, NEW p \in Pid, NEW f \in Frames, Register(p, f)
  PROVE  Registers(p, f)
<1>1. Live(p) /\ pc[p][f] = "forked" /\ f = (IF pc[p].sig = "none" THEN "main" ELSE "sig")
  BY DEF Register, At, Running
<1>2. pc[p].main # "child" /\ NumberTrue(p, f)
  BY <1>1 DEF Kernel, Frames, UnderWay, InRun
<1>7. kid[p][f] \in Pid
  BY <1>1, <1>2 DEF NumberTrue
<1>3. child_map' = [child_map EXCEPT ![p] = AddChild(@, kid[p][f], cur[p][f])]
  BY DEF Register
<1>4. \A q, c \in Pid : child_map'[q][c] =
        IF q = p /\ c = kid[p][f] /\ child_map[p][c] = 0 THEN cur[p][f] ELSE child_map[q][c]
  BY <1>3, <1>7 DEF TypeOK, AddChild
<1>5. \A q \in Pid : fds'[q] = IF q # p THEN fds[q]
        ELSE fds[p] \ (IF child_map'[p][kid[p][f]] = cur[p][f] THEN {End(cur[p][f], "toParent")}
                       ELSE Pair(cur[p][f]))
  BY DEF Register, TypeOK
<1>6. UNCHANGED <<state, ppid, run, pid_, parent_map, pending, blocked, cur, kid, dead,
                  runs, died, called>>
  BY DEF Register
<1> QED
  BY <1>1, <1>2, <1>4, <1>5, <1>6, <1>7, RegisterPc DEF Leaves, Registers

\* p drops what it inherited and enters its parent.
SetsUp(p) ==
  /\ Live(p) /\ pc[p].main = "child"
  /\ PcMoves(p, "main", "user", Pid)
  /\ \A q \in Pid :
       /\ child_map'[q] = IF q = p THEN NoEntries ELSE child_map[q]
       /\ parent_map'[q] = IF q = p THEN [NoEntries EXCEPT ![pid_[p]] = run[p]] ELSE parent_map[q]
       /\ pid_'[q] = IF q = p THEN p ELSE pid_[q]
       /\ fds'[q] = IF q = p THEN fds[p] \ ({End(run[p], "toChild")} \union Owned(p)) ELSE fds[q]
  /\ UNCHANGED <<state, ppid, run, pending, blocked, cur, kid, dead, runs, died, called>>

\* ChildSetup is such a step.
LEMMA SetsUpStep ==
  ASSUME TypeOK, NEW p \in Pid, ChildSetup(p) PROVE SetsUp(p)
<1>1. Live(p) /\ pc[p].main = "child"
  BY DEF ChildSetup, At, Running
<1>2. \A q \in Pid :
        /\ child_map'[q] = IF q = p THEN NoEntries ELSE child_map[q]
        /\ parent_map'[q] = IF q = p THEN AddParent(NoEntries, pid_[p], run[p]) ELSE parent_map[q]
  BY DEF ChildSetup, TypeOK
<1>3. \A q \in Pid :
        /\ pid_'[q] = IF q = p THEN p ELSE pid_[q]
        /\ fds'[q] = IF q = p THEN fds[p] \ ({End(run[p], "toChild")} \union Owned(p)) ELSE fds[q]
  BY DEF ChildSetup, TypeOK
<1>4. AddParent(NoEntries, pid_[p], run[p]) = [NoEntries EXCEPT ![pid_[p]] = run[p]]
  BY DEF AddParent, NoEntries, TypeOK
<1> QED
  BY <1>1, <1>2, <1>3, <1>4, ChildSetupPc DEF ChildSetup, SetsUp

\* p ends; init takes its children and reaps the dead among them.
Dies(p) ==
  /\ Live(p) /\ p # Root
  /\ \A q \in Pid :
       /\ state'[q] = IF q = p THEN (IF ppid[p] = 0 THEN "free" ELSE "zombie")
                      ELSE IF state[q] = "zombie" /\ ppid[q] = p THEN "free" ELSE state[q]
       /\ ppid'[q] = IF ppid[q] = p THEN 0 ELSE ppid[q]
       /\ child_map'[q] = IF q = p THEN NoEntries ELSE child_map[q]
       /\ parent_map'[q] = IF q = p THEN NoEntries ELSE parent_map[q]
       /\ fds'[q] = IF q = p THEN {} ELSE fds[q]
       /\ pending'[q] <=> q # p /\ (pending[q] \/ q = ppid[p])
  /\ died' = died \union {run[p]}
  /\ UNCHANGED <<run, pid_, blocked, pc, cur, kid, dead, runs, called>>

\* Exit is such a step.
LEMMA DiesStep ==
  ASSUME TypeOK, NEW p \in Pid, Exit(p) PROVE Dies(p)
<1>1. \A q \in Pid :
        /\ state'[q] = IF q = p THEN (IF ppid[p] = 0 THEN "free" ELSE "zombie")
                       ELSE IF state[q] = "zombie" /\ ppid[q] = p THEN "free" ELSE state[q]
        /\ ppid'[q] = IF ppid[q] = p THEN 0 ELSE ppid[q]
  BY DEF Exit, Zombies
<1>2. \A q \in Pid :
        /\ child_map'[q] = IF q = p THEN NoEntries ELSE child_map[q]
        /\ parent_map'[q] = IF q = p THEN NoEntries ELSE parent_map[q]
        /\ fds'[q] = IF q = p THEN {} ELSE fds[q]
  BY DEF Exit, TypeOK
<1>3. \A q \in Pid : pending'[q] <=> q # p /\ (pending[q] \/ q = ppid[p])
  BY DEF Exit
<1> QED
  BY <1>1, <1>2, <1>3 DEF Exit, Dies

\* The steps of the handler, and those of the kernel that nobody notices.
Quiet(p) == ChildStops(p) \/ Deliver(p) \/ HandlerStep(p)

\* No frame enters or leaves Run, nobody is born or dies, and entries only go.
Still ==
  /\ \A q \in Pid :
       /\ state'[q] = state[q] \/ (state[q] = "zombie" /\ state'[q] = "free")
       /\ pc'[q].main = pc[q].main
       /\ \A g \in Frames : Live(q) /\ (pc[q][g] \in {"pair", "forked"} \/ pc'[q][g] \in {"pair", "forked"})
            => pc'[q][g] = pc[q][g]
       /\ \A c \in Pid : child_map'[q][c] \in {0, child_map[q][c]}
       /\ Live(q) /\ pc[q].main = "child" =>
            /\ pc'[q].sig = pc[q].sig /\ (pending'[q] => pending[q]) /\ (blocked'[q] <=> blocked[q])
            /\ fds'[q] = fds[q] /\ child_map'[q] = child_map[q]
  /\ \A k \in Runs : called'[k] = called[k] \/ \E q, c \in Pid : IsSetUp(q) /\ child_map[q][c] = k
  /\ UNCHANGED <<ppid, run, pid_, parent_map, cur, kid, runs, died>>

\* The steps of the handler are such steps.
LEMMA StillStep ==
  ASSUME TypeOK, Kernel, NEW p \in Pid, Quiet(p) PROVE Still
<1>1. CASE ChildStops(p)
  <2>1. \A q \in Pid : Live(q) /\ pc[q].main = "child" => (pending'[q] => pending[q])
    BY <1>1 DEF ChildStops, TypeOK, Kernel
  <2> QED
    BY <1>1, <2>1 DEF ChildStops, Still, handler
<1>2. CASE Deliver(p)
  <2>1. Live(p) /\ pending[p] /\ ~blocked[p] /\ pc[p].sig = "none" /\ pc[p].main # "child"
    BY <1>2 DEF Deliver, TypeOK, Kernel
  <2>2. \A q \in Pid : q # p => (pending'[q] <=> pending[q]) /\ (blocked'[q] <=> blocked[q])
    BY <1>2 DEF Deliver, TypeOK
  <2>3. UNCHANGED <<state, ppid, run, pid_, child_map, parent_map, fds, cur, kid, runs, died, called>>
    BY <1>2 DEF Deliver, handler
  <2>4. PcMoves(p, "sig", "handler", Pid)
    BY <1>2, DeliverPc
  <2> QED
    BY <2>1, <2>2, <2>3, <2>4 DEF PcMoves, Frames, Still
<1>3. CASE HandlerNothing(p)
  <2>1. Live(p) /\ pc[p].sig = "handler" /\ pc[p].main # "child"
    BY <1>3 DEF HandlerNothing, At, Running, Kernel
  <2>2. \A q \in Pid : q # p => (blocked'[q] <=> blocked[q])
    BY <1>3 DEF HandlerNothing, HandlerReturns, TypeOK
  <2>3. UNCHANGED <<state, ppid, run, pid_, child_map, parent_map, fds, pending, cur, kid, runs, died, called>>
    BY <1>3 DEF HandlerNothing, handler
  <2>4. PcMoves(p, "sig", "none", Pid)
    BY <1>3, HandlerNothingPc
  <2> QED
    BY <2>1, <2>2, <2>3, <2>4 DEF PcMoves, Frames, Still
<1>4. CASE HandlerUnknown(p)
  <2>1. Live(p) /\ pc[p].sig = "handler" /\ pc[p].main # "child"
    BY <1>4 DEF HandlerUnknown, At, Running, Kernel
  <2>2. \A q \in Pid : q # p => (blocked'[q] <=> blocked[q])
    BY <1>4 DEF HandlerUnknown, HandlerReturns, TypeOK
  <2>3. UNCHANGED <<ppid, run, pid_, child_map, parent_map, fds, pending, cur, kid, runs, died, called>>
    BY <1>4 DEF HandlerUnknown, handler
  <2>4. PcMoves(p, "sig", "none", Pid)
    BY <1>4, HandlerUnknownPc
  <2>5. \A q \in Pid : state'[q] = state[q] \/ (state[q] = "zombie" /\ state'[q] = "free")
    BY <1>4 DEF HandlerUnknown, Zombies, TypeOK
  <2> QED
    BY <2>1, <2>2, <2>3, <2>4, <2>5 DEF PcMoves, Frames, Still
<1>5. CASE HandlerDead(p)
  <2>1. Live(p) /\ pc[p].sig = "handler" /\ pc[p].main # "child"
    BY <1>5 DEF HandlerDead, At, Running, Kernel
  <2>3. UNCHANGED <<ppid, run, pid_, child_map, parent_map, fds, pending, blocked, cur, kid, runs, died>>
    BY <1>5 DEF HandlerDead, handler
  <2>4. PcMoves(p, "sig", "callback", Pid)
    BY <1>5, HandlerDeadPc
  <2>5. \A q \in Pid : state'[q] = state[q] \/ (state[q] = "zombie" /\ state'[q] = "free")
    BY <1>5 DEF HandlerDead, Zombies, TypeOK
  <2>6. \A k \in Runs : called'[k] = called[k] \/ \E c \in Pid : child_map[p][c] = k
    BY <1>5 DEF HandlerDead, Zombies, TypeOK
  <2> QED
    BY <2>1, <2>3, <2>4, <2>5, <2>6 DEF PcMoves, Frames, Still, IsSetUp
<1>6. CASE CallbackEnd(p)
  <2>1. Live(p) /\ pc[p].sig = "callback" /\ pc[p].main # "child"
    BY <1>6 DEF CallbackEnd, At, Running, Kernel
  <2>2. \A q \in Pid : q # p => /\ blocked'[q] <=> blocked[q]
                                /\ fds'[q] = fds[q] /\ child_map'[q] = child_map[q]
    BY <1>6 DEF CallbackEnd, HandlerReturns, TypeOK
  <2>3. UNCHANGED <<state, ppid, run, pid_, parent_map, pending, cur, kid, runs, died, called>>
    BY <1>6 DEF CallbackEnd
  <2>4. PcMoves(p, "sig", "none", Pid)
    BY <1>6, CallbackEndPc
  <2>5. \A c \in Pid : child_map'[p][c] \in {0, child_map[p][c]}
    BY <1>6 DEF CallbackEnd, DelChild, TypeOK
  <2> QED
    BY <2>1, <2>2, <2>3, <2>4, <2>5 DEF PcMoves, Frames, Still
<1> QED
  BY <1>1, <1>2, <1>3, <1>4, <1>5, <1>6 DEF Quiet, HandlerStep

\* The steps that touch neither entries, ends nor calls.
Calm ==
  /\ \A q \in Pid :
       /\ Live(q)' <=> Live(q)
       /\ pc'[q].main = pc[q].main
       /\ \A g \in Frames : Live(q) /\ (pc[q][g] \in {"pair", "forked"} \/ pc'[q][g] \in {"pair", "forked"})
            => pc'[q][g] = pc[q][g]
       /\ Reporting(q)' <=> Reporting(q)
       /\ ForkedInHandler(q)' <=> ForkedInHandler(q)
       /\ Live(q) /\ pc[q].main = "child" => (blocked'[q] <=> blocked[q])
  /\ UNCHANGED <<run, pid_, child_map, parent_map, fds, cur, kid, dead, runs, died, called>>

\* The handler of p reaps c and calls the callback of its entry.
Reaps(p, c) ==
  /\ IsSetUp(p) /\ pc[p].sig = "handler" /\ state[c] = "zombie" /\ child_map[p][c] \in Runs
  /\ PcMoves(p, "sig", "callback", Pid)
  /\ \A q \in Pid : Live(q)' <=> Live(q)
  /\ \A q \in Pid : dead'[q] = IF q = p THEN c ELSE dead[q]
  /\ \A k \in Runs : called'[k] = IF k = child_map[p][c] THEN called[k] + 1 ELSE called[k]
  /\ UNCHANGED <<ppid, run, handler, pending, blocked, cur, kid, runs, died>>

\* The handler of p drops the entry whose callback it called.
Forgets(p) ==
  /\ IsSetUp(p) /\ pc[p].sig = "callback"
  /\ PcMoves(p, "sig", "none", Pid)
  /\ \A q \in Pid :
       /\ fds'[q] = IF q = p THEN fds[p] \ {End(child_map[p][dead[p]], "toChild")} ELSE fds[q]
       /\ \A c \in Pid : child_map'[q][c] = IF q = p /\ c = dead[p] THEN 0 ELSE child_map[q][c]
       /\ blocked'[q] <=> q # p /\ blocked[q]
  /\ UNCHANGED <<state, ppid, run, pid_, parent_map, pending, cur, kid, dead, runs, died, called>>

\* Of those steps, one reaps, one forgets, and the others touch nothing.
LEMMA QuietKinds ==
  ASSUME TypeOK, Kernel, NEW p \in Pid, Quiet(p)
  PROVE  Calm \/ (\E c \in Pid : Reaps(p, c)) \/ Forgets(p)
<1>1. CASE ChildStops(p)
  BY <1>1 DEF ChildStops, Calm, handler, Reporting, ForkedInHandler, Live
<1>2. CASE Deliver(p)
  <2>1. Live(p) /\ ~blocked[p] /\ pc[p].sig = "none" /\ pc[p].main # "child"
    BY <1>2 DEF Deliver, TypeOK, Kernel
  <2>2. \A q \in Pid : blocked'[q] <=> (q = p \/ blocked[q])
    BY <1>2 DEF Deliver, TypeOK
  <2>3. UNCHANGED <<state, ppid, run, pid_, child_map, parent_map, fds, cur, kid, dead, runs, died, called>>
    BY <1>2 DEF Deliver, handler
  <2>4. PcMoves(p, "sig", "handler", Pid)
    BY <1>2, DeliverPc
  <2> QED
    BY <2>1, <2>2, <2>3, <2>4 DEF PcMoves, Frames, Calm, Reporting, ForkedInHandler, Live
<1>3. ASSUME HandlerNothing(p) \/ HandlerUnknown(p) PROVE Calm
  <2>1. Live(p) /\ pc[p].sig = "handler" /\ pc[p].main # "child"
    BY <1>3 DEF HandlerNothing, HandlerUnknown, At, Running, Kernel
  <2>2. \A q \in Pid : blocked'[q] <=> (q # p /\ blocked[q])
    BY <1>3 DEF HandlerNothing, HandlerUnknown, HandlerReturns, TypeOK
  <2>3. UNCHANGED <<run, pid_, child_map, parent_map, fds, cur, kid, dead, runs, died, called>>
    BY <1>3 DEF HandlerNothing, HandlerUnknown, handler
  <2>4. PcMoves(p, "sig", "none", Pid)
    BY <1>3, HandlerNothingPc, HandlerUnknownPc
  <2>5. \A q \in Pid : state'[q] = "running" <=> state[q] = "running"
    BY <1>3 DEF HandlerNothing, HandlerUnknown, Zombies, TypeOK
  <2>6. \A q \in Pid : ForkedInHandler(q)' <=> ForkedInHandler(q)
    BY <2>1, <2>2, <2>4, <2>5 DEF PcMoves, ForkedInHandler, Live
  <2> QED
    BY <2>1, <2>2, <2>3, <2>4, <2>5, <2>6 DEF PcMoves, Frames, Calm, Reporting, Live
<1>5. CASE HandlerDead(p)
  <2>1. IsSetUp(p) /\ pc[p].sig = "handler"
    BY <1>5 DEF HandlerDead, At, Running, Kernel, IsSetUp
  <2>2. PICK c \in Zombies(p) :
          /\ child_map[p][c] # 0 /\ state' = [state EXCEPT ![c] = "free"]
          /\ dead' = [dead EXCEPT ![p] = c]
          /\ called' = [called EXCEPT ![child_map[p][c]] = @ + 1]
    BY <1>5 DEF HandlerDead
  <2>3. c \in Pid /\ state[c] = "zombie" /\ child_map[p][c] \in Runs
    <3>1. c \in Pid /\ state[c] = "zombie" /\ child_map[p][c] # 0
      BY <2>2 DEF Zombies
    <3>2. child_map[p][c] \in Calls
      BY <3>1 DEF TypeOK
    <3> QED
      BY <3>1, <3>2, FamilyAssumption DEF Calls, Runs
  <2>4. PcMoves(p, "sig", "callback", Pid)
    BY <1>5, HandlerDeadPc
  <2>5. \A q \in Pid : Live(q)' <=> Live(q)
    BY <2>2, <2>3 DEF Live, TypeOK
  <2>6. \A q \in Pid : dead'[q] = IF q = p THEN c ELSE dead[q]
    BY <2>2 DEF TypeOK
  <2>7. \A k \in Runs : called'[k] = IF k = child_map[p][c] THEN called[k] + 1 ELSE called[k]
    BY <2>2, <2>3 DEF TypeOK
  <2>8. UNCHANGED <<ppid, run, handler, pending, blocked, cur, kid, runs, died>>
    BY <1>5 DEF HandlerDead
  <2> QED
    BY <2>1, <2>3, <2>4, <2>5, <2>6, <2>7, <2>8 DEF Reaps
<1>6. CASE CallbackEnd(p)
  <2>1. IsSetUp(p) /\ pc[p].sig = "callback"
    BY <1>6 DEF CallbackEnd, At, Running, Kernel, IsSetUp
  <2>2. \A q \in Pid :
          /\ fds'[q] = IF q = p THEN fds[p] \ {End(child_map[p][dead[p]], "toChild")} ELSE fds[q]
          /\ \A c \in Pid : child_map'[q][c] = IF q = p /\ c = dead[p] THEN 0 ELSE child_map[q][c]
    BY <1>6 DEF CallbackEnd, DelChild, TypeOK
  <2>3. \A q \in Pid : blocked'[q] <=> q # p /\ blocked[q]
    BY <1>6 DEF CallbackEnd, HandlerReturns, TypeOK
  <2>4. PcMoves(p, "sig", "none", Pid)
    BY <1>6, CallbackEndPc
  <2>5. UNCHANGED <<state, ppid, run, pid_, parent_map, pending, cur, kid, dead, runs, died, called>>
    BY <1>6 DEF CallbackEnd
  <2> QED
    BY <2>1, <2>2, <2>3, <2>4, <2>5 DEF Forgets
<1> QED
  BY <1>1, <1>2, <1>3, <1>5, <1>6 DEF Quiet, HandlerStep

\* So does a step that changes nothing.
LEMMA StutterKind ==
  ASSUME TypeOK, UNCHANGED vars PROVE Calm /\ Still
BY DEF vars, handler, Calm, Still, Live, Reporting, ForkedInHandler

\* Every step is one of these.
LEMMA StepKinds ==
  ASSUME IInv, [Next]_vars
  PROVE  \/ \E p \in Pid, f \in Frames : Enters(p, f) \/ Fails(p, f) \/ Registers(p, f)
         \/ \E p, c \in Pid, f \in Frames : Born(p, f, c)
         \/ \E p \in Pid : SetsUp(p) \/ Dies(p)
         \/ Still /\ (Calm \/ \E p \in Pid : (\E c \in Pid : Reaps(p, c)) \/ Forgets(p))
<1>1. TypeOK /\ Kernel /\ UnderWay
  BY DEF IInv
<1>2. CASE UNCHANGED vars
  BY <1>1, <1>2, StutterKind
<1>3. ASSUME NEW p \in Pid, NEW f \in Frames, SocketPair(p, f) PROVE Enters(p, f)
  BY <1>1, <1>3, EntersStep
<1>4. ASSUME NEW p \in Pid, NEW f \in Frames, Fork(p, f) PROVE \E c \in Pid : Born(p, f, c)
  BY <1>1, <1>4, BornStep
<1>5. ASSUME NEW p \in Pid, NEW f \in Frames, ForkFails(p, f) PROVE Fails(p, f)
  BY <1>1, <1>5, FailsStep
<1>6. ASSUME NEW p \in Pid, NEW f \in Frames, Register(p, f) PROVE Registers(p, f)
  BY <1>1, <1>6, RegistersStep
<1>7. ASSUME NEW p \in Pid, ChildSetup(p) PROVE SetsUp(p)
  BY <1>1, <1>7, SetsUpStep
<1>8. ASSUME NEW p \in Pid, Exit(p) PROVE Dies(p)
  BY <1>1, <1>8, DiesStep
<1>9. ASSUME NEW p \in Pid, Quiet(p) 
      PROVE  Still /\ (Calm \/ (\E c \in Pid : Reaps(p, c)) \/ Forgets(p))
  BY <1>1, <1>9, StillStep, QuietKinds
<1>10. CASE Next
  BY <1>3, <1>4, <1>5, <1>6, <1>7, <1>8, <1>9, <1>10 DEF Next, RunStep, Quiet
<1> QED
  BY <1>2, <1>10

-----------------------------------------------------------------------------
(***************************************************************************)
(* Every step keeps every part of the invariant.                           *)
(***************************************************************************)
\* Parents live, and a process that was not set up has neither children
\* nor a handler.
LEMMA KernelStep == IInv /\ [Next]_vars => Kernel'
<1> SUFFICES ASSUME IInv, [Next]_vars PROVE Kernel'
  OBVIOUS
<1>0. Kernel /\ Root \in Pid /\ 0 \notin Pid /\ (\A c \in Pid : ppid[c] \in Pid \union
      {0})
  BY FamilyAssumption DEF IInv, TypeOK, Calls
<1>1. ASSUME NEW p \in Pid, NEW f \in Frames, Enters(p, f) PROVE Kernel'
  BY <1>0, <1>1 DEF Kernel, Enters, PcMoves, Live, Frames
<1>2. ASSUME NEW p \in Pid, NEW c \in Pid, NEW f \in Frames, Born(p, f, c) PROVE Kernel'
  BY <1>0, <1>2 DEF Kernel, Born, PcMoves, Live, Frames
<1>3. ASSUME NEW p \in Pid, NEW f \in Frames, Fails(p, f) PROVE Kernel'
  BY <1>0, <1>3 DEF Kernel, Fails, Leaves, Home, PcMoves, Live, Frames
<1>4. ASSUME NEW p \in Pid, NEW f \in Frames, Registers(p, f) PROVE Kernel'
  BY <1>0, <1>4 DEF Kernel, Registers, Leaves, Home, PcMoves, Live, Frames
<1>5. ASSUME NEW p \in Pid, SetsUp(p) PROVE Kernel'
  BY <1>0, <1>5 DEF Kernel, SetsUp, NoEntries, PcMoves, Live, Frames
<1>6. ASSUME NEW p \in Pid, Dies(p) PROVE Kernel'
  BY <1>0, <1>6 DEF Kernel, Dies, NoEntries, Live, Frames
<1>7. CASE Still
  BY <1>0, <1>7 DEF Kernel, Still, Live, Frames
<1> QED
  BY <1>1, <1>2, <1>3, <1>4, <1>5, <1>6, <1>7, StepKinds

\* Every process keeps a number of its own, and the dead stay noted.
LEMMA NumbersStep == IInv /\ [Next]_vars => Numbers'
<1> SUFFICES ASSUME IInv, [Next]_vars PROVE Numbers'
  OBVIOUS
<1>0. Kernel /\ Numbers /\ UnderWay /\ EntryTrue /\ Root \in Pid /\ 0 \notin Pid /\ (\A
      c \in Pid : ppid[c] \in Pid \union {0}) /\ runs \in Nat
  BY FamilyAssumption DEF IInv, TypeOK, Calls
<1>1. ASSUME NEW p \in Pid, NEW f \in Frames, Enters(p, f) PROVE Numbers'
  BY <1>0, <1>1 DEF Kernel, Numbers, UnderWay, EntryTrue, Enters, PcMoves, InRun,
       NumberTrue, Live, Frames, Runs
<1>2. ASSUME NEW p \in Pid, NEW c \in Pid, NEW f \in Frames, Born(p, f, c) PROVE Numbers'
  BY <1>0, <1>2 DEF Kernel, Numbers, UnderWay, EntryTrue, Born, PcMoves, InRun,
       NumberTrue, Live, Frames, Runs
<1>3. ASSUME NEW p \in Pid, NEW f \in Frames, Fails(p, f) PROVE Numbers'
  BY <1>0, <1>3 DEF Kernel, Numbers, UnderWay, EntryTrue, Fails, Leaves, Home, PcMoves,
       InRun, NumberTrue, Live, Frames, Runs
<1>4. ASSUME NEW p \in Pid, NEW f \in Frames, Registers(p, f) PROVE Numbers'
  BY <1>0, <1>4 DEF Kernel, Numbers, UnderWay, EntryTrue, Registers, Leaves, Home,
       PcMoves, InRun, NumberTrue, Live, Frames, Runs
<1>5. ASSUME NEW p \in Pid, SetsUp(p) PROVE Numbers'
  BY <1>0, <1>5 DEF Kernel, Numbers, UnderWay, EntryTrue, SetsUp, NoEntries, PcMoves,
       InRun, NumberTrue, Live, Frames, Runs
<1>6. ASSUME NEW p \in Pid, Dies(p) PROVE Numbers'
  <2>1. run[p] \in 1..runs /\ run[p] \notin died
    BY <1>0, <1>6 DEF Live, Numbers, InRun, Frames, Runs, Dies
  <2>2. \A c \in Pid : state'[c] # "free" => c = p \/ (state[c] # "free" /\ run[c] # run[p] /\ state'[c] = state[c])
    BY <1>0, <1>6 DEF Live, Numbers, InRun, Frames, Runs, Dies
  <2>3. state'[p] # "running" /\ died' = died \union {run[p]} /\ UNCHANGED <<run, runs, called>>
    BY <1>6 DEF Dies
  <2>4. \A c \in Pid : state'[c] # "free" /\ c # Root =>
          run'[c] \in 1..runs' /\ (state'[c] = "zombie" <=> run'[c] \in died')
    <3> SUFFICES ASSUME NEW c \in Pid, state'[c] # "free", c # Root
                 PROVE  run'[c] \in 1..runs' /\ (state'[c] = "zombie" <=> run'[c] \in died')
      OBVIOUS
    <3>1. CASE c = p
      BY <2>1, <2>3, <3>1, <1>6 DEF Dies
    <3>2. CASE c # p
      BY <1>0, <2>2, <2>3, <3>2 DEF Numbers
    <3> QED
      BY <3>1, <3>2
  <2>5. \A c, d \in Pid : state'[c] # "free" /\ state'[d] # "free" /\ run'[c] = run'[d] => c = d
    BY <1>0, <2>2, <2>3 DEF Numbers
  <2>6. died' \subseteq 1..runs' /\ \A k \in Runs : k > runs' => called'[k] = 0
    BY <1>0, <2>1, <2>3 DEF Numbers
  <2> QED
    BY <2>4, <2>5, <2>6 DEF Numbers
<1>7. CASE Still
  <2>1. \A k \in Runs : k > runs => called'[k] = 0
    <3> SUFFICES ASSUME NEW k \in Runs, k > runs PROVE called'[k] = called[k]
      BY <1>0 DEF Numbers
    <3> SUFFICES ASSUME NEW q \in Pid, NEW c \in Pid, IsSetUp(q), child_map[q][c] = k PROVE FALSE
      BY <1>7 DEF Still
    <3>1. k \in died \/ (Live(c) /\ run[c] = k)
      BY <1>0 DEF EntryTrue, ChildOrDead, Runs
    <3> QED
      BY <1>0, <3>1 DEF Numbers, Live, Kernel, Runs
  <2> QED
    BY <1>0, <2>1, <1>7 DEF Still, Numbers
<1> QED
  BY <1>1, <1>2, <1>3, <1>4, <1>5, <1>6, <1>7, StepKinds

\* The number of a frame in Run stays that of nobody, or of its child.
LEMMA UnderWayStep == IInv /\ [Next]_vars => UnderWay'
<1> SUFFICES ASSUME IInv, [Next]_vars PROVE UnderWay'
  OBVIOUS
<1>0. Kernel /\ Numbers /\ UnderWay /\ OnePlace /\ runs \in 0..MaxRuns /\ MaxRuns \in
      Nat
  BY FamilyAssumption DEF IInv, TypeOK, Calls
<1>1. ASSUME NEW p \in Pid, NEW f \in Frames, Enters(p, f) PROVE UnderWay'
  BY <1>0, <1>1 DEF Kernel, Numbers, UnderWay, OnePlace, Enters, PcMoves, InRun,
       NumberTrue, IsSetUp, ChildOrDead, Live, Frames
<1>2. ASSUME NEW p \in Pid, NEW c \in Pid, NEW f \in Frames, Born(p, f, c) PROVE UnderWay'
  <2> SUFFICES ASSUME NEW q \in Pid, NEW g \in Frames, InRun(q, g)' PROVE NumberTrue(q, g)'
    BY DEF UnderWay
  <2>1. InRun(p, f) /\ InRun(q, g) /\ q # c
    BY <1>2 DEF Born, PcMoves, InRun, Live
  <2>2. cur' = cur /\ runs' = runs /\ called' = called /\ died' = died
    BY <1>2 DEF Born
  <2>3. cur[q][g] \in 1..runs /\ called[cur[q][g]] = 0
    BY <1>0, <2>1 DEF UnderWay, NumberTrue
  <2>4. CASE q = p /\ g = f
    BY <2>2, <2>3, <2>4, <1>2 DEF Born, PcMoves, NumberTrue, ChildOrDead, Live
  <2>5. CASE ~(q = p /\ g = f)
    <3>1. pc'[q][g] = pc[q][g] /\ kid'[q][g] = kid[q][g] /\ cur[q][g] # cur[p][f]
      BY <1>0, <2>1, <2>5, <1>2 DEF Born, PcMoves, OnePlace
    <3>5. pc[q][g] = "pair" => NumberTrue(q, g)
      BY <1>0, <2>1 DEF UnderWay
    <3>6. \A d \in Pid : state'[d] # "free" => (IF d = c THEN run'[d] = cur[p][f]
                                                ELSE state[d] # "free" /\ run'[d] = run[d])
      BY <1>2 DEF Born
    <3>2. pc'[q][g] = "pair" => cur[q][g] \notin died
                                /\ \A d \in Pid : state'[d] # "free" => run'[d] # cur[q][g]
      BY <3>1, <3>5, <3>6 DEF NumberTrue
    <3>3. pc'[q][g] = "forked" => kid[q][g] \in Pid /\ ChildOrDead(q, kid[q][g], cur[q][g])
      BY <1>0, <2>1, <3>1 DEF UnderWay, NumberTrue
    <3>4. ASSUME NEW d \in Pid, NEW k, ChildOrDead(q, d, k) PROVE ChildOrDead(q, d, k)'
      BY <2>2, <3>4, <1>2 DEF Born, ChildOrDead, Live
    <3> QED
      BY <2>2, <2>3, <3>1, <3>2, <3>3, <3>4 DEF NumberTrue, ChildOrDead
  <2> QED
    BY <2>4, <2>5
<1>3. ASSUME NEW p \in Pid, NEW f \in Frames, Fails(p, f) PROVE UnderWay'
  BY <1>0, <1>3 DEF Kernel, Numbers, UnderWay, OnePlace, Fails, Leaves, Home, PcMoves,
       InRun, NumberTrue, IsSetUp, ChildOrDead, Live, Frames
<1>4. ASSUME NEW p \in Pid, NEW f \in Frames, Registers(p, f) PROVE UnderWay'
  BY <1>0, <1>4 DEF Kernel, Numbers, UnderWay, OnePlace, Registers, Leaves, Home,
       PcMoves, InRun, NumberTrue, IsSetUp, ChildOrDead, Live, Frames
<1>5. ASSUME NEW p \in Pid, SetsUp(p) PROVE UnderWay'
  BY <1>0, <1>5 DEF Kernel, Numbers, UnderWay, OnePlace, SetsUp, NoEntries, PcMoves,
       InRun, NumberTrue, IsSetUp, ChildOrDead, Live, Frames
<1>6. ASSUME NEW p \in Pid, Dies(p) PROVE UnderWay'
  BY <1>0, <1>6 DEF Kernel, Numbers, UnderWay, OnePlace, Dies, NoEntries, InRun,
       NumberTrue, IsSetUp, ChildOrDead, Live, Frames
<1>7. CASE Still
  <2> SUFFICES ASSUME NEW q \in Pid, NEW g \in Frames, InRun(q, g)' PROVE NumberTrue(q, g)'
    BY DEF UnderWay
  <2>1. InRun(q, g) /\ pc'[q][g] = pc[q][g]
    BY <1>7 DEF Still, InRun, Live
  <2>2. UNCHANGED <<cur, kid, runs, died, run, ppid>>
    BY <1>7 DEF Still
  <2>3. called'[cur[q][g]] = 0
    BY <1>0, <2>1, <1>7 DEF Still, UnderWay, NumberTrue, OnePlace, Runs
  <2>4. ASSUME NEW d \in Pid, NEW k, ChildOrDead(q, d, k) PROVE ChildOrDead(q, d, k)'
    BY <2>2, <2>4, <1>7 DEF Still, ChildOrDead, Live
  <2>5. pc[q][g] = "pair" => \A d \in Pid : state'[d] # "free" => run[d] # cur[q][g]
    BY <1>0, <2>1, <1>7 DEF Still, UnderWay, NumberTrue
  <2> QED
    BY <1>0, <2>1, <2>2, <2>3, <2>4, <2>5 DEF UnderWay, NumberTrue, ChildOrDead
<1> QED
  BY <1>1, <1>2, <1>3, <1>4, <1>5, <1>6, <1>7, StepKinds

\* An entry stays that of a child, or of a process that is dead.
LEMMA EntryStep == IInv /\ [Next]_vars => EntryTrue'
<1> SUFFICES ASSUME IInv, [Next]_vars PROVE EntryTrue'
  OBVIOUS
<1>0. Kernel /\ UnderWay /\ EntryTrue
  BY FamilyAssumption DEF IInv
<1>1. ASSUME NEW p \in Pid, NEW f \in Frames, Enters(p, f) PROVE EntryTrue'
  BY <1>0, <1>1 DEF Kernel, UnderWay, EntryTrue, Enters, PcMoves, InRun, NumberTrue,
       IsSetUp, ChildOrDead, Live, Frames
<1>2. ASSUME NEW p \in Pid, NEW c \in Pid, NEW f \in Frames, Born(p, f, c) PROVE EntryTrue'
  BY <1>0, <1>2 DEF Kernel, UnderWay, EntryTrue, Born, PcMoves, InRun, NumberTrue,
       IsSetUp, ChildOrDead, Live, Frames
<1>3. ASSUME NEW p \in Pid, NEW f \in Frames, Fails(p, f) PROVE EntryTrue'
  BY <1>0, <1>3 DEF Kernel, UnderWay, EntryTrue, Fails, Leaves, Home, PcMoves, InRun,
       NumberTrue, IsSetUp, ChildOrDead, Live, Frames
<1>4. ASSUME NEW p \in Pid, NEW f \in Frames, Registers(p, f) PROVE EntryTrue'
  BY <1>0, <1>4 DEF Kernel, UnderWay, EntryTrue, Registers, Leaves, Home, PcMoves,
       InRun, NumberTrue, IsSetUp, ChildOrDead, Live, Frames
<1>5. ASSUME NEW p \in Pid, SetsUp(p) PROVE EntryTrue'
  BY <1>0, <1>5 DEF Kernel, UnderWay, EntryTrue, SetsUp, NoEntries, PcMoves, InRun,
       NumberTrue, IsSetUp, ChildOrDead, Live, Frames
<1>6. ASSUME NEW p \in Pid, Dies(p) PROVE EntryTrue'
  BY <1>0, <1>6 DEF Kernel, UnderWay, EntryTrue, Dies, NoEntries, InRun, NumberTrue,
       IsSetUp, ChildOrDead, Live, Frames
<1>7. CASE Still
  BY <1>0, <1>7 DEF Kernel, UnderWay, EntryTrue, Still, InRun, NumberTrue, IsSetUp,
       ChildOrDead, Live, Frames
<1> QED
  BY <1>1, <1>2, <1>3, <1>4, <1>5, <1>6, <1>7, StepKinds

\* The number of an entry is that of a call of Run.
LEMMA EntryInRange ==
  ASSUME runs \in Nat, Kernel, Numbers, EntryTrue, NEW p \in Pid, NEW c \in Pid, IsSetUp(p)
  PROVE  child_map[p][c] \in 0..runs
<1>1. CASE child_map[p][c] # 0
  <2>1. child_map[p][c] \in died \/ (Live(c) /\ run[c] = child_map[p][c])
    BY <1>1 DEF EntryTrue, ChildOrDead
  <2>2. Live(c) /\ c # Root => run[c] \in 1..runs
    BY DEF Numbers, Live
  <2>3. run[Root] = 0 /\ died \subseteq 1..runs
    BY DEF Numbers, Kernel
  <2>4. CASE child_map[p][c] \in died
    <3>1. child_map[p][c] \in 1..runs
      BY <2>3, <2>4
    <3> QED
      BY <3>1
  <2>5. CASE Live(c) /\ run[c] = child_map[p][c]
    BY <1>1, <2>2, <2>3, <2>5
  <2> QED
    BY <2>1, <2>4, <2>5
<1> QED
  BY <1>1

\* No number comes to be in two frames or entries.
LEMMA OnePlaceStep == IInv /\ [Next]_vars => OnePlace'
<1> SUFFICES ASSUME IInv, [Next]_vars PROVE OnePlace'
  OBVIOUS
<1>0. Kernel /\ Numbers /\ UnderWay /\ EntryTrue /\ OnePlace /\ runs \in Nat
  BY FamilyAssumption DEF IInv, TypeOK, Calls
<1>1. ASSUME NEW p \in Pid, NEW f \in Frames, Enters(p, f) PROVE OnePlace'
  <2>1. \A q \in Pid, g \in Frames : InRun(q, g)' =>
          IF q = p /\ g = f THEN cur'[q][g] = runs + 1
          ELSE InRun(q, g) /\ cur'[q][g] = cur[q][g] /\ cur[q][g] \in 1..runs
    BY <1>0, <1>1 DEF Enters, PcMoves, InRun, Live, UnderWay, NumberTrue
  <2>2. \A q, d \in Pid : IsSetUp(q)' =>
          IsSetUp(q) /\ child_map'[q][d] = child_map[q][d] /\ child_map[q][d] \in 0..runs
    <3>1. UNCHANGED <<state, child_map>>
      BY <1>1 DEF Enters
    <3>2. \A q \in Pid : pc'[q].main = "child" <=> pc[q].main = "child"
      BY <1>1 DEF Enters, PcMoves
    <3> QED
      BY <3>1, <3>2, <1>0, EntryInRange DEF IsSetUp, Live
  <2> QED
    BY <1>0, <2>1, <2>2 DEF OnePlace
<1>2. ASSUME NEW p \in Pid, NEW c \in Pid, NEW f \in Frames, Born(p, f, c) PROVE OnePlace'
  <2>1. \A q \in Pid, g \in Frames : InRun(q, g)' => InRun(q, g) /\ cur'[q][g] = cur[q][g]
    BY <1>2 DEF Born, PcMoves, InRun, Live
  <2>2. \A q, d \in Pid : IsSetUp(q)' => IsSetUp(q) /\ child_map'[q][d] = child_map[q][d]
    BY <1>2 DEF Born, PcMoves, IsSetUp, Live, Frames
  <2> QED
    BY <1>0, <2>1, <2>2 DEF OnePlace
<1>3. ASSUME NEW p \in Pid, NEW f \in Frames, Fails(p, f) PROVE OnePlace'
  <2>1. \A q \in Pid, g \in Frames : InRun(q, g)' => InRun(q, g) /\ cur'[q][g] = cur[q][g]
    BY <1>3 DEF Fails, Leaves, Home, PcMoves, InRun, Live, Frames
  <2>2. \A q, d \in Pid : IsSetUp(q)' => IsSetUp(q) /\ child_map'[q][d] = child_map[q][d]
    BY <1>3 DEF Fails, Leaves, Home, PcMoves, IsSetUp, Live, Frames
  <2> QED
    BY <1>0, <2>1, <2>2 DEF OnePlace
<1>4. ASSUME NEW p \in Pid, NEW f \in Frames, Registers(p, f) PROVE OnePlace'
  <2>1. \A q \in Pid, g \in Frames : InRun(q, g)' =>
          InRun(q, g) /\ cur'[q][g] = cur[q][g] /\ ~(q = p /\ g = f)
    BY <1>4 DEF Registers, Leaves, Home, PcMoves, InRun, Live, Frames
  <2>2. InRun(p, f) /\ IsSetUp(p) /\ \A q \in Pid : IsSetUp(q)' => IsSetUp(q)
    BY <1>4 DEF Registers, Leaves, Home, PcMoves, InRun, IsSetUp, Live, Frames
  <2>3. \A q, d \in Pid : child_map'[q][d] =
          IF q = p /\ d = kid[p][f] /\ child_map[p][d] = 0 THEN cur[p][f] ELSE child_map[q][d]
    BY <1>4 DEF Registers
  <2>4. \A q, r \in Pid, g, h \in Frames : InRun(q, g)' /\ InRun(r, h)' /\ cur'[q][g] = cur'[r][h]
          => q = r /\ g = h
    BY <1>0, <2>1 DEF OnePlace
  <2>5. \A q, r, d \in Pid, g \in Frames : InRun(q, g)' /\ IsSetUp(r)' => child_map'[r][d] # cur'[q][g]
    BY <1>0, <2>1, <2>2, <2>3 DEF OnePlace
  <2>6. \A q, r, d, e \in Pid : IsSetUp(q)' /\ IsSetUp(r)' /\ child_map'[q][d] # 0
            /\ child_map'[q][d] = child_map'[r][e] => q = r /\ d = e
    BY <1>0, <2>2, <2>3 DEF OnePlace
  <2> QED
    BY <2>4, <2>5, <2>6 DEF OnePlace
<1>5. ASSUME NEW p \in Pid, SetsUp(p) PROVE OnePlace'
  <2>1. \A q \in Pid, g \in Frames : InRun(q, g)' =>
          InRun(q, g) /\ cur'[q][g] = cur[q][g] /\ cur[q][g] # 0
    <3>1. ASSUME NEW q \in Pid, NEW g \in Frames, InRun(q, g)'
          PROVE  InRun(q, g) /\ cur'[q][g] = cur[q][g]
      BY <1>5, <3>1 DEF SetsUp, PcMoves, InRun, Live, Frames
    <3> QED
      BY <1>0, <3>1 DEF UnderWay, NumberTrue
  <2>2. \A q, d \in Pid : IsSetUp(q)' => child_map'[q][d] = 0 \/
          (IsSetUp(q) /\ child_map'[q][d] = child_map[q][d])
    BY <1>5 DEF SetsUp, PcMoves, IsSetUp, Live, NoEntries
  <2> QED
    BY <1>0, <2>1, <2>2 DEF OnePlace
<1>6. ASSUME NEW p \in Pid, Dies(p) PROVE OnePlace'
  <2>1. \A q \in Pid, g \in Frames : InRun(q, g)' => InRun(q, g) /\ cur'[q][g] = cur[q][g]
    BY <1>6 DEF Dies, InRun, Live
  <2>2. \A q, d \in Pid : IsSetUp(q)' => IsSetUp(q) /\ child_map'[q][d] = child_map[q][d]
    BY <1>6 DEF Dies, IsSetUp, Live
  <2> QED
    BY <1>0, <2>1, <2>2 DEF OnePlace
<1>7. CASE Still
  BY <1>0, <1>7 DEF Kernel, Numbers, UnderWay, EntryTrue, OnePlace, Still, InRun,
       NumberTrue, IsSetUp, ChildOrDead, Live, Frames
<1> QED
  BY <1>1, <1>2, <1>3, <1>4, <1>5, <1>6, <1>7, StepKinds

\* A callback that was called is that of a dead process, whose entry is the
\* next to go.
LEMMA CalledStep == IInv /\ [Next]_vars => CalledOnce'
<1> SUFFICES ASSUME IInv, [Next]_vars PROVE CalledOnce'
  OBVIOUS
<1>0. Kernel /\ Numbers /\ UnderWay /\ EntryTrue /\ OnePlace /\ CalledOnce /\ MaxRuns
      \in Nat /\ (\A q, c \in Pid : child_map[q][c] \in Calls) /\ (\A k \in Runs :
      called[k] \in Nat)
  BY FamilyAssumption DEF IInv, TypeOK, Calls
<1>1. ASSUME NEW p \in Pid, NEW f \in Frames, Enters(p, f) PROVE CalledOnce'
  <2>1. ASSUME NEW q \in Pid, NEW d \in Pid, IsSetUp(q)', child_map'[q][d] # 0, called'[child_map'[q][d]] # 0
        PROVE  Reporting(q)' /\ dead'[q] = d
    <3>1. IsSetUp(q) /\ child_map'[q][d] = child_map[q][d] /\ called' = called /\ dead' = dead
      BY <1>1, <2>1 DEF Enters, PcMoves, IsSetUp, Live, Frames
    <3>2. Reporting(q) => Reporting(q)'
      BY <1>1, <2>1 DEF Enters, PcMoves, Reporting, IsSetUp, Live, Frames
    <3> QED
      BY <1>0, <2>1, <3>1, <3>2 DEF CalledOnce
  <2>2. ASSUME NEW q \in Pid, Reporting(q)' PROVE dead'[q] \in Pid /\ child_map'[q][dead'[q]] \in died'
    <3>1. Reporting(q) /\ dead' = dead /\ died \subseteq died' /\ child_map'[q] = child_map[q]
      BY <1>1, <2>2 DEF Enters, PcMoves, Reporting, Live, Frames
    <3> QED
      BY <1>0, <3>1 DEF CalledOnce
  <2>3. CalledOnceWhenDead'
    BY <1>0, <1>1 DEF CalledOnce, CalledOnceWhenDead, Enters, Born, Fails, Leaves,
         Registers, SetsUp, Dies, Calm, Forgets
  <2> QED
    BY <2>1, <2>2, <2>3 DEF CalledOnce
<1>2. ASSUME NEW p \in Pid, NEW c \in Pid, NEW f \in Frames, Born(p, f, c) PROVE CalledOnce'
  <2>1. ASSUME NEW q \in Pid, NEW d \in Pid, IsSetUp(q)', child_map'[q][d] # 0, called'[child_map'[q][d]] # 0
        PROVE  Reporting(q)' /\ dead'[q] = d
    <3>1. IsSetUp(q) /\ child_map'[q][d] = child_map[q][d] /\ called' = called /\ dead' = dead
      BY <1>2, <2>1 DEF Born, PcMoves, IsSetUp, Live, Frames
    <3>2. Reporting(q) => Reporting(q)'
      BY <1>2, <2>1 DEF Born, PcMoves, Reporting, IsSetUp, Live, Frames
    <3> QED
      BY <1>0, <2>1, <3>1, <3>2 DEF CalledOnce
  <2>2. ASSUME NEW q \in Pid, Reporting(q)' PROVE dead'[q] \in Pid /\ child_map'[q][dead'[q]] \in died'
    <3>1. Reporting(q) /\ dead' = dead /\ died \subseteq died' /\ child_map'[q] = child_map[q]
      BY <1>2, <2>2 DEF Born, PcMoves, Reporting, Live, Frames
    <3> QED
      BY <1>0, <3>1 DEF CalledOnce
  <2>3. CalledOnceWhenDead'
    BY <1>0, <1>2 DEF CalledOnce, CalledOnceWhenDead, Enters, Born, Fails, Leaves,
         Registers, SetsUp, Dies, Calm, Forgets
  <2> QED
    BY <2>1, <2>2, <2>3 DEF CalledOnce
<1>3. ASSUME NEW p \in Pid, NEW f \in Frames, Fails(p, f) PROVE CalledOnce'
  <2>1. ASSUME NEW q \in Pid, NEW d \in Pid, IsSetUp(q)', child_map'[q][d] # 0, called'[child_map'[q][d]] # 0
        PROVE  Reporting(q)' /\ dead'[q] = d
    <3>1. IsSetUp(q) /\ child_map'[q][d] = child_map[q][d] /\ called' = called /\ dead' = dead
      BY <1>3, <2>1 DEF Fails, Leaves, Home, PcMoves, IsSetUp, Live, Frames
    <3>2. Reporting(q) => Reporting(q)'
      BY <1>3, <2>1 DEF Fails, Leaves, Home, PcMoves, Reporting, IsSetUp, Live, Frames
    <3> QED
      BY <1>0, <2>1, <3>1, <3>2 DEF CalledOnce
  <2>2. ASSUME NEW q \in Pid, Reporting(q)' PROVE dead'[q] \in Pid /\ child_map'[q][dead'[q]] \in died'
    <3>1. Reporting(q) /\ dead' = dead /\ died \subseteq died' /\ child_map'[q] = child_map[q]
      BY <1>3, <2>2 DEF Fails, Leaves, Home, PcMoves, Reporting, Live, Frames
    <3> QED
      BY <1>0, <3>1 DEF CalledOnce
  <2>3. CalledOnceWhenDead'
    BY <1>0, <1>3 DEF CalledOnce, CalledOnceWhenDead, Enters, Born, Fails, Leaves,
         Registers, SetsUp, Dies, Calm, Forgets
  <2> QED
    BY <2>1, <2>2, <2>3 DEF CalledOnce
<1>4. ASSUME NEW p \in Pid, NEW f \in Frames, Registers(p, f) PROVE CalledOnce'
  <2>1. ASSUME NEW q \in Pid, NEW d \in Pid, IsSetUp(q)', child_map'[q][d] # 0, called'[child_map'[q][d]] # 0
        PROVE  Reporting(q)' /\ dead'[q] = d
    <3>1. IsSetUp(q) /\ called' = called /\ dead' = dead /\ (Reporting(q) => Reporting(q)')
      BY <1>4, <2>1 DEF Registers, Leaves, Home, PcMoves, Reporting, IsSetUp, Live, Frames
    <3>2. InRun(p, f)
      BY <1>4 DEF Registers, Leaves, InRun
    <3>3. child_map'[q][d] = child_map[q][d] \/ child_map'[q][d] = cur[p][f]
      BY <1>4 DEF Registers
    <3> QED
      BY <1>0, <2>1, <3>1, <3>2, <3>3 DEF CalledOnce, UnderWay, NumberTrue
  <2>2. ASSUME NEW q \in Pid, Reporting(q)' PROVE dead'[q] \in Pid /\ child_map'[q][dead'[q]] \in died'
    <3>1. Reporting(q) /\ dead' = dead /\ died' = died
      BY <1>4, <2>2 DEF Registers, Leaves, Home, PcMoves, Reporting, Live, Frames
    <3>2. dead[q] \in Pid /\ child_map[q][dead[q]] \in died /\ 0 \notin died
      BY <1>0, <3>1 DEF CalledOnce, Numbers
    <3>3. child_map'[q][dead[q]] = child_map[q][dead[q]]
      BY <1>4, <3>2 DEF Registers
    <3> QED
      BY <3>1, <3>2, <3>3
  <2>3. CalledOnceWhenDead'
    BY <1>0, <1>4 DEF CalledOnce, CalledOnceWhenDead, Enters, Born, Fails, Leaves,
         Registers, SetsUp, Dies, Calm, Forgets
  <2> QED
    BY <2>1, <2>2, <2>3 DEF CalledOnce
<1>5. ASSUME NEW p \in Pid, SetsUp(p) PROVE CalledOnce'
  <2>1. ASSUME NEW q \in Pid, NEW d \in Pid, IsSetUp(q)', child_map'[q][d] # 0, called'[child_map'[q][d]] # 0
        PROVE  Reporting(q)' /\ dead'[q] = d
    <3>1. q # p /\ IsSetUp(q) /\ child_map'[q][d] = child_map[q][d] /\ called' = called /\ dead' = dead
      BY <1>5, <2>1 DEF SetsUp, PcMoves, NoEntries, IsSetUp, Live
    <3>2. Reporting(q) => Reporting(q)'
      BY <1>5, <2>1 DEF SetsUp, PcMoves, Reporting, IsSetUp, Live
    <3> QED
      BY <1>0, <2>1, <3>1, <3>2 DEF CalledOnce
  <2>2. ASSUME NEW q \in Pid, Reporting(q)' PROVE dead'[q] \in Pid /\ child_map'[q][dead'[q]] \in died'
    <3>1. Reporting(q) /\ dead' = dead /\ died' = died
      BY <1>5, <2>2 DEF SetsUp, PcMoves, Reporting, Live
    <3>2. q # p /\ child_map'[q] = child_map[q]
      BY <1>0, <1>5, <3>1 DEF SetsUp, Kernel, Reporting
    <3> QED
      BY <1>0, <3>1, <3>2 DEF CalledOnce
  <2>3. CalledOnceWhenDead'
    BY <1>0, <1>5 DEF CalledOnce, CalledOnceWhenDead, Enters, Born, Fails, Leaves,
         Registers, SetsUp, Dies, Calm, Forgets
  <2> QED
    BY <2>1, <2>2, <2>3 DEF CalledOnce
<1>6. ASSUME NEW p \in Pid, Dies(p) PROVE CalledOnce'
  <2>1. ASSUME NEW q \in Pid, NEW d \in Pid, IsSetUp(q)', child_map'[q][d] # 0, called'[child_map'[q][d]] # 0
        PROVE  Reporting(q)' /\ dead'[q] = d
    <3>1. IsSetUp(q) /\ child_map'[q][d] = child_map[q][d] /\ called' = called /\ dead' = dead
      BY <1>6, <2>1 DEF Dies, IsSetUp, Live, Frames
    <3>2. Reporting(q) => Reporting(q)'
      BY <1>6, <2>1 DEF Dies, Reporting, IsSetUp, Live, Frames
    <3> QED
      BY <1>0, <2>1, <3>1, <3>2 DEF CalledOnce
  <2>2. ASSUME NEW q \in Pid, Reporting(q)' PROVE dead'[q] \in Pid /\ child_map'[q][dead'[q]] \in died'
    <3>1. Reporting(q) /\ dead' = dead /\ died \subseteq died' /\ child_map'[q] = child_map[q]
      BY <1>6, <2>2 DEF Dies, Reporting, Live, Frames
    <3> QED
      BY <1>0, <3>1 DEF CalledOnce
  <2>3. CalledOnceWhenDead'
    BY <1>0, <1>6 DEF CalledOnce, CalledOnceWhenDead, Enters, Born, Fails, Leaves,
         Registers, SetsUp, Dies, Calm, Forgets
  <2> QED
    BY <2>1, <2>2, <2>3 DEF CalledOnce
<1>7. CASE Calm
  <2>1. ASSUME NEW q \in Pid, NEW d \in Pid, IsSetUp(q)', child_map'[q][d] # 0, called'[child_map'[q][d]] # 0
        PROVE  Reporting(q)' /\ dead'[q] = d
    <3>1. IsSetUp(q) /\ child_map'[q][d] = child_map[q][d] /\ called' = called /\ dead' = dead
      BY <1>7, <2>1 DEF Calm, IsSetUp, Live, Frames
    <3>2. Reporting(q) => Reporting(q)'
      BY <1>7, <2>1 DEF Calm, Reporting, IsSetUp, Live, Frames
    <3> QED
      BY <1>0, <2>1, <3>1, <3>2 DEF CalledOnce
  <2>2. ASSUME NEW q \in Pid, Reporting(q)' PROVE dead'[q] \in Pid /\ child_map'[q][dead'[q]] \in died'
    <3>1. Reporting(q) /\ dead' = dead /\ died \subseteq died' /\ child_map'[q] = child_map[q]
      BY <1>7, <2>2 DEF Calm, Reporting, Live, Frames
    <3> QED
      BY <1>0, <3>1 DEF CalledOnce
  <2>3. CalledOnceWhenDead'
    BY <1>0, <1>7 DEF CalledOnce, CalledOnceWhenDead, Enters, Born, Fails, Leaves,
         Registers, SetsUp, Dies, Calm, Forgets
  <2> QED
    BY <2>1, <2>2, <2>3 DEF CalledOnce
<1>8. ASSUME NEW p \in Pid, NEW c \in Pid, Reaps(p, c) PROVE CalledOnce'
  <2> DEFINE k == child_map[p][c]
  <2>1. k \in died /\ k # 0 /\ IsSetUp(p) /\ ~Reporting(p)
    BY <1>0, <1>8 DEF Reaps, EntryTrue, ChildOrDead, Live, Runs, Reporting
  <2>2. called[k] = 0
    BY <1>0, <2>1 DEF CalledOnce
  <2>3. \A q \in Pid : IsSetUp(q)' => IsSetUp(q)
    BY <1>8 DEF Reaps, PcMoves, IsSetUp, Live
  <2>4. UNCHANGED <<child_map, died>>
    BY <1>8 DEF Reaps, handler
  <2>5. \A q \in Pid : q # p => (Reporting(q)' <=> Reporting(q)) /\ dead'[q] = dead[q]
    BY <1>8 DEF Reaps, PcMoves, Reporting, Live
  <2>6. Reporting(p)' /\ dead'[p] = c
    BY <1>8 DEF Reaps, PcMoves, Reporting, IsSetUp
  <2>7. \A j \in Runs : called'[j] = IF j = k THEN 1 ELSE called[j]
    BY <1>8, <2>2 DEF Reaps
  <2>8. CalledOnceWhenDead'
    BY <1>0, <2>1, <2>4, <2>7 DEF CalledOnce, CalledOnceWhenDead
  <2>9. ASSUME NEW q \in Pid, NEW d \in Pid, IsSetUp(q)', child_map[q][d] # 0, called'[child_map[q][d]] # 0
        PROVE  Reporting(q)' /\ dead'[q] = d
    <3>1. CASE child_map[q][d] = k
      <4>1. q = p /\ d = c
        BY <1>0, <2>1, <2>3, <2>9, <3>1 DEF OnePlace
      <4> QED
        BY <4>1, <2>6
    <3>2. CASE child_map[q][d] # k
      <4>1. child_map[q][d] \in Runs
        BY <1>0, <2>9 DEF Calls, Runs
      <4>2. called[child_map[q][d]] # 0
        BY <2>7, <2>9, <3>2, <4>1
      <4>3. Reporting(q) /\ dead[q] = d
        BY <1>0, <2>3, <2>9, <4>2 DEF CalledOnce
      <4> QED
        BY <2>1, <2>5, <4>3
    <3> QED
      BY <3>1, <3>2
  <2>10. ASSUME NEW q \in Pid, Reporting(q)' PROVE dead'[q] \in Pid /\ child_map[q][dead'[q]] \in died
    BY <1>0, <2>1, <2>5, <2>6, <2>10 DEF CalledOnce
  <2> QED
    BY <2>4, <2>8, <2>9, <2>10 DEF CalledOnce
<1>9. ASSUME NEW p \in Pid, Forgets(p) PROVE CalledOnce'
  <2>1. ASSUME NEW q \in Pid, NEW d \in Pid, IsSetUp(q)', child_map'[q][d] # 0, called'[child_map'[q][d]] # 0
        PROVE  Reporting(q)' /\ dead'[q] = d
    <3>1. IsSetUp(q) /\ child_map'[q][d] = child_map[q][d] /\ ~(q = p /\ d = dead[p])
      BY <1>9, <2>1 DEF Forgets, PcMoves, IsSetUp, Live
    <3>2. called' = called /\ dead' = dead
      BY <1>9 DEF Forgets
    <3>3. Reporting(q) /\ dead[q] = d
      BY <1>0, <2>1, <3>1, <3>2 DEF CalledOnce
    <3>4. q # p
      BY <3>1, <3>3
    <3>5. Reporting(q)'
      BY <1>9, <3>3, <3>4 DEF Forgets, PcMoves, Reporting, Live
    <3> QED
      BY <3>2, <3>3, <3>5
  <2>2. ASSUME NEW q \in Pid, Reporting(q)' PROVE dead'[q] \in Pid /\ child_map'[q][dead'[q]] \in died'
    <3>1. q # p /\ Reporting(q) /\ dead' = dead /\ died' = died
      BY <1>9, <2>2 DEF Forgets, PcMoves, Reporting, Live
    <3>2. dead[q] \in Pid /\ child_map[q][dead[q]] \in died
      BY <1>0, <3>1 DEF CalledOnce
    <3>3. child_map'[q][dead[q]] = child_map[q][dead[q]]
      BY <1>9, <3>1, <3>2 DEF Forgets
    <3> QED
      BY <3>1, <3>2, <3>3
  <2>3. CalledOnceWhenDead'
    BY <1>0, <1>9 DEF CalledOnce, CalledOnceWhenDead, Enters, Born, Fails, Leaves,
         Registers, SetsUp, Dies, Calm, Forgets
  <2> QED
    BY <2>1, <2>2, <2>3 DEF CalledOnce
<1> QED
  BY <1>1, <1>2, <1>3, <1>4, <1>5, <1>6, <1>7, <1>8, <1>9, StepKinds

\* Every process keeps the parent it found in the Handler it inherited.
LEMMA ParentsStep == IInv /\ [Next]_vars => Parents'
<1> SUFFICES ASSUME IInv, [Next]_vars PROVE Parents'
  OBVIOUS
<1>0. Kernel /\ Parents /\ Root \in Pid /\ 0 \notin Pid /\ (\A c \in Pid : ppid[c] \in
      Pid \union {0}) /\ (\A c \in Pid : pid_[c] \in Pid)
  BY FamilyAssumption DEF IInv, TypeOK, Calls
<1>1. ASSUME NEW p \in Pid, NEW f \in Frames, Enters(p, f) PROVE Parents'
  <2>1. ASSUME NEW q \in Pid, Live(q)', q # Root, pc'[q].main # "child"
        PROVE  /\ pid_'[q] = q
               /\ \E r \in Pid : parent_map'[q] = [NoEntries EXCEPT ![r] = run'[q]] /\ ppid'[q] \in {0, r}
    <3>1. Live(q) /\ pc[q].main # "child" /\ UNCHANGED <<pid_, parent_map, run, ppid>>
      BY <1>1, <2>1 DEF Enters, PcMoves, Live, Frames
    <3> QED
      BY <1>0, <2>1, <3>1 DEF Parents, ParentKnown
  <2>2. \A q \in Pid : Live(q)' /\ pc'[q].main = "child" => ppid'[q] \in {0, pid_'[q]}
    BY <1>0, <1>1 DEF Enters, PcMoves, Live, Parents, Frames
  <2>3. pid_'[Root] = Root /\ parent_map'[Root] = NoEntries
    BY <1>0, <1>1 DEF Enters, Parents
  <2> QED
    BY <2>1, <2>2, <2>3 DEF Parents, ParentKnown, NoEntries
<1>2. ASSUME NEW p \in Pid, NEW c \in Pid, NEW f \in Frames, Born(p, f, c) PROVE Parents'
  <2>1. ASSUME NEW q \in Pid, Live(q)', q # Root, pc'[q].main # "child"
        PROVE  /\ pid_'[q] = q
               /\ \E r \in Pid : parent_map'[q] = [NoEntries EXCEPT ![r] = run'[q]] /\ ppid'[q] \in {0, r}
    <3>1. q # c /\ Live(q) /\ pc[q].main # "child"
      BY <1>2, <2>1 DEF Born, PcMoves, Live
    <3>2. UNCHANGED <<pid_[q], parent_map[q], run[q], ppid[q]>>
      BY <1>2, <3>1 DEF Born
    <3> QED
      BY <1>0, <2>1, <3>1, <3>2 DEF Parents, ParentKnown
  <2>2. \A q \in Pid : Live(q)' /\ pc'[q].main = "child" => ppid'[q] \in {0, pid_'[q]}
    <3>1. pid_[p] = p
      BY <1>0, <1>2 DEF Born, Parents, ParentKnown
    <3> SUFFICES ASSUME NEW q \in Pid, Live(q)', pc'[q].main = "child" PROVE ppid'[q] \in {0, pid_'[q]}
      OBVIOUS
    <3>2. CASE q = c
      BY <1>2, <3>1, <3>2 DEF Born
    <3>3. CASE q # c
      <4>1. Live(q) /\ pc[q].main = "child" /\ ppid'[q] = ppid[q] /\ pid_'[q] = pid_[q]
        BY <1>2, <3>3 DEF Born, PcMoves, Live
      <4> QED
        BY <1>0, <4>1 DEF Parents
    <3> QED
      BY <3>2, <3>3
  <2>3. pid_'[Root] = Root /\ parent_map'[Root] = NoEntries
    BY <1>0, <1>2 DEF Born, Parents
  <2> QED
    BY <2>1, <2>2, <2>3 DEF Parents, ParentKnown, NoEntries
<1>3. ASSUME NEW p \in Pid, NEW f \in Frames, Fails(p, f) PROVE Parents'
  <2>1. ASSUME NEW q \in Pid, Live(q)', q # Root, pc'[q].main # "child"
        PROVE  /\ pid_'[q] = q
               /\ \E r \in Pid : parent_map'[q] = [NoEntries EXCEPT ![r] = run'[q]] /\ ppid'[q] \in {0, r}
    <3>1. Live(q) /\ pc[q].main # "child" /\ UNCHANGED <<pid_, parent_map, run, ppid>>
      BY <1>3, <2>1 DEF Fails, Leaves, Home, PcMoves, Live, Frames
    <3> QED
      BY <1>0, <2>1, <3>1 DEF Parents, ParentKnown
  <2>2. \A q \in Pid : Live(q)' /\ pc'[q].main = "child" => ppid'[q] \in {0, pid_'[q]}
    BY <1>0, <1>3 DEF Fails, Leaves, Home, PcMoves, Live, Parents, Frames
  <2>3. pid_'[Root] = Root /\ parent_map'[Root] = NoEntries
    BY <1>0, <1>3 DEF Fails, Leaves, Home, Parents
  <2> QED
    BY <2>1, <2>2, <2>3 DEF Parents, ParentKnown, NoEntries
<1>4. ASSUME NEW p \in Pid, NEW f \in Frames, Registers(p, f) PROVE Parents'
  <2>1. ASSUME NEW q \in Pid, Live(q)', q # Root, pc'[q].main # "child"
        PROVE  /\ pid_'[q] = q
               /\ \E r \in Pid : parent_map'[q] = [NoEntries EXCEPT ![r] = run'[q]] /\ ppid'[q] \in {0, r}
    <3>1. Live(q) /\ pc[q].main # "child" /\ UNCHANGED <<pid_, parent_map, run, ppid>>
      BY <1>4, <2>1 DEF Registers, Leaves, Home, PcMoves, Live, Frames
    <3> QED
      BY <1>0, <2>1, <3>1 DEF Parents, ParentKnown
  <2>2. \A q \in Pid : Live(q)' /\ pc'[q].main = "child" => ppid'[q] \in {0, pid_'[q]}
    BY <1>0, <1>4 DEF Registers, Leaves, Home, PcMoves, Live, Parents, Frames
  <2>3. pid_'[Root] = Root /\ parent_map'[Root] = NoEntries
    BY <1>0, <1>4 DEF Registers, Leaves, Home, Parents
  <2> QED
    BY <2>1, <2>2, <2>3 DEF Parents, ParentKnown, NoEntries
<1>5. ASSUME NEW p \in Pid, SetsUp(p) PROVE Parents'
  <2>1. ASSUME NEW q \in Pid, Live(q)', q # Root, pc'[q].main # "child"
        PROVE  /\ pid_'[q] = q
               /\ \E r \in Pid : parent_map'[q] = [NoEntries EXCEPT ![r] = run'[q]] /\ ppid'[q] \in {0, r}
    <3>1. CASE q = p
      <4>1. pid_[p] \in Pid /\ ppid[p] \in {0, pid_[p]}
        BY <1>0, <1>5 DEF SetsUp, Parents
      <4> QED
        BY <1>5, <3>1, <4>1 DEF SetsUp
    <3>2. CASE q # p
      <4>1. Live(q) /\ pc[q].main # "child" /\ UNCHANGED <<pid_[q], parent_map[q], run[q], ppid[q]>>
        BY <1>5, <2>1, <3>2 DEF SetsUp, PcMoves, Live
      <4> QED
        BY <1>0, <2>1, <4>1 DEF Parents, ParentKnown
    <3> QED
      BY <3>1, <3>2
  <2>2. \A q \in Pid : Live(q)' /\ pc'[q].main = "child" => ppid'[q] \in {0, pid_'[q]}
    BY <1>0, <1>5 DEF SetsUp, PcMoves, Live, Parents
  <2>3. pid_'[Root] = Root /\ parent_map'[Root] = NoEntries
    BY <1>0, <1>5 DEF SetsUp, Parents, Kernel
  <2> QED
    BY <2>1, <2>2, <2>3 DEF Parents, ParentKnown, NoEntries
<1>6. ASSUME NEW p \in Pid, Dies(p) PROVE Parents'
  BY <1>0, <1>6 DEF Kernel, Parents, Dies, NoEntries, ParentKnown, Live, Frames
<1>7. CASE Still
  <2>1. ASSUME NEW q \in Pid, Live(q)', q # Root, pc'[q].main # "child"
        PROVE  /\ pid_'[q] = q
               /\ \E r \in Pid : parent_map'[q] = [NoEntries EXCEPT ![r] = run'[q]] /\ ppid'[q] \in {0, r}
    <3>1. Live(q) /\ pc[q].main # "child" /\ UNCHANGED <<pid_, parent_map, run, ppid>>
      BY <1>7, <2>1 DEF Still, Live
    <3> QED
      BY <1>0, <2>1, <3>1 DEF Parents, ParentKnown
  <2>2. \A q \in Pid : Live(q)' /\ pc'[q].main = "child" => ppid'[q] \in {0, pid_'[q]}
    BY <1>0, <1>7 DEF Still, Live, Parents
  <2>3. pid_'[Root] = Root /\ parent_map'[Root] = NoEntries
    BY <1>0, <1>7 DEF Still, Parents
  <2> QED
    BY <2>1, <2>2, <2>3 DEF Parents, ParentKnown, NoEntries
<1> QED
  BY <1>1, <1>2, <1>3, <1>4, <1>5, <1>6, <1>7, StepKinds

\* The two ends of a pair are those of its Run.
LEMMA InPair == \A k, j, e : e \in Ends => (End(k, e) \in Pair(j) <=> k = j)
  BY DEF End, Pair, Ends

\* Owned, end by end.
LEMMA OwnedEnds ==
  ASSUME NEW p \in Pid, NEW k, NEW e \in Ends
  PROVE  End(k, e) \in Owned(p) <=> Owns(p, k, e)
<1>1. End(k, e) \in Owned(p) <=>
        (e = "toChild" /\ k \in Entries(child_map[p])) \/ (e = "toParent" /\ k \in Entries(parent_map[p]))
  <2> DEFINE C == {End(j, "toChild") : j \in Entries(child_map[p])}
             D == {End(j, "toParent") : j \in Entries(parent_map[p])}
  <2>1. Owned(p) = C \union D
    BY DEF Owned
  <2>2. End(k, e) \in C <=> e = "toChild" /\ k \in Entries(child_map[p])
    BY DEF End
  <2>3. End(k, e) \in D <=> e = "toParent" /\ k \in Entries(parent_map[p])
    BY DEF End
  <2> HIDE DEF C, D
  <2> QED
    BY <2>1, <2>2, <2>3
<1>2. /\ k \in Entries(child_map[p]) <=> k # 0 /\ \E c \in Pid : child_map[p][c] = k
      /\ k \in Entries(parent_map[p]) <=> k # 0 /\ \E c \in Pid : parent_map[p][c] = k
  BY DEF Entries
<1>3. e = "toChild" \/ e = "toParent"
  BY DEF Ends
<1>4. CASE e = "toChild"
  <2>1. Owns(p, k, e) <=> k # 0 /\ \E c \in Pid : child_map[p][c] = k
    BY <1>4 DEF Owns
  <2> QED
    BY <1>1, <1>2, <1>4, <2>1
<1>5. CASE e = "toParent"
  <2>1. Owns(p, k, e) <=> k # 0 /\ \E c \in Pid : parent_map[p][c] = k
    BY <1>5 DEF Owns
  <2> QED
    BY <1>1, <1>2, <1>5, <2>1
<1> QED
  BY <1>3, <1>4, <1>5

\* The map of parents of a process that was set up holds its own Run only.
LEMMA ParentEntries ==
  ASSUME Parents, NEW p \in Pid, IsSetUp(p), NEW c \in Pid
  PROVE  parent_map[p][c] \in {0, run[p]}
<1>1. CASE p = Root
  BY <1>1 DEF Parents, NoEntries
<1>2. CASE p # Root
  <2>1. PICK q \in Pid : parent_map[p] = [NoEntries EXCEPT ![q] = run[p]]
    BY <1>2 DEF Parents, ParentKnown, IsSetUp
  <2> QED
    BY <2>1 DEF NoEntries
<1> QED
  BY <1>1, <1>2

\* Every end that is open stays owned, and every one that is owned stays open.
LEMMA EndsStep == IInv /\ [Next]_vars => EndsRight'
<1> SUFFICES ASSUME IInv, [Next]_vars PROVE EndsRight'
  OBVIOUS
<1>0. Kernel /\ Numbers /\ UnderWay /\ OnePlace /\ CalledOnce /\ Parents /\ Inherited /\
      EndsRight /\ (\A c \in Pid : pid_[c] \in Pid)
  BY FamilyAssumption DEF IInv, TypeOK, Calls
<1>1. ASSUME NEW p \in Pid, NEW f \in Frames, Enters(p, f) PROVE EndsRight'
  <2> SUFFICES ASSUME NEW q \in Pid, NEW k \in Runs, NEW e \in Ends, IsSetUp(q)' PROVE EndRight(q, k, e)'
    BY DEF EndsRight
  <2>1. IsSetUp(q) /\ (ForkedInHandler(q)' <=> ForkedInHandler(q))
    BY <1>1 DEF Enters, PcMoves, ForkedInHandler, IsSetUp, Live, Frames
  <2>2. Owns(q, k, e)' <=> Owns(q, k, e)
    BY <1>1 DEF Enters, Owns
  <2>3. Holds(q, k)' <=> Holds(q, k) \/ (q = p /\ k = runs')
    BY <1>1 DEF Enters, PcMoves, Holds
  <2>4. End(k, e) \in fds'[q] <=> End(k, e) \in fds[q] \/ (q = p /\ k = runs')
    <3>1. fds'[q] = IF q = p THEN fds[q] \union Pair(runs') ELSE fds[q]
      BY <1>1 DEF Enters
    <3>2. End(k, e) \in Pair(runs') <=> k = runs'
      BY InPair
    <3> QED
      BY <3>1, <3>2
  <2>5. EndRight(q, k, e)
    BY <1>0, <2>1 DEF EndsRight
  <2> QED
    BY <2>1, <2>2, <2>3, <2>4, <2>5 DEF EndRight
<1>2. ASSUME NEW p \in Pid, NEW c \in Pid, NEW f \in Frames, Born(p, f, c) PROVE EndsRight'
  <2> SUFFICES ASSUME NEW q \in Pid, NEW k \in Runs, NEW e \in Ends, IsSetUp(q)' PROVE EndRight(q, k, e)'
    BY DEF EndsRight
  <2>1. IsSetUp(q) /\ fds'[q] = fds[q] /\ (ForkedInHandler(q)' <=> ForkedInHandler(q))
    BY <1>2 DEF Born, PcMoves, ForkedInHandler, IsSetUp, Live, Frames
  <2>2. Owns(q, k, e)' <=> Owns(q, k, e)
    BY <1>2, <2>1 DEF Born, PcMoves, Owns, IsSetUp, Live
  <2>3. Holds(q, k)' <=> Holds(q, k)
    BY <1>2, <2>1 DEF Born, PcMoves, Holds, IsSetUp, Live, Frames
  <2>4. EndRight(q, k, e)
    BY <1>0, <2>1 DEF EndsRight
  <2> QED
    BY <2>1, <2>2, <2>3, <2>4 DEF EndRight
<1>3. ASSUME NEW p \in Pid, NEW f \in Frames, Fails(p, f) PROVE EndsRight'
  <2> SUFFICES ASSUME NEW q \in Pid, NEW k \in Runs, NEW e \in Ends, IsSetUp(q)' PROVE EndRight(q, k, e)'
    BY DEF EndsRight
  <2>1. IsSetUp(q) /\ (ForkedInHandler(q)' <=> ForkedInHandler(q))
    BY <1>3 DEF Fails, Leaves, Home, PcMoves, ForkedInHandler, IsSetUp, Live, Frames
  <2>2. InRun(p, f) /\ IsSetUp(p) /\ run[p] # cur[p][f]
    <3>1. InRun(p, f) /\ IsSetUp(p)
      BY <1>3 DEF Fails, Leaves, InRun, IsSetUp
    <3>2. NumberTrue(p, f)
      BY <1>0, <3>1 DEF UnderWay
    <3>3. run[p] = cur[p][f] => Live(p) /\ p # Root /\ run[p] \notin died
      BY <1>0, <3>1, <3>2 DEF Numbers, Kernel, NumberTrue, IsSetUp, Live
    <3>4. pc[p][f] = "pair" => run[p] # cur[p][f]
      BY <3>1, <3>2 DEF NumberTrue, IsSetUp, Live
    <3>5. ASSUME pc[p][f] = "forked", run[p] = cur[p][f] PROVE FALSE
      <4>1. kid[p][f] \in Pid /\ Live(kid[p][f]) /\ run[kid[p][f]] = run[p] /\ ppid[kid[p][f]] = p
        BY <3>2, <3>3, <3>5 DEF NumberTrue, ChildOrDead
      <4>2. kid[p][f] = p
        BY <1>0, <3>3, <3>5, <4>1 DEF Numbers, Live
      <4> QED
        BY <1>0, <4>1, <4>2 DEF Kernel
    <3> QED
      BY <3>1, <3>4, <3>5 DEF InRun
  <2>3. \A d \in Ends : ~Owns(p, cur[p][f], d)
    <3>1. \A c \in Pid : child_map[p][c] # cur[p][f]
      BY <1>0, <2>2 DEF OnePlace
    <3>2. cur[p][f] # 0
      BY <1>0, <2>2 DEF UnderWay, NumberTrue
    <3>3. \A c \in Pid : parent_map[p][c] \in {0, run[p]}
      BY <1>0, <2>2, ParentEntries
    <3> QED
      BY <2>2, <3>1, <3>2, <3>3 DEF Owns
  <2>4. Holds(q, k)' <=> Holds(q, k) /\ ~(q = p /\ k = cur[p][f])
    <3>1. \A g \in Frames : pc[p][g] \in {"pair", "forked"} /\ cur[p][g] = cur[p][f] => g = f
      BY <1>0, <2>2 DEF OnePlace, InRun
    <3>2. cur' = cur /\ \A g \in Frames : pc'[q][g] \in {"pair", "forked"} <=>
            pc[q][g] \in {"pair", "forked"} /\ ~(q = p /\ g = f)
      BY <1>3 DEF Fails, Leaves, Home, PcMoves
    <3> QED
      BY <1>3, <3>1, <3>2 DEF Fails, Leaves, Holds
  <2>5. Owns(q, k, e)' <=> Owns(q, k, e)
    BY <1>3 DEF Fails, Leaves, Owns
  <2>6. End(k, e) \in fds'[q] <=> End(k, e) \in fds[q] /\ ~(q = p /\ k = cur[p][f])
    <3>1. fds'[q] = IF q = p THEN fds[q] \ Pair(cur[p][f]) ELSE fds[q]
      BY <1>3 DEF Fails
    <3>2. End(k, e) \in Pair(cur[p][f]) <=> k = cur[p][f]
      BY InPair
    <3> QED
      BY <3>1, <3>2

  <2>7. EndRight(q, k, e)
    BY <1>0, <2>1 DEF EndsRight
  <2> QED
    BY <2>1, <2>3, <2>4, <2>5, <2>6, <2>7 DEF EndRight
<1>4. ASSUME NEW p \in Pid, NEW f \in Frames, Registers(p, f) PROVE EndsRight'
  <2> SUFFICES ASSUME NEW q \in Pid, NEW k \in Runs, NEW e \in Ends, IsSetUp(q)' PROVE EndRight(q, k, e)'
    BY DEF EndsRight
  <2>1. IsSetUp(q) /\ (ForkedInHandler(q)' <=> ForkedInHandler(q))
    BY <1>4 DEF Registers, Leaves, Home, PcMoves, ForkedInHandler, IsSetUp, Live, Frames
  <2>2. InRun(p, f) /\ IsSetUp(p) /\ run[p] # cur[p][f]
    <3>1. InRun(p, f) /\ IsSetUp(p)
      BY <1>4 DEF Registers, Leaves, InRun, IsSetUp
    <3>2. NumberTrue(p, f)
      BY <1>0, <3>1 DEF UnderWay
    <3>3. run[p] = cur[p][f] => Live(p) /\ p # Root /\ run[p] \notin died
      BY <1>0, <3>1, <3>2 DEF Numbers, Kernel, NumberTrue, IsSetUp, Live
    <3>4. pc[p][f] = "pair" => run[p] # cur[p][f]
      BY <3>1, <3>2 DEF NumberTrue, IsSetUp, Live
    <3>5. ASSUME pc[p][f] = "forked", run[p] = cur[p][f] PROVE FALSE
      <4>1. kid[p][f] \in Pid /\ Live(kid[p][f]) /\ run[kid[p][f]] = run[p] /\ ppid[kid[p][f]] = p
        BY <3>2, <3>3, <3>5 DEF NumberTrue, ChildOrDead
      <4>2. kid[p][f] = p
        BY <1>0, <3>3, <3>5, <4>1 DEF Numbers, Live
      <4> QED
        BY <1>0, <4>1, <4>2 DEF Kernel
    <3> QED
      BY <3>1, <3>4, <3>5 DEF InRun
  <2>3. \A d \in Ends : ~Owns(p, cur[p][f], d)
    <3>1. \A c \in Pid : child_map[p][c] # cur[p][f]
      BY <1>0, <2>2 DEF OnePlace
    <3>2. cur[p][f] # 0
      BY <1>0, <2>2 DEF UnderWay, NumberTrue
    <3>3. \A c \in Pid : parent_map[p][c] \in {0, run[p]}
      BY <1>0, <2>2, ParentEntries
    <3> QED
      BY <2>2, <3>1, <3>2, <3>3 DEF Owns
  <2>4. Holds(q, k)' <=> Holds(q, k) /\ ~(q = p /\ k = cur[p][f])
    <3>1. \A g \in Frames : pc[p][g] \in {"pair", "forked"} /\ cur[p][g] = cur[p][f] => g = f
      BY <1>0, <2>2 DEF OnePlace, InRun
    <3>2. cur' = cur /\ \A g \in Frames : pc'[q][g] \in {"pair", "forked"} <=>
            pc[q][g] \in {"pair", "forked"} /\ ~(q = p /\ g = f)
      BY <1>4 DEF Registers, Leaves, Home, PcMoves
    <3> QED
      BY <1>4, <3>1, <3>2 DEF Registers, Leaves, Holds
  <2> DEFINE Accepted == child_map[p][kid[p][f]] = 0
  <2>5. kid[p][f] \in Pid /\ cur[p][f] # 0
          /\ (child_map'[p][kid[p][f]] = cur[p][f] <=> Accepted)
    <3>1. child_map[p][kid[p][f]] # cur[p][f] /\ cur[p][f] # 0 /\ kid[p][f] \in Pid
      BY <1>0, <1>4, <2>2 DEF OnePlace, UnderWay, NumberTrue, Registers
    <3> QED
      BY <1>4, <3>1 DEF Registers
  <2>6. Owns(q, k, e)' <=> Owns(q, k, e) \/ (Accepted /\ q = p /\ k = cur[p][f] /\ e = "toChild")
    <3>1. parent_map' = parent_map
      BY <1>4 DEF Registers, Leaves
    <3>2. \A c \in Pid : child_map'[q][c] =
            IF q = p /\ c = kid[p][f] /\ Accepted THEN cur[p][f] ELSE child_map[q][c]
      BY <1>4 DEF Registers
    <3>3. CASE e = "toChild"
      BY <2>5, <3>2, <3>3 DEF Owns
    <3>4. CASE e # "toChild"
      BY <3>1, <3>4 DEF Owns
    <3> QED
      BY <3>3, <3>4
  <2>7. End(k, e) \in fds'[q] <=>
          End(k, e) \in fds[q] /\ ~(q = p /\ k = cur[p][f] /\ (Accepted => e = "toParent"))
    <3>1. CASE q # p
      BY <1>4, <3>1 DEF Registers
    <3>2. CASE q = p /\ Accepted
      <4>1. fds'[p] = fds[p] \ {End(cur[p][f], "toParent")}
        BY <1>4, <2>5, <3>2 DEF Registers
      <4> QED
        BY <3>2, <4>1 DEF End
    <3>3. CASE q = p /\ ~Accepted
      <4>1. fds'[p] = fds[p] \ Pair(cur[p][f])
        BY <1>4, <2>5, <3>3 DEF Registers
      <4> QED
        BY <3>3, <4>1, InPair
    <3> QED
      BY <3>1, <3>2, <3>3
  <2>8. EndRight(q, k, e)
    BY <1>0, <2>1 DEF EndsRight
  <2>9. Holds(p, cur[p][f])
    BY <2>2 DEF Holds, InRun
  <2> HIDE DEF Accepted
  <2> QED
    BY <2>1, <2>3, <2>4, <2>6, <2>7, <2>8, <2>9 DEF EndRight, Ends
<1>5. ASSUME NEW p \in Pid, SetsUp(p) PROVE EndsRight'
  <2> SUFFICES ASSUME NEW q \in Pid, NEW k \in Runs, NEW e \in Ends, IsSetUp(q)' PROVE EndRight(q, k, e)'
    BY DEF EndsRight
  <2>1. CASE q = p
    <3>1. Live(p) /\ pc[p].main = "child" /\ pc[p].sig = "none" /\ run[p] # 0 /\ pid_[p] \in Pid
      BY <1>0, <1>5 DEF SetsUp, Kernel, Numbers, Live
    <3>2. ~Holds(p, k)'
      BY <1>5, <3>1 DEF SetsUp, PcMoves, Holds, Frames
    <3>3. ForkedInHandler(p)' <=> blocked[p]
      BY <1>5, <3>1 DEF SetsUp, PcMoves, ForkedInHandler, Live
    <3>4. \A c \in Pid : child_map'[p][c] = 0 /\ parent_map'[p][c] = IF c = pid_[p] THEN run[p] ELSE 0
      BY <1>5, <3>1 DEF SetsUp, NoEntries
    <3>5. Owns(p, k, e)' <=> e = "toParent" /\ k = run[p]
      BY <3>1, <3>4 DEF Owns, Ends
    <3>6. End(k, e) \in fds'[p] <=>
            End(k, e) \in fds[p] /\ ~(k = run[p] /\ e = "toChild") /\ ~Owns(p, k, e)
      <4>1. fds'[p] = fds[p] \ ({End(run[p], "toChild")} \union Owned(p))
        BY <1>5 DEF SetsUp
      <4>2. End(k, e) \in Owned(p) <=> Owns(p, k, e)
        BY OwnedEnds
      <4>3. End(k, e) = End(run[p], "toChild") <=> k = run[p] /\ e = "toChild"
        BY DEF End
      <4> QED
        BY <4>1, <4>2, <4>3
    <3>7. EndCopied(p, k, e)
      BY <1>0, <3>1 DEF Inherited
    <3>8. (k = run[p] /\ e = "toParent") => ~Owns(p, k, e)
      BY <3>7 DEF EndCopied
    <3>9. e = "toParent" \/ e = "toChild"
      BY DEF Ends
    <3> QED
      BY <2>1, <3>2, <3>3, <3>5, <3>6, <3>7, <3>8, <3>9 DEF EndRight, EndCopied
  <2>2. CASE q # p
    <3>1. IsSetUp(q) /\ fds'[q] = fds[q] /\ (ForkedInHandler(q)' <=> ForkedInHandler(q))
      BY <1>5, <2>2 DEF SetsUp, PcMoves, ForkedInHandler, IsSetUp, Live
    <3>2. Owns(q, k, e)' <=> Owns(q, k, e)
      BY <1>5, <2>2 DEF SetsUp, Owns
    <3>3. Holds(q, k)' <=> Holds(q, k)
      BY <1>5, <2>2 DEF SetsUp, PcMoves, Holds
    <3>4. EndRight(q, k, e)
      BY <1>0, <3>1 DEF EndsRight
    <3> QED
      BY <3>1, <3>2, <3>3, <3>4 DEF EndRight
  <2> QED
    BY <2>1, <2>2 DEF EndRight
<1>6. ASSUME NEW p \in Pid, Dies(p) PROVE EndsRight'
  <2> SUFFICES ASSUME NEW q \in Pid, NEW k \in Runs, NEW e \in Ends, IsSetUp(q)' PROVE EndRight(q, k, e)'
    BY DEF EndsRight
  <2>1. IsSetUp(q) /\ fds'[q] = fds[q] /\ (ForkedInHandler(q)' <=> ForkedInHandler(q))
    BY <1>6 DEF Dies, ForkedInHandler, IsSetUp, Live, Frames
  <2>2. Owns(q, k, e)' <=> Owns(q, k, e)
    BY <1>6, <2>1 DEF Dies, Owns, IsSetUp, Live
  <2>3. Holds(q, k)' <=> Holds(q, k)
    BY <1>6, <2>1 DEF Dies, Holds, IsSetUp, Live, Frames
  <2>4. EndRight(q, k, e)
    BY <1>0, <2>1 DEF EndsRight
  <2> QED
    BY <2>1, <2>2, <2>3, <2>4 DEF EndRight
<1>7. CASE Calm
  <2> SUFFICES ASSUME NEW q \in Pid, NEW k \in Runs, NEW e \in Ends, IsSetUp(q)' PROVE EndRight(q, k, e)'
    BY DEF EndsRight
  <2>1. IsSetUp(q) /\ fds'[q] = fds[q] /\ (ForkedInHandler(q)' <=> ForkedInHandler(q))
    BY <1>7 DEF Calm, ForkedInHandler, IsSetUp, Live, Frames
  <2>2. Owns(q, k, e)' <=> Owns(q, k, e)
    BY <1>7, <2>1 DEF Calm, Owns, IsSetUp, Live
  <2>3. Holds(q, k)' <=> Holds(q, k)
    BY <1>7, <2>1 DEF Calm, Holds, IsSetUp, Live, Frames
  <2>4. EndRight(q, k, e)
    BY <1>0, <2>1 DEF EndsRight
  <2> QED
    BY <2>1, <2>2, <2>3, <2>4 DEF EndRight
<1>8. ASSUME NEW p \in Pid, NEW c \in Pid, Reaps(p, c) PROVE EndsRight'
  <2> SUFFICES ASSUME NEW q \in Pid, NEW k \in Runs, NEW e \in Ends, IsSetUp(q)' PROVE EndRight(q, k, e)'
    BY DEF EndsRight
  <2>1. IsSetUp(q) /\ fds'[q] = fds[q] /\ (ForkedInHandler(q)' <=> ForkedInHandler(q))
    BY <1>8 DEF Reaps, handler, PcMoves, ForkedInHandler, IsSetUp, Live, Frames
  <2>2. Owns(q, k, e)' <=> Owns(q, k, e)
    BY <1>8, <2>1 DEF Reaps, handler, PcMoves, Owns, IsSetUp, Live
  <2>3. Holds(q, k)' <=> Holds(q, k)
    BY <1>8, <2>1 DEF Reaps, handler, PcMoves, Holds, IsSetUp, Live, Frames
  <2>4. EndRight(q, k, e)
    BY <1>0, <2>1 DEF EndsRight
  <2> QED
    BY <2>1, <2>2, <2>3, <2>4 DEF EndRight
<1>9. ASSUME NEW p \in Pid, Forgets(p) PROVE EndsRight'
  <2> SUFFICES ASSUME NEW q \in Pid, NEW k \in Runs, NEW e \in Ends, IsSetUp(q)' PROVE EndRight(q, k, e)'
    BY DEF EndsRight
  <2> DEFINE j == child_map[p][dead[p]]
  <2>1. Reporting(p) /\ IsSetUp(p) /\ IsSetUp(q)
    BY <1>9 DEF Forgets, PcMoves, Reporting, IsSetUp, Live
  <2>2. dead[p] \in Pid /\ j \in died /\ j # 0
    BY <1>0, <2>1 DEF CalledOnce, Numbers
  <2>3. Holds(q, k)' <=> Holds(q, k)
    BY <1>9 DEF Forgets, PcMoves, Holds, Frames
  <2>4. ~Holds(p, j)
    BY <1>0, <2>1, <2>2 DEF OnePlace, Holds, InRun, IsSetUp
  <2>5. Owns(q, k, e)' <=> Owns(q, k, e) /\ ~(q = p /\ k = j /\ e = "toChild")
    <3>1. parent_map' = parent_map /\ \A c \in Pid :
            child_map'[q][c] = IF q = p /\ c = dead[p] THEN 0 ELSE child_map[q][c]
      BY <1>9 DEF Forgets
    <3>2. \A c \in Pid : child_map[p][c] = j => c = dead[p]
      BY <1>0, <2>1, <2>2 DEF OnePlace
    <3>3. CASE e = "toChild"
      BY <2>2, <3>1, <3>2, <3>3 DEF Owns
    <3>4. CASE e # "toChild"
      BY <3>1, <3>4 DEF Owns
    <3> QED
      BY <3>3, <3>4
  <2>6. End(k, e) \in fds'[q] <=> End(k, e) \in fds[q] /\ ~(q = p /\ k = j /\ e = "toChild")
    BY <1>9 DEF Forgets, End
  <2>7. ~ForkedInHandler(p) /\ (q # p => (ForkedInHandler(q)' <=> ForkedInHandler(q)))
    BY <1>9 DEF Forgets, PcMoves, ForkedInHandler, Live
  <2>8. EndRight(q, k, e)
    BY <1>0, <2>1 DEF EndsRight
  <2> HIDE DEF j
  <2> QED
    BY <2>3, <2>4, <2>5, <2>6, <2>7, <2>8 DEF EndRight
<1> QED
  BY <1>1, <1>2, <1>3, <1>4, <1>5, <1>6, <1>7, <1>8, <1>9, StepKinds

\* A child that was not set up keeps the ends of its parent.
LEMMA InheritedStep == IInv /\ [Next]_vars => Inherited'
<1> SUFFICES ASSUME IInv, [Next]_vars PROVE Inherited'
  OBVIOUS
<1>0. Kernel /\ UnderWay /\ Parents /\ Inherited /\ EndsRight /\ (\A p \in Pid : Live(p)
      /\ pc[p].sig # "none" => blocked[p])
  BY FamilyAssumption DEF IInv, TypeOK, Calls
<1>1. ASSUME NEW p \in Pid, NEW f \in Frames, Enters(p, f) PROVE Inherited'
  <2> SUFFICES ASSUME NEW q \in Pid, NEW k \in Runs, NEW e \in Ends, Live(q)', pc'[q].main = "child"
               PROVE  EndCopied(q, k, e)'
    BY DEF Inherited
  <2>0. Live(q) /\ pc[q].main = "child"
    BY <1>1 DEF Enters, PcMoves, IsSetUp, Live, Frames
  <2>1. fds'[q] = fds[q] /\ (blocked'[q] <=> blocked[q]) /\ run'[q] = run[q]
    BY <1>1, <2>0 DEF Enters, PcMoves, IsSetUp, Live, Frames
  <2>2. Owns(q, k, e)' <=> Owns(q, k, e)
    BY <1>1, <2>0, <2>1 DEF Enters, PcMoves, Owns, IsSetUp, Live
  <2>4. EndCopied(q, k, e)
    BY <1>0, <2>0 DEF Inherited
  <2> QED
    BY <2>1, <2>2, <2>4 DEF EndCopied
<1>2. ASSUME NEW p \in Pid, NEW c \in Pid, NEW f \in Frames, Born(p, f, c) PROVE Inherited'
  <2> SUFFICES ASSUME NEW q \in Pid, NEW k \in Runs, NEW e \in Ends, Live(q)', pc'[q].main = "child"
               PROVE  EndCopied(q, k, e)'
    BY DEF Inherited
  <2>1. CASE q = c
    <3>1. IsSetUp(p) /\ InRun(p, f)
      BY <1>2 DEF Born, IsSetUp, InRun
    <3>2. NumberTrue(p, f)
      BY <1>0, <3>1 DEF UnderWay
    <3>3. run[p] # cur[p][f] /\ cur[p][f] # 0
      BY <1>2, <3>1, <3>2 DEF Born, NumberTrue, IsSetUp, Live
    <3>4. /\ fds'[c] = fds[p] /\ (blocked'[c] <=> blocked[p]) /\ run'[c] = cur[p][f]
          /\ child_map'[c] = child_map[p] /\ parent_map'[c] = parent_map[p]
      BY <1>2 DEF Born
    <3>5. Owns(c, k, e)' <=> Owns(p, k, e)
      BY <3>4 DEF Owns
    <3>6. k = cur[p][f] /\ e = "toParent" => ~Owns(p, k, e)
      <4>1. \A d \in Pid : parent_map[p][d] \in {0, run[p]}
        BY <1>0, <3>1, ParentEntries
      <4> QED
        BY <3>3, <4>1 DEF Owns, Ends
    <3>7. EndRight(p, k, e)
      BY <1>0, <3>1 DEF EndsRight
    <3>8. Holds(p, cur[p][f])
      BY <3>1 DEF Holds, InRun
    <3>9. ~blocked[p] => ~ForkedInHandler(p) /\ (Holds(p, k) => k = cur[p][f])
      <4> SUFFICES ASSUME ~blocked[p] PROVE ~ForkedInHandler(p) /\ (Holds(p, k) => k = cur[p][f])
        OBVIOUS
      <4>1. pc[p].sig = "none"
        BY <1>0, <3>1 DEF IsSetUp
      <4> QED
        BY <1>2, <4>1 DEF ForkedInHandler, Holds, Frames, Born
    <3>10. k = cur[p][f] => End(k, e) \in fds[p]
      BY <3>7, <3>8 DEF EndRight
    <3> QED
      BY <2>1, <3>4, <3>5, <3>6, <3>7, <3>9, <3>10 DEF EndRight, EndCopied
  <2>2. CASE q # c
    <3>0. Live(q) /\ pc[q].main = "child"
      BY <1>2, <2>2 DEF Born, PcMoves, Live
    <3>1. fds'[q] = fds[q] /\ (blocked'[q] <=> blocked[q]) /\ run'[q] = run[q]
      BY <1>2, <2>2 DEF Born
    <3>2. Owns(q, k, e)' <=> Owns(q, k, e)
      BY <1>2, <2>2, <3>1 DEF Born, Owns
    <3>3. EndCopied(q, k, e)
      BY <1>0, <3>0 DEF Inherited
    <3> QED
      BY <3>1, <3>2, <3>3 DEF EndCopied
  <2> QED
    BY <2>1, <2>2 DEF EndCopied
<1>3. ASSUME NEW p \in Pid, NEW f \in Frames, Fails(p, f) PROVE Inherited'
  <2> SUFFICES ASSUME NEW q \in Pid, NEW k \in Runs, NEW e \in Ends, Live(q)', pc'[q].main = "child"
               PROVE  EndCopied(q, k, e)'
    BY DEF Inherited
  <2>0. Live(q) /\ pc[q].main = "child"
    BY <1>3 DEF Fails, Leaves, Home, PcMoves, IsSetUp, Live, Frames
  <2>1. fds'[q] = fds[q] /\ (blocked'[q] <=> blocked[q]) /\ run'[q] = run[q]
    BY <1>3, <2>0 DEF Fails, Leaves, Home, PcMoves, IsSetUp, Live, Frames
  <2>2. Owns(q, k, e)' <=> Owns(q, k, e)
    BY <1>3, <2>0, <2>1 DEF Fails, Leaves, Home, PcMoves, Owns, IsSetUp, Live
  <2>4. EndCopied(q, k, e)
    BY <1>0, <2>0 DEF Inherited
  <2> QED
    BY <2>1, <2>2, <2>4 DEF EndCopied
<1>4. ASSUME NEW p \in Pid, NEW f \in Frames, Registers(p, f) PROVE Inherited'
  <2> SUFFICES ASSUME NEW q \in Pid, NEW k \in Runs, NEW e \in Ends, Live(q)', pc'[q].main = "child"
               PROVE  EndCopied(q, k, e)'
    BY DEF Inherited
  <2>0. Live(q) /\ pc[q].main = "child"
    BY <1>4 DEF Registers, Leaves, Home, PcMoves, IsSetUp, Live, Frames
  <2>1. fds'[q] = fds[q] /\ (blocked'[q] <=> blocked[q]) /\ run'[q] = run[q]
    BY <1>4, <2>0 DEF Registers, Leaves, Home, PcMoves, IsSetUp, Live, Frames
  <2>2. Owns(q, k, e)' <=> Owns(q, k, e)
    BY <1>4, <2>0, <2>1 DEF Registers, Leaves, Home, PcMoves, Owns, IsSetUp, Live
  <2>4. EndCopied(q, k, e)
    BY <1>0, <2>0 DEF Inherited
  <2> QED
    BY <2>1, <2>2, <2>4 DEF EndCopied
<1>5. ASSUME NEW p \in Pid, SetsUp(p) PROVE Inherited'
  <2> SUFFICES ASSUME NEW q \in Pid, NEW k \in Runs, NEW e \in Ends, Live(q)', pc'[q].main = "child"
               PROVE  EndCopied(q, k, e)'
    BY DEF Inherited
  <2>0. Live(q) /\ pc[q].main = "child"
    BY <1>5 DEF SetsUp, PcMoves, IsSetUp, Live, Frames
  <2>1. fds'[q] = fds[q] /\ (blocked'[q] <=> blocked[q]) /\ run'[q] = run[q]
    BY <1>5, <2>0 DEF SetsUp, PcMoves, IsSetUp, Live, Frames
  <2>2. Owns(q, k, e)' <=> Owns(q, k, e)
    BY <1>5, <2>0, <2>1 DEF SetsUp, PcMoves, Owns, IsSetUp, Live
  <2>4. EndCopied(q, k, e)
    BY <1>0, <2>0 DEF Inherited
  <2> QED
    BY <2>1, <2>2, <2>4 DEF EndCopied
<1>6. ASSUME NEW p \in Pid, Dies(p) PROVE Inherited'
  <2> SUFFICES ASSUME NEW q \in Pid, NEW k \in Runs, NEW e \in Ends, Live(q)', pc'[q].main = "child"
               PROVE  EndCopied(q, k, e)'
    BY DEF Inherited
  <2>0. Live(q) /\ pc[q].main = "child"
    BY <1>6 DEF Dies, IsSetUp, Live, Frames
  <2>1. fds'[q] = fds[q] /\ (blocked'[q] <=> blocked[q]) /\ run'[q] = run[q]
    BY <1>6, <2>0 DEF Dies, IsSetUp, Live, Frames
  <2>2. Owns(q, k, e)' <=> Owns(q, k, e)
    BY <1>6, <2>0, <2>1 DEF Dies, Owns, IsSetUp, Live
  <2>4. EndCopied(q, k, e)
    BY <1>0, <2>0 DEF Inherited
  <2> QED
    BY <2>1, <2>2, <2>4 DEF EndCopied
<1>7. CASE Calm
  <2> SUFFICES ASSUME NEW q \in Pid, NEW k \in Runs, NEW e \in Ends, Live(q)', pc'[q].main = "child"
               PROVE  EndCopied(q, k, e)'
    BY DEF Inherited
  <2>0. Live(q) /\ pc[q].main = "child"
    BY <1>7 DEF Calm, IsSetUp, Live, Frames
  <2>1. fds'[q] = fds[q] /\ (blocked'[q] <=> blocked[q]) /\ run'[q] = run[q]
    BY <1>7, <2>0 DEF Calm, IsSetUp, Live, Frames
  <2>2. Owns(q, k, e)' <=> Owns(q, k, e)
    BY <1>7, <2>0, <2>1 DEF Calm, Owns, IsSetUp, Live
  <2>4. EndCopied(q, k, e)
    BY <1>0, <2>0 DEF Inherited
  <2> QED
    BY <2>1, <2>2, <2>4 DEF EndCopied
<1>8. ASSUME NEW p \in Pid, NEW c \in Pid, Reaps(p, c) PROVE Inherited'
  <2> SUFFICES ASSUME NEW q \in Pid, NEW k \in Runs, NEW e \in Ends, Live(q)', pc'[q].main = "child"
               PROVE  EndCopied(q, k, e)'
    BY DEF Inherited
  <2>0. Live(q) /\ pc[q].main = "child"
    BY <1>8 DEF Reaps, handler, PcMoves, IsSetUp, Live, Frames
  <2>1. fds'[q] = fds[q] /\ (blocked'[q] <=> blocked[q]) /\ run'[q] = run[q]
    BY <1>8, <2>0 DEF Reaps, handler, PcMoves, IsSetUp, Live, Frames
  <2>2. Owns(q, k, e)' <=> Owns(q, k, e)
    BY <1>8, <2>0, <2>1 DEF Reaps, handler, PcMoves, Owns, IsSetUp, Live
  <2>4. EndCopied(q, k, e)
    BY <1>0, <2>0 DEF Inherited
  <2> QED
    BY <2>1, <2>2, <2>4 DEF EndCopied
<1>9. ASSUME NEW p \in Pid, Forgets(p) PROVE Inherited'
  <2> SUFFICES ASSUME NEW q \in Pid, NEW k \in Runs, NEW e \in Ends, Live(q)', pc'[q].main = "child"
               PROVE  EndCopied(q, k, e)'
    BY DEF Inherited
  <2>0. Live(q) /\ pc[q].main = "child"
    BY <1>9 DEF Forgets, PcMoves, IsSetUp, Live, Frames
  <2>1. fds'[q] = fds[q] /\ (blocked'[q] <=> blocked[q]) /\ run'[q] = run[q]
    BY <1>9, <2>0 DEF Forgets, PcMoves, IsSetUp, Live, Frames
  <2>2. Owns(q, k, e)' <=> Owns(q, k, e)
    BY <1>9, <2>0, <2>1 DEF Forgets, PcMoves, Owns, IsSetUp, Live
  <2>4. EndCopied(q, k, e)
    BY <1>0, <2>0 DEF Inherited
  <2> QED
    BY <2>1, <2>2, <2>4 DEF EndCopied
<1> QED
  BY <1>1, <1>2, <1>3, <1>4, <1>5, <1>6, <1>7, <1>8, <1>9, StepKinds

\* The types stay; and SIGCHLD is blocked while the handler runs.
LEMMA TypeStep == IInv /\ [Next]_vars => TypeOK'
<1> SUFFICES ASSUME IInv, [Next]_vars PROVE TypeOK'
  OBVIOUS
<1>0. TypeOK /\ Kernel /\ Numbers /\ UnderWay /\ CalledOnce
  BY DEF IInv
<1>1. MaxRuns \in Nat /\ Root \in Pid /\ 0 \notin Pid
  BY FamilyAssumption
<1> USE <1>0, <1>1
<1>2. CASE UNCHANGED vars
  BY <1>2 DEF TypeOK, vars, handler, Live
<1>3. ASSUME NEW p \in Pid, NEW f \in Frames, SocketPair(p, f) PROVE TypeOK'
  <2>1. Enters(p, f)
    BY <1>3, EntersStep
  <2>2. runs' \in Runs /\ runs' \in Calls
    BY <2>1 DEF Enters, Runs, Calls
  <2>3. cur' \in [Pid -> [Frames -> Calls]]
    BY <1>3, <2>2 DEF SocketPair, TypeOK
  <2>4. Pair(runs') \subseteq Runs \X Ends
    BY <2>2 DEF Pair, End, Ends
  <2>5. fds' \in [Pid -> SUBSET (Runs \X Ends)]
    BY <1>3, <2>4 DEF SocketPair, TypeOK
  <2>6. pc' \in [Pid -> Counters] /\ \A q \in Pid : Live(q)' /\ pc'[q].sig # "none" => blocked'[q]
    BY <2>1 DEF Enters, PcMoves, TypeOK, Live
  <2> QED
    BY <2>1, <2>2, <2>3, <2>5, <2>6 DEF Enters, TypeOK, Counters
<1>4. ASSUME NEW p \in Pid, NEW f \in Frames, Fork(p, f) PROVE TypeOK'
  <2>1. PICK c \in Pid :
          /\ state[c] = "free"
          /\ state' = [state EXCEPT ![c] = "running"]
          /\ ppid' = [ppid EXCEPT ![c] = p]
          /\ run' = [run EXCEPT ![c] = cur[p][f]]
          /\ pid_' = [pid_ EXCEPT ![c] = pid_[p]]
          /\ child_map' = [child_map EXCEPT ![c] = child_map[p]]
          /\ parent_map' = [parent_map EXCEPT ![c] = parent_map[p]]
          /\ fds' = [fds EXCEPT ![c] = fds[p]]
          /\ pending' = [pending EXCEPT ![c] = FALSE]
          /\ blocked' = [blocked EXCEPT ![c] = blocked[p]]
          /\ kid' = [kid EXCEPT ![p][f] = c]
          /\ pc' = [[pc EXCEPT ![p][f] = "forked"] EXCEPT ![c] = [main |-> "child", sig |-> "none"]]
    BY <1>4 DEF Fork
  <2>2. c # p
    BY <1>4, <2>1 DEF Fork, At, Running, Live
  <2>3. PcMoves(p, f, "forked", Pid \ {c}) /\ pc'[c].sig = "none"
    BY <2>1, <2>2, ForkPc
  <2>4. /\ state' \in [Pid -> {"free", "running", "zombie"}] /\ ppid' \in [Pid -> Pid \union {0}]
        /\ run' \in [Pid -> Calls] /\ pid_' \in [Pid -> Pid]
    BY <2>1 DEF TypeOK
  <2>5. child_map' \in [Pid -> [Pid -> Calls]] /\ parent_map' \in [Pid -> [Pid -> Calls]]
    BY <2>1 DEF TypeOK
  <2>6. /\ fds' \in [Pid -> SUBSET (Runs \X Ends)] /\ pending' \in [Pid -> BOOLEAN]
        /\ blocked' \in [Pid -> BOOLEAN]
    BY <2>1 DEF TypeOK
  <2>7. kid' \in [Pid -> [Frames -> Pid \union {0}]]
    BY <2>1 DEF TypeOK
  <2>8. UNCHANGED <<cur, dead, runs, died, called>>
    BY <1>4 DEF Fork
  <2>9. ASSUME NEW q \in Pid, Live(q)', pc'[q].sig # "none" PROVE blocked'[q]
    <3>1. q # c
      BY <2>3, <2>9
    <3>2. blocked'[q] = blocked[q] /\ state'[q] = state[q]
      BY <2>1, <3>1 DEF TypeOK
    <3>3. pc[q].sig # "none"
      <4>1. CASE q = p /\ f = "sig"
        BY <1>4, <4>1 DEF Fork, At, Running
      <4>2. CASE ~(q = p /\ f = "sig")
        BY <2>3, <2>9, <3>1, <4>2 DEF PcMoves
      <4> QED
        BY <4>1, <4>2
    <3> QED
      BY <2>9, <3>2, <3>3 DEF TypeOK, Live
  <2> QED
    BY <2>3, <2>4, <2>5, <2>6, <2>7, <2>8, <2>9 DEF PcMoves, Counters, TypeOK
<1>5. ASSUME NEW p \in Pid, NEW f \in Frames, ForkFails(p, f) PROVE TypeOK'
  <2>1. Fails(p, f)
    BY <1>5, FailsStep
  <2>2. fds' \in [Pid -> SUBSET (Runs \X Ends)]
    BY <1>5 DEF ForkFails, TypeOK
  <2>3. pc' \in [Pid -> Counters] /\ \A q \in Pid : Live(q)' /\ pc'[q].sig # "none" => blocked'[q]
    BY <2>1 DEF Fails, Leaves, PcMoves, TypeOK, Live
  <2> QED
    BY <2>1, <2>2, <2>3 DEF Fails, Leaves, Counters, TypeOK
<1>6. ASSUME NEW p \in Pid, NEW f \in Frames, Register(p, f) PROVE TypeOK'
  <2>1. Registers(p, f)
    BY <1>6, RegistersStep
  <2>2. kid[p][f] \in Pid /\ cur[p][f] \in Calls
    BY <2>1 DEF Registers, TypeOK
  <2>3. AddChild(child_map[p], kid[p][f], cur[p][f]) \in [Pid -> Calls]
    BY <2>2 DEF AddChild, TypeOK
  <2>4. child_map' \in [Pid -> [Pid -> Calls]]
    BY <1>6, <2>3 DEF Register, TypeOK
  <2>5. fds' \in [Pid -> SUBSET (Runs \X Ends)]
    BY <1>6 DEF Register, TypeOK
  <2>6. pc' \in [Pid -> Counters] /\ \A q \in Pid : Live(q)' /\ pc'[q].sig # "none" => blocked'[q]
    BY <2>1 DEF Registers, Leaves, PcMoves, TypeOK, Live
  <2> QED
    BY <2>1, <2>4, <2>5, <2>6 DEF Registers, Leaves, Counters, TypeOK
<1>7. ASSUME NEW p \in Pid, ChildSetup(p) PROVE TypeOK'
  <2>1. SetsUp(p)
    BY <1>7, SetsUpStep
  <2>2. NoEntries \in [Pid -> Calls] /\ AddParent(NoEntries, pid_[p], run[p]) \in [Pid -> Calls]
    BY DEF NoEntries, AddParent, Calls, TypeOK
  <2>3. child_map' \in [Pid -> [Pid -> Calls]] /\ parent_map' \in [Pid -> [Pid -> Calls]]
    BY <1>7, <2>2 DEF ChildSetup, TypeOK
  <2>4. pid_' \in [Pid -> Pid] /\ fds' \in [Pid -> SUBSET (Runs \X Ends)]
    BY <1>7 DEF ChildSetup, TypeOK
  <2>5. pc' \in [Pid -> Counters] /\ \A q \in Pid : Live(q)' /\ pc'[q].sig # "none" => blocked'[q]
    BY <2>1 DEF SetsUp, PcMoves, TypeOK, Live
  <2> QED
    BY <2>1, <2>3, <2>4, <2>5 DEF SetsUp, Counters, TypeOK
<1>8. ASSUME NEW p \in Pid, Exit(p) PROVE TypeOK'
  <2>1. Dies(p)
    BY <1>8, DiesStep
  <2>2. run[p] \in Runs
    BY <2>1 DEF Dies, Numbers, Live, Runs, Calls, TypeOK
  <2>3. /\ state' \in [Pid -> {"free", "running", "zombie"}] /\ ppid' \in [Pid -> Pid \union {0}]
        /\ pending' \in [Pid -> BOOLEAN]
    BY <1>8 DEF Exit, TypeOK
  <2>4. NoEntries \in [Pid -> Calls]
    BY DEF NoEntries, Calls
  <2>5. child_map' \in [Pid -> [Pid -> Calls]] /\ parent_map' \in [Pid -> [Pid -> Calls]]
    BY <1>8, <2>4 DEF Exit, TypeOK
  <2>6. fds' \in [Pid -> SUBSET (Runs \X Ends)] /\ died' \subseteq Runs
    BY <1>8, <2>2 DEF Exit, TypeOK
  <2>7. \A q \in Pid : Live(q)' /\ pc'[q].sig # "none" => blocked'[q]
    BY <2>1 DEF Dies, TypeOK, Live
  <2>8. UNCHANGED <<run, pid_, blocked, pc, cur, kid, dead, runs, called>>
    BY <1>8 DEF Exit
  <2> QED
    BY <2>3, <2>5, <2>6, <2>7, <2>8 DEF TypeOK
<1>9. ASSUME NEW p \in Pid, ChildStops(p) PROVE TypeOK'
  BY <1>9 DEF ChildStops, handler, TypeOK, Live
<1>10. ASSUME NEW p \in Pid, Deliver(p) PROVE TypeOK'
  <2>1. pending' \in [Pid -> BOOLEAN] /\ blocked' \in [Pid -> BOOLEAN]
    BY <1>10 DEF Deliver, TypeOK
  <2>2. pc' \in [Pid -> Counters] /\ \A q \in Pid : pc'[q].sig = IF q = p THEN "handler" ELSE pc[q].sig
    BY <1>10, DeliverPc DEF PcMoves
  <2>3. \A q \in Pid : Live(q)' /\ pc'[q].sig # "none" => blocked'[q]
    BY <1>10, <2>2 DEF Deliver, TypeOK, Live
  <2> QED
    BY <1>10, <2>1, <2>2, <2>3 DEF Deliver, handler, Counters, TypeOK
<1>11. ASSUME NEW p \in Pid, HandlerNothing(p) \/ HandlerUnknown(p) PROVE TypeOK'
  <2>1. blocked' \in [Pid -> BOOLEAN] /\ state' \in [Pid -> {"free", "running", "zombie"}]
    <3>1. blocked' = [blocked EXCEPT ![p] = FALSE]
      BY <1>11 DEF HandlerNothing, HandlerUnknown, HandlerReturns
    <3>2. state' = state \/ \E c \in Pid : state' = [state EXCEPT ![c] = "free"]
      BY <1>11 DEF HandlerNothing, HandlerUnknown, Zombies
    <3>3. blocked' \in [Pid -> BOOLEAN]
      BY <3>1 DEF TypeOK
    <3>4. state' \in [Pid -> {"free", "running", "zombie"}]
      BY <3>2 DEF TypeOK
    <3> QED
      BY <3>3, <3>4
  <2>2. pc' \in [Pid -> Counters] /\ \A q \in Pid : pc'[q].sig = IF q = p THEN "none" ELSE pc[q].sig
    BY <1>11, HandlerNothingPc, HandlerUnknownPc DEF PcMoves
  <2>3. \A q \in Pid : q # p => blocked'[q] = blocked[q]
    BY <1>11 DEF HandlerNothing, HandlerUnknown, HandlerReturns, TypeOK
  <2>4. \A q \in Pid : Live(q)' => Live(q)
    BY <1>11 DEF HandlerNothing, HandlerUnknown, Zombies, TypeOK, Live
  <2>5. UNCHANGED <<ppid, run, handler, pending, cur, kid, dead, runs, died, called>>
    BY <1>11 DEF HandlerNothing, HandlerUnknown
  <2>6. \A q \in Pid : Live(q)' /\ pc'[q].sig # "none" => blocked'[q]
    BY <2>2, <2>3, <2>4 DEF TypeOK
  <2> QED
    BY <2>1, <2>2, <2>5, <2>6 DEF handler, Counters, TypeOK
<1>12. ASSUME NEW p \in Pid, HandlerDead(p) PROVE TypeOK'
  <2>1. PICK c \in Zombies(p) :
          /\ child_map[p][c] # 0 /\ state' = [state EXCEPT ![c] = "free"]
          /\ dead' = [dead EXCEPT ![p] = c]
          /\ called' = [called EXCEPT ![child_map[p][c]] = @ + 1]
    BY <1>12 DEF HandlerDead
  <2>2. c \in Pid /\ state[c] = "zombie"
    BY <2>1 DEF Zombies
  <2>3. state' \in [Pid -> {"free", "running", "zombie"}] /\ dead' \in [Pid -> Pid \union {0}]
    BY <2>1, <2>2 DEF TypeOK
  <2>4. called' \in [Runs -> Nat]
    <3> DEFINE k == child_map[p][c]
    <3>1. called \in [Runs -> Nat] /\ called' = [called EXCEPT ![k] = @ + 1]
      BY <2>1 DEF TypeOK
    <3>2. k \in Runs
      <4>1. k \in Calls /\ k # 0
        BY <2>1, <2>2 DEF TypeOK
      <4> QED
        BY <4>1 DEF Calls, Runs
    <3> HIDE DEF k
    <3> QED
      BY <3>1, <3>2
  <2>5. pc' \in [Pid -> Counters] /\ \A q \in Pid : pc'[q].sig = IF q = p THEN "callback" ELSE pc[q].sig
    BY <1>12, HandlerDeadPc DEF PcMoves
  <2>6. pc[p].sig = "handler" /\ UNCHANGED <<ppid, run, handler, pending, blocked, cur, kid, runs, died>>
    BY <1>12 DEF HandlerDead, At
  <2>7. \A q \in Pid : Live(q)' => Live(q)
    BY <2>1, <2>2 DEF TypeOK, Live
  <2>8. \A q \in Pid : Live(q)' /\ pc'[q].sig # "none" => blocked'[q]
    BY <2>5, <2>6, <2>7 DEF TypeOK
  <2> QED
    BY <2>3, <2>4, <2>5, <2>6, <2>8 DEF handler, Counters, TypeOK
<1>13. ASSUME NEW p \in Pid, CallbackEnd(p) PROVE TypeOK'
  <2>1. Live(p) /\ pc[p].sig = "callback"
    BY <1>13 DEF CallbackEnd, At, Running
  <2>2. dead[p] \in Pid
    BY <2>1 DEF CalledOnce, Reporting
  <2>3. DelChild(child_map[p], dead[p]) \in [Pid -> Calls]
    BY <2>2 DEF DelChild, Calls, TypeOK
  <2>4. child_map' \in [Pid -> [Pid -> Calls]]
    BY <1>13, <2>3 DEF CallbackEnd, TypeOK
  <2>5. fds' \in [Pid -> SUBSET (Runs \X Ends)] /\ blocked' \in [Pid -> BOOLEAN]
    BY <1>13 DEF CallbackEnd, HandlerReturns, TypeOK
  <2>6. pc' \in [Pid -> Counters] /\ \A q \in Pid : pc'[q].sig = IF q = p THEN "none" ELSE pc[q].sig
    BY <1>13, CallbackEndPc DEF PcMoves
  <2>7. UNCHANGED <<state, ppid, run, pid_, parent_map, pending, cur, kid, dead, runs, died, called>>
    BY <1>13 DEF CallbackEnd
  <2>8. \A q \in Pid : Live(q)' /\ pc'[q].sig # "none" => blocked'[q]
    BY <1>13, <2>6, <2>7 DEF CallbackEnd, HandlerReturns, TypeOK, Live
  <2> QED
    BY <2>4, <2>5, <2>6, <2>7, <2>8 DEF Counters, TypeOK
<1>14. CASE Next
  BY <1>3, <1>4, <1>5, <1>6, <1>7, <1>8, <1>9, <1>10, <1>11, <1>12, <1>13, <1>14
     DEF Next, RunStep, HandlerStep
<1> QED
  BY <1>2, <1>14

-----------------------------------------------------------------------------
(***************************************************************************)
(* Theorems.                                                               *)
(***************************************************************************)
\* The invariant holds when the root starts.
LEMMA InitInv == Init => IInv
<1> SUFFICES ASSUME Init PROVE IInv
  OBVIOUS
<1>1. MaxRuns \in Nat /\ Root \in Pid /\ 0 \notin Pid
  BY FamilyAssumption
<1>2. \A p \in Pid : /\ state[p] = (IF p = Root THEN "running" ELSE "free")
                     /\ ppid[p] = 0 /\ run[p] = 0 /\ pid_[p] = p /\ fds[p] = {}
                     /\ child_map[p] = NoEntries /\ parent_map[p] = NoEntries
                     /\ pc[p].main = "user" /\ pc[p].sig = "none" /\ ~blocked[p] /\ ~pending[p]
                     /\ \A c \in Pid : child_map[p][c] = 0 /\ parent_map[p][c] = 0
  BY DEF Init, NoEntries
<1>3. runs = 0 /\ died = {} /\ \A k \in Runs : called[k] = 0
  BY DEF Init
<1>4. \A p \in Pid, f \in Frames : ~InRun(p, f) /\ pc[p][f] \notin {"pair", "forked"}
  BY <1>2 DEF InRun, Frames
<1>5. TypeOK
  <2>1. NoEntries \in [Pid -> Calls] /\ 0 \in Calls
    BY <1>1 DEF NoEntries, Calls
  <2>2. /\ child_map \in [Pid -> [Pid -> Calls]] /\ parent_map \in [Pid -> [Pid -> Calls]]
        /\ run \in [Pid -> Calls]
    BY <2>1 DEF Init
  <2>3. pc \in [Pid -> Counters]
    BY DEF Init, Counters
  <2>4. cur \in [Pid -> [Frames -> Calls]] /\ kid \in [Pid -> [Frames -> Pid \union {0}]]
    BY <2>1 DEF Init
  <2>5. called \in [Runs -> Nat] /\ runs \in Calls /\ died \subseteq Runs
    BY <2>1 DEF Init
  <2>6. /\ state \in [Pid -> {"free", "running", "zombie"}] /\ ppid \in [Pid -> Pid \union {0}]
        /\ pid_ \in [Pid -> Pid] /\ fds \in [Pid -> SUBSET (Runs \X Ends)]
        /\ pending \in [Pid -> BOOLEAN] /\ blocked \in [Pid -> BOOLEAN]
        /\ dead \in [Pid -> Pid \union {0}]
    BY DEF Init
  <2> QED
    BY <1>2, <2>2, <2>3, <2>4, <2>5, <2>6 DEF TypeOK, Counters
<1>6. Kernel /\ Numbers
  BY <1>1, <1>2, <1>3 DEF Kernel, Numbers, Live
<1>7. UnderWay /\ EntryTrue /\ OnePlace
  BY <1>2, <1>4 DEF UnderWay, EntryTrue, OnePlace
<1>8. CalledOnce
  BY <1>1, <1>2, <1>3 DEF CalledOnce, CalledOnceWhenDead, Reporting
<1>9. Parents
  BY <1>1, <1>2 DEF Parents, ParentKnown, Live
<1>10. EndsRight
  BY <1>2, <1>4 DEF EndsRight, EndRight, Owns, Holds
<1>11. Inherited
  BY <1>2 DEF Inherited
<1> QED
  BY <1>5, <1>6, <1>7, <1>8, <1>9, <1>10, <1>11 DEF IInv

\* The invariant holds of every reachable state.
THEOREM Invariance == Spec => []IInv
<1>1. IInv /\ [Next]_vars => IInv'
  BY TypeStep, KernelStep, NumbersStep, UnderWayStep, EntryStep, OnePlaceStep, CalledStep,
     ParentsStep, EndsStep, InheritedStep DEF IInv
<1> QED
  BY <1>1, InitInv, PTL DEF Spec

\* The tables keep their types, and the handler never runs on top of itself.
THEOREM TypeCorrect == Spec => []TypeOK
<1>1. IInv => TypeOK
  BY DEF IInv
<1> QED
  BY <1>1, Invariance, PTL

\* However pids are used again and callbacks fork, no dead callback is called
\* twice, and none while the process of its Run lives.
THEOREM CalledWhenDead == Spec => []CalledOnceWhenDead
<1>1. IInv => CalledOnceWhenDead
  BY DEF IInv, CalledOnce
<1> QED
  BY <1>1, Invariance, PTL

\* A process that was set up knows the process that called its Run as its
\* parent, and no other.
THEOREM ParentIsKnown == Spec => []ParentKnown
<1>1. IInv => ParentKnown
  BY DEF IInv, Parents
<1> QED
  BY <1>1, Invariance, PTL

\* The ends a process has open are those its entries own and those of the Runs
\* it is in.
THEOREM EndsAreOwned == Spec => []EndsOwned
<1>1. IInv => EndsOwned
  <2> SUFFICES ASSUME IInv, NEW p \in Pid, IsSetUp(p)
               PROVE  /\ Owned(p) \union Held(p) \subseteq fds[p]
                      /\ ~ForkedInHandler(p) => fds[p] = Owned(p) \union Held(p)
    BY DEF EndsOwned, IsSetUp
  <2>1. fds[p] \subseteq Runs \X Ends
    BY DEF IInv, TypeOK
  <2>2. ASSUME NEW k, NEW e \in Ends PROVE End(k, e) \in Held(p) <=> Holds(p, k)
    <3> DEFINE In == {f \in Frames : pc[p][f] \in {"pair", "forked"}}
    <3>1. End(k, e) \in Held(p) <=> \E f \in In : End(k, e) \in Pair(cur[p][f])
      BY DEF Held
    <3>2. \A f \in In : End(k, e) \in Pair(cur[p][f]) <=> k = cur[p][f]
      BY InPair
    <3> QED
      BY <3>1, <3>2 DEF Holds
  <2>3. \A x \in Owned(p) \union Held(p) : \E k \in Runs, e \in Ends : x = End(k, e)
    <3>1. ASSUME NEW x \in Owned(p) PROVE \E k \in Runs, e \in Ends : x = End(k, e)
      <4>1. PICK k \in Entries(child_map[p]) \union Entries(parent_map[p]), e \in Ends : x = End(k, e)
        BY <3>1 DEF Owned, Ends
      <4>2. PICK c \in Pid : k # 0 /\ (k = child_map[p][c] \/ k = parent_map[p][c])
        BY DEF Entries
      <4>3. child_map[p][c] \in Calls /\ parent_map[p][c] \in Calls /\ MaxRuns \in Nat
        BY FamilyAssumption DEF IInv, TypeOK
      <4>4. k \in Runs
        BY <4>2, <4>3 DEF Calls, Runs
      <4> QED
        BY <4>1, <4>4
    <3>2. ASSUME NEW x \in Held(p) PROVE \E k \in Runs, e \in Ends : x = End(k, e)
      <4>1. PICK f \in Frames : pc[p][f] \in {"pair", "forked"} /\ x \in Pair(cur[p][f])
        BY <3>2 DEF Held
      <4>2. cur[p][f] \in 1..runs /\ runs \in Calls /\ MaxRuns \in Nat
        BY <4>1, FamilyAssumption DEF IInv, TypeOK, UnderWay, NumberTrue, InRun, IsSetUp
      <4>3. cur[p][f] \in Runs
        BY <4>2 DEF Calls, Runs
      <4> QED
        BY <4>1, <4>3 DEF Pair, Ends
    <3> QED
      BY <3>1, <3>2
  <2>4. ASSUME NEW k \in Runs, NEW e \in Ends
        PROVE  /\ End(k, e) \in Owned(p) \union Held(p) => End(k, e) \in fds[p]
               /\ ~ForkedInHandler(p) /\ End(k, e) \in fds[p] => End(k, e) \in Owned(p) \union Held(p)
    <3>1. EndRight(p, k, e)
      BY DEF IInv, EndsRight
    <3>2. End(k, e) \in Owned(p) <=> Owns(p, k, e)
      BY OwnedEnds
    <3> QED
      BY <2>2, <3>1, <3>2 DEF EndRight
  <2>5. Owned(p) \union Held(p) \subseteq fds[p]
    BY <2>3, <2>4
  <2>6. ASSUME ~ForkedInHandler(p) PROVE fds[p] \subseteq Owned(p) \union Held(p)
    <3> SUFFICES ASSUME NEW x \in fds[p] PROVE x \in Owned(p) \union Held(p)
      OBVIOUS
    <3>1. PICK k \in Runs, e \in Ends : x = End(k, e)
      BY <2>1 DEF End
    <3> QED
      BY <2>4, <2>6, <3>1
  <2> QED
    BY <2>5, <2>6
<1> QED
  BY <1>1, Invariance, PTL

\* No step takes the entry of a child that lives and stays its parent's child.
LEMMA LiveChildStep ==
  IInv /\ [Next]_vars =>
    (\A p, c \in Pid :
       Live(p) /\ Live(c) /\ ppid[c] = p /\ child_map[p][c] = run[c] /\ ppid'[c] = p
         => child_map'[p][c] = child_map[p][c])
<1> SUFFICES ASSUME IInv, [Next]_vars, NEW p \in Pid, NEW c \in Pid,
                    Live(p), Live(c), ppid[c] = p, child_map[p][c] = run[c], ppid'[c] = p
             PROVE  child_map'[p][c] = child_map[p][c]
  OBVIOUS
<1>1. c # Root /\ p # 0 /\ IsSetUp(p)
  BY FamilyAssumption DEF IInv, Kernel, IsSetUp
<1>2. run[c] \notin died /\ run[c] # 0
  BY <1>1 DEF IInv, Numbers, Live
<1>3. ASSUME NEW q \in Pid, NEW f \in Frames, Enters(q, f) PROVE child_map'[p][c] = child_map[p][c]
  BY <1>3 DEF Enters
<1>4. ASSUME NEW q \in Pid, NEW d \in Pid, NEW f \in Frames, Born(q, f, d)
      PROVE  child_map'[p][c] = child_map[p][c]
  BY <1>4 DEF Born, Live
<1>5. ASSUME NEW q \in Pid, NEW f \in Frames, Fails(q, f) PROVE child_map'[p][c] = child_map[p][c]
  BY <1>5 DEF Fails
<1>6. ASSUME NEW q \in Pid, NEW f \in Frames, Registers(q, f) PROVE child_map'[p][c] = child_map[p][c]
  BY <1>2, <1>6 DEF Registers
<1>7. ASSUME NEW q \in Pid, SetsUp(q) PROVE child_map'[p][c] = child_map[p][c]
  BY <1>1, <1>7 DEF SetsUp, IsSetUp
<1>8. ASSUME NEW q \in Pid, Dies(q) PROVE child_map'[p][c] = child_map[p][c]
  BY <1>1, <1>8 DEF Dies
<1>9. CASE Calm
  BY <1>9 DEF Calm
<1>10. ASSUME NEW q \in Pid, NEW d \in Pid, Reaps(q, d) PROVE child_map'[p][c] = child_map[p][c]
  BY <1>10 DEF Reaps, handler
<1>11. ASSUME NEW q \in Pid, Forgets(q) PROVE child_map'[p][c] = child_map[p][c]
  <2>1. Reporting(q)
    BY <1>11 DEF Forgets, Reporting, IsSetUp
  <2>2. child_map[q][dead[q]] \in died
    BY <2>1 DEF IInv, CalledOnce
  <2>3. ~(p = q /\ c = dead[q])
    BY <1>2, <2>2
  <2> QED
    BY <1>11, <2>3 DEF Forgets
<1> QED
  BY <1>3, <1>4, <1>5, <1>6, <1>7, <1>8, <1>9, <1>10, <1>11, StepKinds

\* A parent forgets a child only when the child is dead.
THEOREM KeepsLiveChild == Spec => LiveChildKept
<1> QED
  BY LiveChildStep, Invariance, PTL DEF Spec, LiveChildKept

=============================================================================
