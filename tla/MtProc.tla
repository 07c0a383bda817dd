------------------------------- MODULE MtProc -------------------------------
(***************************************************************************)
(* Processes and their threads: mt_new(), mt_exec(), mt_exit() and the     *)
(* thread calls of ldrapps/mtlib/process.c, the slots of thread.c,         *)
(* mod_stop() of smcode.c, SWITCH_EXEC .. SWITCH_EXIT of sched.c,          *)
(* mod_execcall() of init/misc/mdt.c and the session part of the service   *)
(* thread (start/main/sysmt.c).                                            *)
(*                                                                         *)
(* A process is a block (mt_prcdata) of Pd, so that a pointer to a freed   *)
(* one is visible.  Root stands for QSINIT and START, which nobody stops.  *)
(* A library call runs under the MT lock and is one step; what lies        *)
(* between two calls of one routine are the values of pc.  Which running   *)
(* thread has the CPU is the subject of MtSched: here any of them may act. *)
(***************************************************************************)
EXTENDS Integers, Sequences, FiniteSets

CONSTANTS Pd,           \* process blocks
          Root,         \* pd_qsinit
          None,
          MaxTid,       \* bound: slots of a thread list (piListAlloc)
          MaxMore,      \* bound: secondary threads at a time
          MaxPid,       \* bound: process ids
          Kinds,        \* ways to start a process, subset of AllKinds
          Uses          \* bound: which of AllUses occur

AllKinds == {"exec", "session", "waitfor", "chain"}

(* What a program can do and the code is not made for; a behaviour ends    *)
(* before one that is not in Uses.                                         *)
AllUses == {"window",   \* do something to a process that is just being started,
                        \* or to the thread that starts or frees one
            "late",     \* create a thread in a process that is ending,
            "held",     \* ... in one that waits for the wait of its launcher
            "passed",   \* mod_stop() of a chain comes to a thread that has ended
            "early",    \* create or resume a thread of the successor of a chained
                        \* process before the service thread has come to it
            "sibling"}  \* link a process anew while another one is behind it in the
                        \* child list it leaves: mt_linktree() keeps its piNext

ASSUME ProcConstants ==
    /\ Root \in Pd /\ None \notin Pd
    /\ MaxTid \in Nat \ {0} /\ MaxPid \in Nat \ {0} /\ MaxMore \in Nat
    /\ Kinds \subseteq AllKinds /\ Uses \subseteq AllUses

Tid    == 1..MaxTid
Thread == Pd \X Tid

VARIABLES pid,          \* piPID, 0 for a block that is free
          parent,       \* piParent
          ppid,         \* piParentPID
          tree,         \* piFirstChild and piNext of all blocks
          ptid,         \* piParentTID, the thread of the parent that waits
          flags,        \* piMiscFlags: "nopwait", "lwait", "chain" (CHAINEXIT)
          cnt,          \* piThreads
          st,           \* tiState with tiWaitReason of every slot
          wh,           \* tiWaitHandle
          pc,           \* where the code of the thread is
          tgt,          \* pd of mod_execcall()
          info,         \* QTLS_CHAININFO
          todo,         \* [pid, tids] of mod_stop(), what is left of its list
          lock,         \* the thread that keeps the MT lock over a step
          sysq,         \* SYSQ_SESSIONFREE events of sys_q
          rpid,         \* process_sysq(): the pid to resume, 0 if none
          nextpid,      \* lastusedpid
          trap          \* has a check found the process data wrong, or a walk over
                        \* a child list a freed block, its end too early, or no end?

procVars == <<pid, parent, ppid, tree, ptid, flags>>
codeVars == <<pc, tgt, info, todo>>
vars == <<procVars, cnt, st, wh, codeVars, lock, sysq, rpid, nextpid, trap>>

States == {"none", "run", "susp", "gone", "childexec", "tidexit", "tidmain", "waitlnch"}
Waits  == {"childexec", "tidexit", "tidmain", "waitlnch"}
PCs    == {"prog",      \* in the program
           "launch",    \* mod_execcall() between mt_new() and mt_exec()
           "ret",       \* mod_execcall() after mt_exec()
           "stop",      \* in the loop of mod_stop()
           "exit",      \* on its way into mt_exitthread_int()
           "main2"}     \* main thread, in its wait for the secondaries or after

Clean == [pid |-> 0, tids |-> <<>>]

Init == /\ pid = [p \in Pd |-> IF p = Root THEN 1 ELSE 0]
        /\ parent = [p \in Pd |-> None]
        /\ ppid = [p \in Pd |-> 0]
        /\ tree = [first |-> [p \in Pd |-> None], next |-> [p \in Pd |-> None]]
        /\ ptid = [p \in Pd |-> 0]
        /\ flags = [p \in Pd |-> {}]
        /\ cnt = [p \in Pd |-> IF p = Root THEN 1 ELSE 0]
        /\ st = [x \in Thread |-> IF x = <<Root, 1>> THEN "run" ELSE "none"]
        /\ wh = [x \in Thread |-> 0]
        /\ pc = [x \in Thread |-> "prog"]
        /\ tgt = [x \in Thread |-> None]
        /\ info = [x \in Thread |-> None]
        /\ todo = [x \in Thread |-> Clean]
        /\ lock = None
        /\ sysq = <<>> /\ rpid = 0
        /\ nextpid = 2
        /\ trap = FALSE

(***************************************************************************)
(* Lookups                                                                 *)
(***************************************************************************)
Used == {p \in Pd : pid[p] # 0}
Main(p) == <<p, 1>>
Slots(p) == {t \in Tid : st[<<p, t>>] # "none"}

(* get_by_pid(): replaced processes are not found                          *)
ByPid(n) == {p \in Used : pid[p] = n /\ "chain" \notin flags[p]}
(* a pid argument, 0 for the own process of thread x                       *)
Named(x, n) == IF n = 0 THEN {x[1]} ELSE ByPid(n)

(* thread x executes code, and nobody else keeps the lock                  *)
Runs(x) == ~trap /\ st[x] = "run" /\ lock \in {None, x}
InProg(x) == Runs(x) /\ pc[x] = "prog"
(* thread x may name process p: by pid, or as its own                      *)
Reaches(x, p) == p = x[1] \/ "chain" \notin flags[p]

Starting(p) == \E x \in Thread : pc[x] = "launch" /\ tgt[x] = p
Heir(p) == /\ "chain" \notin flags[p]
           /\ rpid = pid[p] \/ \E q \in Used : pid[q] = pid[p] /\ q # p
Ending(p) == pc[Main(p)] = "main2" /\ st[Main(p)] # "tidmain"
(* thread x is between two steps of mod_execcall() that belong together    *)
Between(x) == pc[x] = "launch" \/ (pc[x] = "ret" /\ st[x] # "childexec")
Only(use, is) == is => use \in Uses

(***************************************************************************)
(* The tree of processes.  What a walk along piNext comes by from block a  *)
(* is the least set that is closed under the step; it goes on for ever     *)
(* when some set of blocks is never left.                                  *)
(***************************************************************************)
Walk(n, a) ==
    {q \in Pd : \A S \in SUBSET Pd :
        a \in S \cup {None} /\ (\A r \in S : n[r] \in S \cup {None}) => q \in S}
Ends(n, a) == \A S \in SUBSET Pd : a \in S => \E r \in S : n[r] \notin S

(* mt_linktree(): p comes behind the last child of f; its own piNext stays *)
LastChild(n, a) == CHOOSE q \in Walk(n, a) : n[q] = None
Linked(t, f, p) ==
    IF t.first[f] = None THEN [t EXCEPT !.first[f] = p]
    ELSE [t EXCEPT !.next[LastChild(t.next, t.first[f])] = p]
CanLink(t, f) == Walk(t.next, t.first[f]) \subseteq Used /\ Ends(t.next, t.first[f])

(* mt_unlinktree(): p leaves the children of f; the walk looks for the     *)
(* block before p and comes no further                                     *)
PathTo(n, a, p) == Walk([n EXCEPT ![p] = None], a)
Before(n, a, p) == CHOOSE q \in PathTo(n, a, p) : q # p /\ n[q] = p
Unlinked(t, f, p) ==
    IF t.first[f] = p THEN [t EXCEPT !.first[f] = t.next[p]]
    ELSE [t EXCEPT !.next[Before(t.next, t.first[f], p)] = t.next[p]]
CanUnlink(t, f, p) ==
    p \in PathTo(t.next, t.first[f], p) /\ PathTo(t.next, t.first[f], p) \subseteq Used

(* the links of mt_switchtosession(): p becomes a child of QSINIT          *)
MovedTwice(t, p) == Linked(t, Root, p)                                \* mutant
Moved(t, p) == Linked(Unlinked(t, parent[p], p), Root, p)
CanMove(t, p) ==
    CanUnlink(t, parent[p], p) /\ CanLink(Unlinked(t, parent[p], p), Root)

(***************************************************************************)
(* Ends of threads and processes                                           *)
(***************************************************************************)
(* update_wait_state(), in the states s                                    *)
Wake(s, p, why, n) ==
    [x \in Thread |-> IF x[1] = p /\ s[x] = why /\ wh[x] = n THEN "run" ELSE s[x]]

(* update_lwait(): launched processes that wait for the launcher n         *)
LaunchesNone(s, n) == s                                               \* mutant
Launches(s, n) ==
    [x \in Thread |->
        IF x[2] = 1 /\ s[x] = "waitlnch" /\ wh[x] = n /\ cnt[x[1]] = 1
        THEN "run" ELSE s[x]]

(* the thread of the parent that waits for process p                       *)
Caller(p) == <<parent[p], ptid[p]>>
CallerLost(p) == ptid[p] # 0 /\ st[Caller(p)] \notin Waits

(* SWITCH_PROCEXIT: who is asked to free the process                       *)
Asked(p) == IF "nopwait" \in flags[p] THEN Append(sysq, p) ELSE sysq

(* the last part of mt_exitthread_int() for the main thread of p, from     *)
(* states s                                                                *)
ProcExit(p, s) ==
    LET r == Launches([s EXCEPT ![Main(p)] = "gone"], pid[p])
    IN  IF CallerLost(p)
        THEN /\ trap' = TRUE
             /\ UNCHANGED <<st, pc, sysq>>
        ELSE /\ st' = IF ptid[p] = 0 THEN r ELSE [r EXCEPT ![Caller(p)] = "run"]
             /\ pc' = [pc EXCEPT ![Main(p)] = "main2"]
             /\ sysq' = Asked(p)
             /\ UNCHANGED trap

(* the threads X have nothing left to do; slots that become free are that  *)
(* clean as well (mt_freethread())                                         *)
Reset(X) == /\ pc' = [x \in Thread |-> IF x \in X THEN "prog" ELSE pc[x]]
            /\ tgt' = [x \in Thread |-> IF x \in X THEN None ELSE tgt[x]]
            /\ info' = [x \in Thread |-> IF x \in X THEN None ELSE info[x]]
            /\ todo' = [x \in Thread |-> IF x \in X THEN Clean ELSE todo[x]]
(* tiWaitHandle means something for a thread that waits only               *)
Handles(f) == wh' = [x \in Thread |-> IF st'[x] \in Waits THEN f[x] ELSE 0]

LastSecondary(p) == cnt[p] = 2

(* mt_exitthread_int()                                                     *)
Exit(x) ==
    LET p == x[1]
        s == Wake(st, p, "tidexit", x[2])
    IN  /\ Runs(x) /\ pc[x] \in {"prog", "exit"} /\ p # Root
        /\ IF x[2] # 1
           THEN /\ st' = [IF LastSecondary(p) THEN Wake(s, p, "tidmain", 0) ELSE s
                            EXCEPT ![x] = "none"]
                /\ cnt' = [cnt EXCEPT ![p] = @ - 1]
                /\ Reset({x})
                /\ UNCHANGED <<sysq, trap>>
           ELSE IF cnt[p] > 1
           THEN /\ st' = [s EXCEPT ![x] = "tidmain"]
                /\ pc' = [pc EXCEPT ![x] = "main2"]
                /\ UNCHANGED <<cnt, tgt, info, todo, sysq, trap>>
           ELSE /\ ProcExit(p, s)
                /\ UNCHANGED <<cnt, tgt, info, todo>>
        /\ Handles(wh)
        /\ lock' = None
        /\ UNCHANGED <<procVars, rpid, nextpid>>

(* the main thread after its wait, which it does not repeat                *)
ExitMain(x) ==
    /\ Runs(x) /\ pc[x] = "main2"
    /\ ProcExit(x[1], st)
    /\ Handles(wh)
    /\ UNCHANGED <<procVars, cnt, tgt, info, todo, lock, rpid, nextpid>>

(* mt_exit(): check_prcdata() of the threads and of the tree, the look for *)
(* threads that are left, then the block is unlinked and free.             *)
SoundTree(p) ==
    /\ p \in Walk(tree.next, tree.first[parent[p]])
    /\ ppid[p] = pid[parent[p]]
    /\ Ends(tree.next, tree.first[p])
    /\ \A c \in Walk(tree.next, tree.first[p]) : parent[c] = p /\ ppid[c] = pid[p]
Sound(p) == /\ p \in Used /\ Slots(p) = {1} /\ cnt[p] = 1 /\ parent[p] \in Used
            /\ SoundTree(p)
Erased(t, p) == [t EXCEPT !.first[p] = None, !.next[p] = None]
Reaped(p) ==
    IF Sound(p)
    THEN /\ pid' = [pid EXCEPT ![p] = 0]
         /\ parent' = [parent EXCEPT ![p] = None]
         /\ ppid' = [ppid EXCEPT ![p] = 0]
         /\ tree' = Erased(Unlinked(tree, parent[p], p), p)
         /\ ptid' = [ptid EXCEPT ![p] = 0]
         /\ flags' = [flags EXCEPT ![p] = {}]
         /\ cnt' = [cnt EXCEPT ![p] = 0]
         /\ st' = [st EXCEPT ![Main(p)] = "none"]
         /\ UNCHANGED trap
    ELSE trap' = TRUE /\ UNCHANGED <<procVars, cnt, st>>

(***************************************************************************)
(* Starts of processes                                                     *)
(***************************************************************************)
(* flags of the process that is replaced by a chained one                  *)
ReplacedFound(f) == f \cup {"nopwait"}                               \* mutant
Replaced(f) == f \cup {"nopwait", "chain"}

(* mod_execcall() up to mt_new().  The successor of a chained process has  *)
(* its pid, its parent and the thread that waits; the process that it      *)
(* replaces becomes a session which get_by_pid() does not find.            *)
Father(x, kind) == CASE kind = "exec" -> x[1] [] kind = "chain" -> parent[x[1]]
                     [] OTHER -> Root
Planted(x, q, kind) ==
    LET t == Erased(tree, q) IN IF kind = "chain" THEN Moved(t, x[1]) ELSE t
CanPlant(x, q, kind) ==
    /\ kind = "chain" => /\ ptid[x[1]] # 0 => st[Caller(x[1])] # "none"
                         /\ CanMove(Erased(tree, q), x[1])
    /\ CanLink(Planted(x, q, kind), Father(x, kind))

Enrolled(x, q, kind) ==
    LET p == x[1]
        chain == kind = "chain"
    IN  /\ pid' = [pid EXCEPT ![q] = IF chain THEN pid[p] ELSE nextpid]
        /\ nextpid' = IF chain THEN nextpid ELSE nextpid + 1
        /\ parent' = IF chain THEN [parent EXCEPT ![q] = parent[p], ![p] = Root]
                     ELSE [parent EXCEPT ![q] = IF kind = "exec" THEN p ELSE Root]
        /\ ppid' = [r \in Pd |-> IF r = q THEN pid[Father(x, kind)]
                                 ELSE IF chain /\ r = p THEN pid[Root] ELSE ppid[r]]
        /\ tree' = Linked(Planted(x, q, kind), Father(x, kind), q)
        /\ ptid' = IF chain THEN [ptid EXCEPT ![q] = ptid[p], ![p] = 0]
                   ELSE [ptid EXCEPT ![q] = IF kind = "exec" THEN x[2] ELSE 0]
        /\ flags' = CASE kind = "exec"    -> flags
                      [] kind = "session" -> [flags EXCEPT ![q] = {"nopwait"}]
                      [] kind = "waitfor" -> [flags EXCEPT ![q] = {"nopwait", "lwait"}]
                      [] chain -> [flags EXCEPT ![q] = flags[p] \cap {"nopwait"},
                                                ![p] = Replaced(@)]
        /\ info' = IF chain /\ ptid[p] # 0 THEN [info EXCEPT ![Caller(p)] = q] ELSE info
        /\ cnt' = [cnt EXCEPT ![q] = 1]
        /\ st' = [st EXCEPT ![Main(q)] = "susp"]
        /\ pc' = [pc EXCEPT ![x] = "launch"]
        /\ tgt' = [tgt EXCEPT ![x] = q]
        /\ UNCHANGED trap

New(x, q, kind) ==
    LET p == x[1]
        chain == kind = "chain"
    IN  /\ InProg(x) /\ q \notin Used
        /\ chain => p # Root
        /\ Only("window", "chain" \in flags[p] \/
                 (chain /\ \E t \in Tid : t # x[2] /\ Between(<<p, t>>)))
        /\ Only("sibling", chain /\ tree.next[p] # None)
        /\ chain \/ nextpid <= MaxPid
        /\ IF CanPlant(x, q, kind)
           THEN Enrolled(x, q, kind)
           ELSE /\ trap' = TRUE
                /\ UNCHANGED <<procVars, cnt, st, pc, tgt, info, nextpid>>
        /\ UNCHANGED <<wh, todo, lock, sysq, rpid>>

(* mod_stop() of process p by thread x: the other threads are suspended,   *)
(* and a list of the threads to terminate is made, the own one last        *)
StopList(x, p) ==
    LET others[i \in 0..MaxTid] ==
            IF i = 0 THEN <<>>
            ELSE IF i \in Slots(p) /\ <<p, i>> # x THEN Append(others[i - 1], i)
            ELSE others[i - 1]
    IN  IF p = x[1] THEN Append(others[MaxTid], x[2]) ELSE others[MaxTid]
Stopping(x, n, p) ==
    /\ st' = [y \in Thread |->
                IF y[1] = p /\ y # x /\ st[y] = "run" THEN "susp" ELSE st[y]]
    /\ todo' = [todo EXCEPT ![x] = [pid |-> n, tids |-> StopList(x, p)]]
    /\ pc' = [pc EXCEPT ![x] = "stop"]
    /\ lock' = x

(* check_prcdata_early(): the new process is as mt_new() has left it       *)
Untouched(q) == q \in Used /\ Slots(q) = {1} /\ cnt[q] = 1 /\ pc[Main(q)] = "prog"

ChainedNever(p) == FALSE                                              \* mutant
Chained(p) == "chain" \in flags[p]

(* mt_exec()                                                               *)
Launch(x) ==
    LET p == x[1]
        q == tgt[x]
        m == Main(q)
    IN  /\ Runs(x) /\ pc[x] = "launch"
        /\ IF ~Untouched(q)
           THEN trap' = TRUE /\ UNCHANGED <<st, wh, pc, tgt, todo, lock>>
           ELSE /\ IF Chained(p)
                   THEN Stopping(x, 0, p) /\ UNCHANGED <<wh, tgt>>
                   ELSE IF "nopwait" \in flags[q]
                   THEN /\ st' = [st EXCEPT ![m] =
                                    IF "lwait" \in flags[q] THEN "waitlnch" ELSE "run"]
                        /\ Handles([wh EXCEPT ![m] = pid[p]])
                        /\ pc' = [pc EXCEPT ![x] = "prog"]
                        /\ tgt' = [tgt EXCEPT ![x] = None]
                        /\ UNCHANGED <<todo, lock>>
                   ELSE /\ st' = [st EXCEPT ![x] = "childexec", ![m] = "run"]
                        /\ wh' = [wh EXCEPT ![x] = pid[q]]
                        /\ pc' = [pc EXCEPT ![x] = "ret"]
                        /\ UNCHANGED <<tgt, todo, lock>>
                /\ UNCHANGED trap
        /\ UNCHANGED <<procVars, cnt, info, sysq, rpid, nextpid>>

(* the rest of mod_execcall(), for the process that ended in the place of  *)
(* the one started                                                         *)
EndedOld(x) == tgt[x]                                                \* mutant
Ended(x) == IF info[x] # None THEN info[x] ELSE tgt[x]
Return(x) ==
    /\ Runs(x) /\ pc[x] = "ret"
    /\ IF "nopwait" \in flags[Ended(x)]
       THEN Reset({x}) /\ UNCHANGED <<procVars, cnt, st, trap>>
       ELSE Reaped(Ended(x)) /\ Reset({x, Main(Ended(x))})
    /\ UNCHANGED <<wh, lock, sysq, rpid, nextpid>>

(***************************************************************************)
(* The service thread: process_sysq()                                      *)
(***************************************************************************)
SessionFree ==
    /\ ~trap /\ lock = None /\ sysq # <<>> /\ rpid = 0
    /\ sysq' = Tail(sysq)
    /\ Reaped(Head(sysq)) /\ Reset({Main(Head(sysq))})
    /\ rpid' = IF Chained(Head(sysq)) THEN pid[Head(sysq)] ELSE 0
    /\ UNCHANGED <<wh, lock, nextpid>>

(* the successor of a chained process is resumed                           *)
SessionResume ==
    /\ ~trap /\ lock = None /\ rpid # 0
    /\ rpid' = 0
    /\ st' = [x \in Thread |->
                IF x[2] = 1 /\ x[1] \in ByPid(rpid) /\ st[x] = "susp" THEN "run" ELSE st[x]]
    /\ UNCHANGED <<procVars, cnt, wh, codeVars, lock, sysq, nextpid, trap>>

(***************************************************************************)
(* Thread calls of a program                                               *)
(***************************************************************************)
(* mt_createthread(): the first free slot of the own or another process    *)
FirstAny(p) == CHOOSE t \in Tid : \A u \in Tid : t <= u           \* mutant
FirstFree(p) == CHOOSE t \in Tid \ Slots(p) : \A u \in Tid \ Slots(p) : t <= u
Create(x, p, s) ==
    LET y == <<p, FirstFree(p)>>
    IN  /\ InProg(x) /\ p \in Used \ {Root} /\ Reaches(x, p) /\ Slots(p) # Tid
        /\ Cardinality({z \in Thread : z[2] # 1 /\ st[z] # "none"}) < MaxMore
        /\ st' = [st EXCEPT ![y] = s]
        /\ cnt' = [cnt EXCEPT ![p] = @ + 1]
        /\ Only("late", Ending(p)) /\ Only("window", Starting(p))
        /\ Only("early", Heir(p)) /\ Only("held", st[Main(p)] = "waitlnch")
        /\ UNCHANGED <<procVars, wh, codeVars, lock, sysq, rpid, nextpid, trap>>

(* mt_resumethread() and mt_suspendthread() of thread y                    *)
Resume(x, y) ==
    /\ InProg(x) /\ st[y] = "susp" /\ Reaches(x, y[1])
    /\ st' = [st EXCEPT ![y] = "run"]
    /\ Only("early", Heir(y[1])) /\ Only("window", Starting(y[1]))
    /\ UNCHANGED <<procVars, cnt, wh, codeVars, lock, sysq, rpid, nextpid, trap>>
Suspend(x, y) ==
    /\ InProg(x) /\ st[y] = "run" /\ Reaches(x, y[1]) /\ y[1] # Root
    /\ st' = [st EXCEPT ![y] = "susp"]
    /\ UNCHANGED <<procVars, cnt, wh, codeVars, lock, sysq, rpid, nextpid, trap>>

(* mt_termthread() of another thread y by x: a thread that waits for a     *)
(* process gives that process away, and y goes to its exit fiber.  In its  *)
(* own process the caller waits.                                           *)
GivenAwayNone(y) == {}                                               \* mutant
GivenAway(y) == IF st[y] = "childexec" THEN ByPid(wh[y]) ELSE {}
Terminated(x, y) ==
    LET gone == GivenAway(y)
    IN  /\ Only("window", Between(y) \/ Starting(y[1]))
        /\ Only("sibling", \E p \in gone : tree.next[p] # None)
        /\ IF \A p \in gone : CanMove(tree, p)
           THEN /\ parent' = [p \in Pd |-> IF p \in gone THEN Root ELSE parent[p]]
                /\ ppid' = [p \in Pd |-> IF p \in gone THEN pid[Root] ELSE ppid[p]]
                /\ tree' = IF gone = {} THEN tree
                           ELSE Moved(tree, CHOOSE p \in gone : TRUE)
                /\ ptid' = [p \in Pd |-> IF p \in gone THEN 0 ELSE ptid[p]]
                /\ flags' = [p \in Pd |->
                               IF p \in gone THEN flags[p] \cup {"nopwait"} ELSE flags[p]]
                /\ st' = [st EXCEPT ![y] = "run",
                                    ![x] = IF x[1] = y[1] THEN "tidexit" ELSE @]
                /\ Handles([wh EXCEPT ![x] = y[2]])
                /\ pc' = [pc EXCEPT ![y] = "exit"]
                /\ UNCHANGED trap
           ELSE trap' = TRUE /\ UNCHANGED <<parent, ppid, tree, ptid, flags, st, wh, pc>>

Terminate(x, y) ==
    /\ InProg(x) /\ x # y /\ Reaches(x, y[1]) /\ y[1] # Root
    /\ st[y] \notin {"none", "gone", "tidmain"}
    /\ Terminated(x, y)
    /\ UNCHANGED <<pid, cnt, tgt, info, todo, lock, sysq, rpid, nextpid>>

(* mod_stop() of a process, named by its pid or, with 0, as the own one    *)
Stop(x, n) ==
    /\ InProg(x)
    /\ \E p \in Named(x, n) \ {Root} : Stopping(x, n, p)
    /\ UNCHANGED <<procVars, cnt, wh, tgt, info, sysq, rpid, nextpid, trap>>

(* its loop: a call of mt_termthread() for the next thread of the list.    *)
(* The first one that switches drops the lock mod_stop() has taken; one    *)
(* that finds no thread ends the loop.                                     *)
StopEnd(x) ==
    /\ pc' = [pc EXCEPT ![x] = IF tgt[x] # None THEN "ret" ELSE "prog"]
    /\ todo' = [todo EXCEPT ![x] = Clean]
    /\ lock' = None
    /\ UNCHANGED <<parent, ppid, tree, ptid, flags, st, wh, trap>>
StopNext(x) ==
    LET job == todo[x]
        P   == Named(x, job.pid)
        y   == <<CHOOSE p \in P : TRUE, Head(job.tids)>>
        rest == [pid |-> job.pid, tids |-> Tail(job.tids)]
    IN  /\ Runs(x) /\ pc[x] = "stop"
        /\ Only("passed", tgt[x] # None /\ job.tids # <<>> /\ (P = {} \/ st[y] = "none"))
        /\ IF job.tids = <<>> \/ P = {} \/ st[y] = "none"
           THEN StopEnd(x)
           ELSE IF y = x
           THEN /\ pc' = [pc EXCEPT ![x] = "exit"]
                /\ UNCHANGED <<parent, ppid, tree, ptid, flags, st, wh, todo, lock, trap>>
           ELSE IF st[y] \in {"gone", "tidmain"}
           THEN /\ todo' = [todo EXCEPT ![x] = rest]
                /\ UNCHANGED <<parent, ppid, tree, ptid, flags, st, wh, pc, lock, trap>>
           ELSE /\ Terminated(x, y)
                /\ todo' = [todo EXCEPT ![x] = rest]
                /\ lock' = None
        /\ UNCHANGED <<pid, cnt, tgt, info, sysq, rpid, nextpid>>

Program(x) ==
    \/ \E q \in Pd, kind \in Kinds : New(x, q, kind)
    \/ Launch(x) \/ Return(x) \/ Exit(x) \/ ExitMain(x) \/ StopNext(x)
    \/ \E p \in Pd, s \in {"run", "susp"} : Create(x, p, s)
    \/ \E y \in Thread : Resume(x, y) \/ Suspend(x, y) \/ Terminate(x, y)
    \/ \E n \in 0..MaxPid : Stop(x, n)

Next == (\E x \in Thread : Program(x)) \/ SessionFree \/ SessionResume

Spec == Init /\ [][Next]_vars

(***************************************************************************)
(* Properties                                                              *)
(***************************************************************************)
(* Type invariant; a free block has no threads, and every process has its  *)
(* main thread in slot 1.                                                  *)
TypeOK ==
    /\ pid \in [Pd -> 0..MaxPid] /\ nextpid \in 2..(MaxPid + 1)
    /\ parent \in [Pd -> Pd \cup {None}]
    /\ ppid \in [Pd -> 0..MaxPid]
    /\ tree \in [first : [Pd -> Pd \cup {None}], next : [Pd -> Pd \cup {None}]]
    /\ ptid \in [Pd -> 0..MaxTid]
    /\ flags \in [Pd -> SUBSET {"nopwait", "lwait", "chain"}]
    /\ st \in [Thread -> States] /\ pc \in [Thread -> PCs]
    /\ wh \in [Thread -> 0..(MaxPid + MaxTid)]
    /\ tgt \in [Thread -> Pd \cup {None}] /\ info \in [Thread -> Pd \cup {None}]
    /\ \A x \in Thread : todo[x].pid \in 0..MaxPid /\ todo[x].tids \in Seq(Tid)
    /\ lock \in Thread \cup {None}
    /\ sysq \in Seq(Pd) /\ rpid \in 0..MaxPid
    /\ trap \in BOOLEAN
    /\ \A p \in Pd : /\ cnt[p] = Cardinality(Slots(p))
                     /\ p \in Used <=> st[Main(p)] # "none"
                     /\ p \notin Used => cnt[p] = 0

(* No check of mt_new(), mt_exec(), mt_exit(), mt_exitthread_int() fails:  *)
(* the trap screens at process.c:195, :269, :385, :459, :817 are not       *)
(* reached, and every walk over a child list comes to its end.             *)
NoTrap == ~trap

(* Every process is in the child list of its parent and in no other one,   *)
(* and each list ends (mt_linktree(), mt_unlinktree()), however processes  *)
(* are chained, given away to QSINIT and freed.                            *)
TreeWhole ==
    /\ \A p \in Used \ {Root} : /\ parent[p] \in Used /\ ppid[p] = pid[parent[p]]
                                 /\ p \in Walk(tree.next, tree.first[parent[p]])
    /\ \A f \in Used : /\ Ends(tree.next, tree.first[f])
                        /\ \A c \in Walk(tree.next, tree.first[f]) :
                              c \in Used \ {Root} /\ parent[c] = f

(* Two processes that get_by_pid() finds never have one pid, though the    *)
(* successor of a chained process takes over that of a process that lives. *)
PidUnique ==
    \A p, q \in Used : p # q /\ pid[p] = pid[q] => "chain" \in flags[p] \cup flags[q]

(* A thread that waits in mt_exec() waits for one process, by the pid that *)
(* process still has, and that process knows the thread (process.c:814);   *)
(* chaining hands both sides over, mt_termthread() takes both away.        *)
CallersPaired ==
    /\ PidUnique
    /\ \A x \in Thread : st[x] = "childexec" =>
         \E p \in Used : ptid[p] # 0 /\ Caller(p) = x /\ ByPid(wh[x]) = {p}
    /\ \A p \in Used : ptid[p] # 0 /\ st[Main(p)] # "gone" =>
         \/ st[Caller(p)] = "childexec" /\ wh[Caller(p)] = pid[p]
         \/ pc[Caller(p)] = "launch" /\ tgt[Caller(p)] = p

(* A process that has ended is freed by one: the thread that executed it   *)
(* or the service thread, never by both and never by nobody.               *)
Fetches(p) == {x \in Thread : pc[x] = "ret" /\ st[x] # "childexec" /\ Ended(x) = p}
Posts(p)   == {i \in 1..Len(sysq) : sysq[i] = p}
OneReaper == \A p \in Pd :
    Cardinality(Fetches(p)) + Cardinality(Posts(p))
        = IF p \in Used /\ st[Main(p)] = "gone" THEN 1 ELSE 0

(* The successor of a chained process runs no code of its own before the   *)
(* process it replaces is freed (sysmt.c:80).                              *)
HeirWaits ==
    \A x \in Thread : Heir(x[1]) /\ st[x] = "run" => pc[x] \in {"exit", "main2"}

(* Nobody waits for something that has passed: the main thread for its     *)
(* secondaries, a launched process for its launcher, a caller of           *)
(* mt_termthread() for its victim.                                         *)
NobodyForgotten ==
    \A x \in Thread :
        /\ st[x] = "tidmain" => cnt[x[1]] > 1
        /\ st[x] = "waitlnch" => \E q \in Used : pid[q] = wh[x] /\ st[Main(q)] # "gone"
        /\ st[x] = "tidexit" => pc[<<x[1], wh[x]>>] = "exit"
=============================================================================
