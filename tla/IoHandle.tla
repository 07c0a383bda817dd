------------------------------ MODULE IoHandle ------------------------------
(***************************************************************************)
(* Handles of files: sftable and ftable of start/main/sysio.c, for one     *)
(* volume.  An entry of sftable is a file that is open; it lists the       *)
(* handles (entries of ftable) that refer to it.  Handles made by          *)
(* inheritance or with IODH_SHAREPOS are chained (inh_main, inh_next), and *)
(* the position of the first handle of a chain is that of all.             *)
(*                                                                         *)
(* A call runs under the MT lock and is one step; io_close_as(), which     *)
(* closes the handles of a process that has ended, gives the lock back     *)
(* after every handle.  sft_find() finds one entry for a path, so entries  *)
(* are named by their path here.                                           *)
(***************************************************************************)
EXTENDS Integers, FiniteSets

CONSTANTS Proc,         \* processes
          Name,         \* paths of files
          MaxHandles,   \* bound: slots of ftable
          MaxPos,       \* bound: positions
          Modes,        \* io_open() modes in use, subset of AllModes
          Uses          \* which of AllUses occur

Access == {"read", "write", "del"}
AllModes == [ops : SUBSET Access, share : SUBSET Access, trunc : BOOLEAN]

(* What the code is not made for; a behaviour ends before one that is not  *)
(* in Uses.                                                                *)
AllUses == {"copy",     \* duplicate a handle that follows another one, without
                        \* sharing: the position copied is not the one it has
            "broken"}   \* truncate a file whose entry is left from an unmounted
                        \* volume: the new volume gets a handle of the old one

(* pid 0: a detached handle                                                *)
NoPid == 0
NoFile == "none"

ASSUME HandleConstants ==
    /\ MaxHandles \in Nat /\ MaxPos \in Nat
    /\ Modes \subseteq AllModes /\ Uses \subseteq AllUses
    /\ NoPid \notin Proc
    /\ NoFile \notin Name /\ IsFiniteSet(Name)

Slot == 1..MaxHandles
Fh   == 1..(Cardinality(Name) + 1)      \* handles of the volume (vol->open)

VARIABLES sft,          \* entry of each file, Shut if it is not open
          ft,           \* handle in each slot, Free if there is none
          volopen,      \* handles the volume has given out and not taken back
          mounted,      \* is the volume mounted?
          alive,        \* processes that run
          job,          \* io_close_as(): what is left to close for a process,
                        \* in the order of the slots
          detached,     \* handles detached by their owner, and copies of such
          misuse        \* has the volume been given a handle it does not know?

vars == <<sft, ft, volopen, mounted, alive, job, detached, misuse>>

Free == [pid |-> NoPid, file |-> NoFile, share |-> {}, pos |-> 0,
         main |-> 0, next |-> 0]
Shut == [list |-> {}, sbits |-> {}, fh |-> 0, broken |-> FALSE]

Used(f) == {h \in Slot : f[h] # Free}
Opened  == {n \in Name : sft[n] # Shut}

Init == /\ sft = [n \in Name |-> Shut]
        /\ ft = [h \in Slot |-> Free]
        /\ volopen = {}
        /\ mounted = TRUE
        /\ alive \in {{p} : p \in Proc}
        /\ job = [p \in Proc |-> {}]
        /\ detached = {}
        /\ misuse = FALSE

Only(use, is) == is => use \in Uses
(* io_check_handle(): a handle of one's own, or a detached one             *)
Mine(p, h) == p \in alive /\ ft[h] # Free /\ ft[h].pid \in {p, NoPid}
Lowest(S) == CHOOSE h \in S : \A g \in S : h <= g
FirstFree(f) == Lowest(Slot \ Used(f))

(***************************************************************************)
(* Chains of handles with one position                                     *)
(***************************************************************************)
(* the handles met from h along inh_next                                   *)
ChainWalk(f, h) ==
    LET w[i \in 0..MaxHandles] ==
            IF i = 0 THEN h ELSE IF w[i - 1] = 0 THEN 0 ELSE f[w[i - 1]].next
    IN  w
ChainFrom(f, h) == {ChainWalk(f, h)[i] : i \in 0..MaxHandles} \ {0}

(* get_main(): where the position is                                       *)
MainOf(f, h) == IF f[h].main # 0 THEN f[h].main ELSE h

(* ioh_unlink(), the inherited list: a successor of the first handle takes *)
(* its position over                                                       *)
TakesOverNot(f, h, x) == FALSE                                        \* mutant
TakesOver(f, h, x) == f[h].main = h /\ x = f[h].next
NextOfKept(f, h, x) == f[x].next                                      \* mutant
NextOf(f, h, x) == IF f[x].next = h THEN f[h].next ELSE f[x].next
Unchained(f, h) ==
    LET m == IF f[h].main = h THEN f[h].next ELSE f[h].main
        others == ChainFrom(f, m) \ {h}
    IN  [x \in Slot |->
            IF x = h THEN Free
            ELSE IF x \notin others THEN f[x]
            ELSE [f[x] EXCEPT !.main = m,
                              !.next = NextOf(f, h, x),
                              !.pos = IF TakesOver(f, h, x) THEN f[h].pos ELSE @]]

(* dup_handle() of g into slot h                                           *)
Dupped(f, g, h, pid, share) ==
    LET chained == f[g].main # 0
        new == [f[g] EXCEPT !.pid = pid,
                            !.main = IF ~share THEN 0 ELSE IF chained THEN @ ELSE g,
                            !.next = IF share /\ chained THEN @ ELSE 0]
    IN  IF share THEN [f EXCEPT ![h] = new, ![g].main = new.main, ![g].next = h]
        ELSE [f EXCEPT ![h] = new]

(***************************************************************************)
(* io_open()                                                               *)
(***************************************************************************)
(* sft_check_mode(): the bits shared by all handles answer most questions  *)
Allowed(p, n, ops) ==
    \/ ops \subseteq sft[n].sbits
    \/ \A h \in sft[n].list : ft[h].pid # p => ops \subseteq ft[h].share

Handle(p, n, m) == [Free EXCEPT !.pid = p, !.file = n, !.share = m.share]

(* the file is open already                                                *)
NewBitsKept(n, share) == sft[n].sbits                                 \* mutant
NewBits(n, share) == sft[n].sbits \cap share
OpenAgain(p, n, m) ==
    LET h == FirstFree(ft)
    IN  /\ n \in Opened /\ Allowed(p, n, m.ops)
        /\ sft' = [sft EXCEPT ![n].list = @ \cup {h}, ![n].sbits = NewBits(n, m.share)]
        /\ ft' = [ft EXCEPT ![h] = Handle(p, n, m)]
        /\ Only("broken", m.trunc /\ sft[n].broken)
        /\ misuse' = (misuse \/ (m.trunc /\ sft[n].fh \notin volopen))
        /\ UNCHANGED volopen

(* the volume opens it                                                     *)
OpenFirst(p, n, m) ==
    LET h == FirstFree(ft)
        fh == CHOOSE x \in Fh : x \notin volopen
    IN  /\ n \notin Opened
        /\ volopen' = volopen \cup {fh}
        /\ sft' = [sft EXCEPT ![n] = [list |-> {h}, sbits |-> m.share, fh |-> fh,
                                      broken |-> FALSE]]
        /\ ft' = [ft EXCEPT ![h] = Handle(p, n, m)]
        /\ UNCHANGED misuse

Open(p, n, m) ==
    /\ p \in alive /\ mounted /\ Used(ft) # Slot
    /\ OpenAgain(p, n, m) \/ OpenFirst(p, n, m)
    /\ UNCHANGED <<mounted, alive, job, detached>>

(***************************************************************************)
(* io_close()                                                              *)
(***************************************************************************)
(* The bits are rebuilt from the handles that are left.                    *)
Bits(n, f, left) ==
    {a \in Access : \A g \in left : a \in f[g].share}
Closed(h) ==
    LET n == ft[h].file
        left == sft[n].list \ {h}
    IN  /\ ft' = Unchained(ft, h)
        /\ IF left # {}
           THEN /\ sft' = [sft EXCEPT ![n].list = left,
                                      ![n].sbits = Bits(n, ft, left)]
                /\ UNCHANGED <<volopen, misuse>>
           ELSE /\ sft' = [sft EXCEPT ![n] = Shut]
                /\ IF sft[n].broken
                   THEN UNCHANGED <<volopen, misuse>>
                   ELSE /\ volopen' = volopen \ {sft[n].fh}
                        /\ misuse' = (misuse \/ sft[n].fh \notin volopen)
        /\ detached' = detached \ {h}

(* io_same_handle() knows a slot that was closed, and used again, by its   *)
(* opentime                                                                *)
Close(p, h) ==
    /\ Mine(p, h)
    /\ Closed(h)
    /\ job' = [q \in Proc |-> job[q] \ {h}]
    /\ UNCHANGED <<mounted, alive>>

(***************************************************************************)
(* io_duphandle(), io_inherit()                                            *)
(***************************************************************************)
(* every copy opens its file once more; it stays detached unless           *)
(* IODH_PRIVATE is set                                                     *)
Dup(p, g, private, share) ==
    LET h == FirstFree(ft)
        pid == IF private /\ ft[g].pid = NoPid THEN p ELSE ft[g].pid
    IN  /\ Mine(p, g) /\ Used(ft) # Slot
        /\ ~sft[ft[g].file].broken
        /\ Only("copy", ~share /\ MainOf(ft, g) # g)
        /\ ft' = Dupped(ft, g, h, pid, share)
        /\ sft' = [sft EXCEPT ![ft[g].file].list = @ \cup {h}]
        /\ detached' = IF pid = NoPid THEN detached \cup {h} ELSE detached
        /\ UNCHANGED <<volopen, mounted, alive, job, misuse>>

(* A new process: those handles of its parent that are marked are copied,  *)
(* slot by slot.  A process may mark any handle of its own at any time,    *)
(* and the mark has no other use: the set is chosen here.                  *)
Heritable(p) == {g \in Used(ft) : ft[g].pid = p /\ ~sft[ft[g].file].broken}
Inherit(t, i, c) ==
    LET h == FirstFree(t.ft)
    IN  [ft |-> Dupped(t.ft, i, h, c, TRUE),
         sft |-> [t.sft EXCEPT ![ft[i].file].list = @ \cup {h}]]
Inheriting(c, marked) ==
    LET s[i \in 0..MaxHandles] ==
            IF i = 0 THEN [ft |-> ft, sft |-> sft]
            ELSE IF i \in marked THEN Inherit(s[i - 1], i, c) ELSE s[i - 1]
    IN  s
Inherited(c, marked) == Inheriting(c, marked)[MaxHandles]
Start(c, p) ==
    /\ p \in alive /\ c \notin alive /\ job[c] = {}
    /\ \E marked \in SUBSET Heritable(p) :
         /\ Cardinality(marked) <= Cardinality(Slot \ Used(ft))
         /\ ft' = Inherited(c, marked).ft
         /\ sft' = Inherited(c, marked).sft
    /\ alive' = alive \cup {c}
    /\ UNCHANGED <<volopen, mounted, job, detached, misuse>>
(* a session inherits nothing                                              *)
StartSession(c) ==
    /\ c \notin alive /\ job[c] = {}
    /\ alive' = alive \cup {c}
    /\ UNCHANGED <<sft, ft, volopen, mounted, job, detached, misuse>>

(***************************************************************************)
(* io_close_as() at the end of a process                                   *)
(***************************************************************************)
OwnedFirst(p) == {h \in Slot : ft[h].pid = p /\ ft[h].main \in {0, h}}   \* mutant
Owned(p) == {h \in Slot : ft[h].pid = p}
Exit(p) ==
    /\ p \in alive /\ alive # {p}
    /\ alive' = alive \ {p}
    /\ job' = [job EXCEPT ![p] = Owned(p)]
    /\ ft' = [h \in Slot |-> IF h \in Owned(p) THEN [ft[h] EXCEPT !.pid = NoPid]
                             ELSE ft[h]]
    /\ UNCHANGED <<sft, volopen, mounted, detached, misuse>>
CloseNext(p) ==
    LET h == Lowest(job[p])
    IN  /\ job[p] # {}
        /\ Closed(h)
        /\ job' = [q \in Proc |-> job[q] \ {h}]
        /\ UNCHANGED <<mounted, alive>>

(***************************************************************************)
(* io_setstate(), i/o, volumes                                             *)
(***************************************************************************)
Detach(p, h) ==
    /\ Mine(p, h)
    /\ ft' = [ft EXCEPT ![h].pid = NoPid]
    /\ detached' = detached \cup {h}
    /\ UNCHANGED <<sft, volopen, mounted, alive, job, misuse>>
(* io_read(), io_write(), io_seek()                                        *)
Mover(h) == MainOf(ft, h)
Move(p, h, pos) ==
    /\ Mine(p, h) /\ ~sft[ft[h].file].broken
    /\ ft' = [ft EXCEPT ![Mover(h)].pos = pos]
    /\ UNCHANGED <<sft, volopen, mounted, alive, job, detached, misuse>>

(* sft_volumebroke() and io_unmount()                                      *)
Unmount ==
    /\ mounted /\ mounted' = FALSE
    /\ volopen' = volopen \ {sft[n].fh : n \in {x \in Opened : ~sft[x].broken}}
    /\ sft' = [n \in Name |-> IF n \in Opened THEN [sft[n] EXCEPT !.broken = TRUE]
                              ELSE Shut]
    /\ UNCHANGED <<ft, alive, job, detached, misuse>>
Mount ==
    /\ ~mounted /\ mounted' = TRUE
    /\ UNCHANGED <<sft, ft, volopen, alive, job, detached, misuse>>

Program(p) ==
    \/ \E n \in Name, m \in Modes : Open(p, n, m)
    \/ \E h \in Slot : \/ Close(p, h) \/ Detach(p, h)
                       \/ \E a, b \in BOOLEAN : Dup(p, h, a, b)
                       \/ \E pos \in 0..MaxPos : Move(p, h, pos)
    \/ \E c \in Proc : Start(c, p)
    \/ StartSession(p) \/ Exit(p) \/ CloseNext(p)

Next == (\E p \in Proc : Program(p)) \/ Unmount \/ Mount

Spec == Init /\ [][Next]_vars

(***************************************************************************)
(* Properties                                                              *)
(***************************************************************************)
(* Type invariant; no handle refers to a closed one.                       *)
TypeOK ==
    /\ ft \in [Slot -> [pid : Proc \cup {NoPid}, file : Name \cup {NoFile},
                       share : SUBSET Access, pos : 0..MaxPos,
                       main : Slot \cup {0}, next : Slot \cup {0}]]
    /\ sft \in [Name -> [list : SUBSET Slot, sbits : SUBSET Access,
                         fh : Fh \cup {0}, broken : BOOLEAN]]
    /\ volopen \subseteq Fh /\ alive \subseteq Proc /\ detached \subseteq Slot
    /\ job \in [Proc -> SUBSET Slot]
    /\ mounted \in BOOLEAN /\ misuse \in BOOLEAN
    /\ \A h \in Slot : {ft[h].main, ft[h].next} \subseteq Used(ft) \cup {0}

(* The tables agree with each other and with the volume: every handle is   *)
(* listed by its file; the share bits kept for a file are what all its     *)
(* handles share (they spare sft_check_mode() the look at each, :106);     *)
(* the volume has open the files of the table that are not broken, once,   *)
(* and is never given another handle.                                      *)
TablesAgree ==
    /\ \A n \in Name : /\ sft[n].list = {h \in Slot : ft[h].file = n}
                       /\ n \in Opened <=> sft[n].list # {}
    /\ \A n \in Opened : sft[n].sbits = {a \in Access : \A h \in sft[n].list : a \in ft[h].share}
    /\ volopen = {sft[n].fh : n \in {x \in Opened : ~sft[x].broken}}
    /\ Cardinality(volopen) = Cardinality({n \in Opened : ~sft[n].broken})
    /\ ~misuse

(* A process that has ended leaves no handle behind: what it had is in the *)
(* hands of io_close_as(), and nothing is detached that was not meant to be *)
(* (:1664).                                                                *)
NothingLeft ==
    \A h \in Used(ft) :
        IF ft[h].pid # NoPid THEN ft[h].pid \in alive
        ELSE h \in detached \/ \E p \in Proc : h \in job[p]

(* The chains implement positions as FilePos has them: a handle shares its *)
(* position with the handles of its chain, whatever is opened, duplicated, *)
(* inherited and closed, the first handle of the chain included.           *)
Mates(h) == IF ft[h] = Free THEN {}
            ELSE IF ft[h].main = 0 THEN {h} ELSE ChainFrom(ft, ft[h].main)
Positions == INSTANCE FilePos WITH
    with <- [h \in Slot |-> Mates(h)],
    at <- [h \in Slot |-> ft[MainOf(ft, h)].pos]
ImplementsPositions == Positions!Spec
=============================================================================
