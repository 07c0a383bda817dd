----------------------------- MODULE DiskCache -----------------------------
(***************************************************************************)
(* The sector cache of ldrapps/cache (cproc.c) between hlp_diskread() and  *)
(* hlp_diskwrite() (init/fat/diskio.c) and one cached disk.                *)
(*                                                                         *)
(* The cache keeps 32k blocks.  "ring" is the removal queue (prev, next    *)
(* and cachehead: the head goes first, a used block moves to the tail).    *)
(* GSize neighbouring locations share one bit of the disk's bitmap and one *)
(* key of the index; their blocks are chained in a circle by snext, and a  *)
(* block is looked up by its bit, then any block with the key, then its    *)
(* circle.  Data is abstracted to what a reader can tell: stale[b] is the  *)
(* set of sectors of block b that differ from the disk.                    *)
(*                                                                         *)
(* A request runs one step per 32k block.  All of it is under the MT lock, *)
(* so requests do not interleave.                                          *)
(***************************************************************************)
EXTENDS Integers, Sequences, FiniteSets

CONSTANTS NBlocks,      \* blocks_total; block 0 is reserved and means "none"
          DiskSize,     \* di->sectors
          Sin32k,       \* di->sin32k
          GSize,        \* 1 << a_shift, 32k locations per bit
          Handles,      \* how callers name the disk, subset of HandleKinds
          Faults,       \* may the disk refuse a request?
          MaxIo,        \* bound: longest request, in sectors
          SysLocs,      \* locations of the system area of the mounted volume
          GoOn          \* bound: requests also after one of the Causes?

(* "volume": hlp_diskread() of a volume adds QDSK_IGNACCESS to the disk    *)
(* number; "direct": the caller set QDSK_DIRECT                            *)
HandleKinds == {"plain", "volume", "direct"}

ASSUME CacheConstants ==
    /\ NBlocks \in Nat /\ NBlocks >= 4 /\ NBlocks % 2 = 0
    /\ DiskSize \in Nat \ {0} /\ Sin32k \in Nat \ {0} /\ GSize \in Nat \ {0}
    /\ Handles \subseteq HandleKinds
    /\ Faults \in BOOLEAN /\ GoOn \in BOOLEAN
    /\ MaxIo \in Nat
    /\ SysLocs \subseteq 0..((DiskSize - 1) \div Sin32k)

VARIABLES on,           \* is the cache allocated and installed (hlp_runcache)?
          enabled,      \* di->enabled
          mounted,      \* is the volume of SysLocs mounted?
          ring,         \* removal queue, from cachehead on
          loc,          \* bi[].loc, NoLoc for an unused block (pdi = 0)
          snext,        \* bi[].snext
          marks,        \* blocks with BI_PRIO
          bitmap,       \* di->bitmap, as the set of groups whose bit is on
          prio,         \* di->prio, likewise
          stale,        \* sectors of each block that differ from the disk
          req,          \* the request being served
          served,       \* has a read been answered with stale data?
          cause         \* what has gone wrong so far, see Causes

vars == <<on, enabled, mounted, ring, loc, snext, marks, bitmap, prio, stale, req,
          served, cause>>

Blocks  == 1..(NBlocks - 1)
NoLoc   == -1
Locs    == 0..((DiskSize - 1) \div Sin32k)
LocOf(p)   == p \div Sin32k
GroupOf(l) == l \div GSize
Groups  == {GroupOf(l) : l \in Locs}

(* The three ways in which a copy goes stale; the run that looks for       *)
(* others excludes them by name.                                           *)
Causes  == {"evict",    \* making room freed the very block found by the lookup
            "flags",    \* a long write did not invalidate: flags in the disk number
            "fault"}    \* a write failed after a part of it was on the disk

Idle == [phase |-> "idle"]
Io(mode, p, n) ==
    [phase |-> "io", mode |-> mode, first |-> p, pos |-> p, end |-> p + n]

Init == /\ on = FALSE /\ enabled = TRUE /\ mounted = FALSE
        /\ ring = <<>>
        /\ loc = [b \in Blocks |-> NoLoc]
        /\ snext = [b \in Blocks |-> 0]
        /\ marks = {} /\ bitmap = {} /\ prio = {}
        /\ stale = [b \in Blocks |-> {}]
        /\ req = Idle
        /\ served = FALSE
        /\ cause = {}

Cached == {b \in Blocks : loc[b] # NoLoc}

(***************************************************************************)
(* The index and the circles                                               *)
(***************************************************************************)
(* the walk along the pointers f from b, and the blocks it meets           *)
Walk(f, b) ==
    LET w[i \in 0..NBlocks] ==
            IF i = 0 THEN b ELSE IF w[i - 1] = 0 THEN 0 ELSE f[w[i - 1]]
    IN  w
Circle(f, b) == LET w == Walk(f, b) IN {w[i] : i \in 0..NBlocks} \ {0}

(* memrchrd() from cachehead down, then from the top: a block of group g   *)
MaxOf(S) == CHOOSE x \in S : \A y \in S : y <= x
SlBlock(g) ==
    LET keyed == {b \in Cached : GroupOf(loc[b]) = g}
        below == IF ring = <<>> THEN {} ELSE {b \in keyed : b < Head(ring)}
    IN  IF g \notin bitmap \/ keyed = {} THEN 0
        ELSE IF below # {} THEN MaxOf(below) ELSE MaxOf(keyed)

(* the block that holds location l, 0 if the lookup finds none             *)
Find(l) ==
    LET s == SlBlock(GroupOf(l))
        found == IF s = 0 THEN {} ELSE {b \in Circle(snext, s) : loc[b] = l}
    IN  IF found = {} THEN 0 ELSE CHOOSE b \in found : TRUE

(* free_bi_entry() for every block of set: what remains of a circle closes *)
(* over the gap, the bit goes off with the last block of one.              *)
NextKept(b, set) ==
    LET w    == Walk(snext, b)
        kept == {i \in 1..NBlocks : w[i] \notin set}
        n    == CHOOSE i \in kept : \A j \in kept : i <= j
    IN  IF w[n] = b THEN 0 ELSE w[n]
Unlinked(set) ==
    [b \in Blocks |-> IF b \in set THEN 0
                      ELSE IF Circle(snext, b) \cap set = {} THEN snext[b]
                      ELSE NextKept(b, set)]
BitsOffEach(set) == {GroupOf(loc[b]) : b \in set}              \* mutant
BitsOff(set) == {GroupOf(loc[b]) :
                   b \in {c \in set : snext[c] # c /\ Circle(snext, c) \subseteq set}}
Without(q, set) ==
    LET w[i \in 0..Len(q)] == IF i = 0 THEN <<>>
                              ELSE IF q[i] \in set THEN w[i - 1]
                              ELSE Append(w[i - 1], q[i])
    IN  w[Len(q)]
Blank(f, set, v) == [b \in Blocks |-> IF b \in set THEN v ELSE f[b]]

(* expand_free(1): with no free block, marked blocks at the head lose the  *)
(* mark and go to the tail, and the first one without a mark is freed      *)
Victim == LET plain == {i \in 1..Len(ring) : ring[i] \notin marks}
          IN  IF plain = {} THEN 1 ELSE CHOOSE i \in plain : \A j \in plain : i <= j
Spared == IF \A i \in 1..Len(ring) : ring[i] \in marks THEN marks
          ELSE {ring[i] : i \in 1..(Victim - 1)}
Room ==
    IF Cached # Blocks
    THEN [free |-> Blocks \ Cached, ring |-> ring, marks |-> marks,
          snext |-> snext, bitmap |-> bitmap]
    ELSE LET v == {ring[Victim]}
         IN  [free |-> v, marks |-> (marks \ Spared) \ v,
              ring |-> SubSeq(ring, Victim + 1, Len(ring)) \o SubSeq(ring, 1, Victim - 1),
              snext |-> Unlinked(v), bitmap |-> bitmap \ BitsOff(v)]

ToTailTwice(q, b) == Append(q, b)                              \* mutant
ToTail(q, b) == Append(Without(q, {b}), b)

(* the pointers f with block b put behind slblock's predecessor            *)
LinkedOneWay(f, b, s) == [f EXCEPT ![b] = s]                  \* mutant
Linked(f, b, s) ==
    IF s = 0 THEN [f EXCEPT ![b] = 0]
    ELSE LET g == [f EXCEPT ![b] = s]
             p == IF g[s] = 0 THEN s
                  ELSE CHOOSE x \in Circle(g, s) : g[x] = s
         IN  [g EXCEPT ![p] = b]

(***************************************************************************)
(* cache_io(), one 32k block per step                                      *)
(***************************************************************************)
Piece == LET off  == req.pos % Sin32k
             room == Sin32k - off
             left == req.end - req.pos
         IN  off..(off + (IF left < room THEN left ELSE room) - 1)
Where == LocOf(req.pos)
FullBlock == Cardinality(Piece) = Sin32k
Advance == LET p == req.pos + Cardinality(Piece)
           IN  req' = IF p = req.end THEN Idle ELSE [req EXCEPT !.pos = p]

Marked(m, b) == IF GroupOf(Where) \in prio THEN m \cup {b} ELSE m
(* copying to or from block b, whose stale sectors are st                  *)
CopiedCached(st) == IF req.mode # "write" THEN st ELSE st \ Piece  \* mutant
Copied(st) == IF req.mode = "read" THEN st ELSE st \ Piece

(* the block is present: it goes to the end of the removal queue           *)
Hit == /\ req.phase = "io" /\ Find(Where) # 0
       /\ LET b == Find(Where) IN
          /\ ring' = ToTail(ring, b)
          /\ marks' = Marked(marks, b)
          /\ stale' = [stale EXCEPT ![b] = Copied(@)]
          /\ served' = (served \/ (req.mode = "read" /\ stale[b] \cap Piece # {}))
       /\ Advance
       /\ UNCHANGED <<on, enabled, mounted, loc, snext, bitmap, prio, cause>>

(* a write that is partial or direct allocates nothing                     *)
Skip == /\ req.phase = "io" /\ Find(Where) = 0
        /\ \/ req.mode = "direct"
           \/ req.mode = "write" /\ ~FullBlock
        /\ Advance
        /\ UNCHANGED <<on, enabled, mounted, ring, loc, snext, marks, bitmap, prio,
                       stale, served, cause>>

Wanted == /\ req.phase = "io" /\ Find(Where) = 0
          /\ req.mode = "read" \/ (req.mode = "write" /\ FullBlock)

(* a free block takes the location in; slblock is the one found before     *)
(* room was made                                                           *)
Load == /\ Wanted
        /\ LET s == SlBlock(GroupOf(Where)) IN
           \E b \in Room.free :
             /\ ring' = Append(Room.ring, b)
             /\ loc' = [loc EXCEPT ![b] = Where]
             /\ snext' = Linked(Room.snext, b, s)
             /\ marks' = Marked(Room.marks, b)
             /\ bitmap' = IF s = 0 THEN Room.bitmap \cup {GroupOf(Where)}
                          ELSE Room.bitmap
             /\ stale' = [stale EXCEPT ![b] = {}]
             /\ cause' = IF s = b THEN cause \cup {"evict"} ELSE cause
        /\ Advance
        /\ UNCHANGED <<on, enabled, mounted, prio, served>>

(* the disk refuses the 32k: room has been made for nothing, and           *)
(* hlp_diskread() goes on without the cache                                *)
LoadFails == /\ Wanted /\ Faults /\ req.mode = "read"
             /\ ring' = Room.ring
             /\ loc' = Blank(loc, Room.free, NoLoc)
             /\ snext' = Room.snext
             /\ marks' = Room.marks
             /\ bitmap' = Room.bitmap
             /\ stale' = Blank(stale, Room.free, {})
             /\ req' = Idle
             /\ UNCHANGED <<on, enabled, mounted, prio, served, cause>>

(***************************************************************************)
(* cache_read(), cache_write() as hlp_diskread() and hlp_diskwrite() call  *)
(* them.  A request the cache refuses goes to the disk: for a read nothing *)
(* changes, and only the others are actions here.                          *)
(***************************************************************************)
Ready(p, n) == req = Idle /\ p + n <= DiskSize /\ (GoOn \/ cause = {})
Serves == on /\ enabled
TooLong(n) == n \div Sin32k > NBlocks \div 2

(* sectors lo..hi-1 are written on the disk; a copy of one is stale until  *)
(* it is written too                                                       *)
OnDisk(lo, hi) ==
    [b \in Blocks |->
        IF loc[b] = NoLoc THEN {}
        ELSE stale[b] \cup {s \in 0..(Sin32k - 1) : loc[b] * Sin32k + s \in lo..(hi - 1)}]

Read(h, p, n) ==
    /\ Ready(p, n) /\ Serves /\ ~TooLong(n) /\ h # "direct"
    /\ req' = Io("read", p, n)
    /\ UNCHANGED <<on, enabled, mounted, ring, loc, snext, marks, bitmap, prio, stale,
                   served, cause>>

(* the disk first, then the copies                                         *)
Write(h, p, n) ==
    /\ Ready(p, n) /\ Serves /\ ~TooLong(n)
    /\ stale' = OnDisk(p, p + n)
    /\ req' = Io(IF h = "direct" THEN "direct" ELSE "write", p, n)
    /\ UNCHANGED <<on, enabled, mounted, ring, loc, snext, marks, bitmap, prio, served,
                   cause>>

(* The disk fails after k sectors of a try, whole 32k transfers; the cache *)
(* updates nothing, and hlp_diskwrite() tries again without it: it may     *)
(* come further, or to the end.                                            *)
WriteFails(h, p, n) ==
    /\ Ready(p, n) /\ Serves /\ ~TooLong(n) /\ Faults
    /\ \E k \in {Sin32k * i : i \in 0..(n \div Sin32k)} \cup {n} :
         /\ stale' = OnDisk(p, p + k)
         /\ cause' = IF stale' = stale THEN cause ELSE cause \cup {"fault"}
    /\ UNCHANGED <<on, enabled, mounted, ring, loc, snext, marks, bitmap, prio, req,
                   served>>

(* the cache is disabled for the disk                                      *)
WriteThrough(h, p, n) ==
    /\ Ready(p, n) /\ on /\ ~enabled
    /\ stale' = OnDisk(p, p + n)
    /\ UNCHANGED <<on, enabled, mounted, ring, loc, snext, marks, bitmap, prio, req,
                   served, cause>>

(***************************************************************************)
(* cc_invalidate() and the other calls of the control class                *)
(***************************************************************************)
FreeBlocks(set) == /\ ring' = Without(ring, set)
                   /\ loc' = Blank(loc, set, NoLoc)
                   /\ snext' = Unlinked(set)
                   /\ marks' = marks \ set

(* The blocks to free are those whose pdi->disk equals the number given,   *)
(* flags included, so with a flag there is none.                           *)
Mine(h) == IF h = "plain" THEN Cached ELSE {}
InvalidateAll(h) == /\ FreeBlocks(Mine(h))
                    /\ bitmap' = {} /\ prio' = {}
InvalidatePart(h, p, n) ==
    LET set == {b \in Mine(h) : loc[b] \in LocOf(p)..LocOf(p + n - 1)}
    IN  /\ FreeBlocks(set)
        /\ bitmap' = bitmap \ BitsOff(set)
        /\ UNCHANGED prio
Cleared(h, p, n) ==
    IF n = DiskSize THEN InvalidateAll(h) ELSE InvalidatePart(h, p, n)

(* a write of more than half the cache is not cached, only invalidates     *)
LongWrite(h, p, n) ==
    /\ Ready(p, n) /\ Serves /\ TooLong(n)
    /\ Cleared(h, p, n)
    /\ stale' = [b \in Blocks |-> IF loc'[b] = NoLoc THEN {} ELSE OnDisk(p, p + n)[b]]
    /\ cause' = IF \E b \in Cached : loc'[b] # NoLoc /\ stale'[b] # stale[b]
                THEN cause \cup {"flags"} ELSE cause
    /\ UNCHANGED <<on, enabled, mounted, req, served>>

Invalidate(p, n) ==
    /\ Ready(p, n) /\ on
    /\ Cleared("plain", p, n)
    /\ stale' = [b \in Blocks |-> IF loc'[b] = NoLoc THEN {} ELSE stale[b]]
    /\ UNCHANGED <<on, enabled, mounted, req, served, cause>>

(* cc_enable(): a disabled disk keeps no blocks                            *)
Enable == /\ req = Idle /\ ~enabled /\ enabled' = TRUE
          /\ UNCHANGED <<on, mounted, ring, loc, snext, marks, bitmap, prio, stale,
                         req, served, cause>>
Disable == /\ req = Idle /\ enabled /\ enabled' = FALSE
           /\ IF on THEN InvalidateAll("plain")
                    ELSE UNCHANGED <<ring, loc, snext, marks, bitmap, prio>>
           /\ stale' = [b \in Blocks |-> {}]
           /\ UNCHANGED <<on, mounted, req, served, cause>>

(* cc_setprio() of the mounted volume's system area; the bit after its     *)
(* last one is set as well                                                 *)
SysGroups == LET g == {GroupOf(l) : l \in SysLocs}
             IN  (g \cup {x + 1 : x \in g}) \cap Groups
Mount == /\ req = Idle /\ ~mounted /\ mounted' = TRUE
         /\ prio' = IF on THEN prio \cup SysGroups ELSE prio
         /\ UNCHANGED <<on, enabled, ring, loc, snext, marks, bitmap, stale,
                        req, served, cause>>
(* io_unmount() removes the volume from v_mounted before it sends          *)
(* CC_UMOUNT, so hlp_volinfo() tells the handler that nothing is mounted   *)
(* and cache_ioctl() changes nothing                                       *)
Unmount == /\ req = Idle /\ mounted /\ mounted' = FALSE
           /\ UNCHANGED <<on, enabled, ring, loc, snext, marks, bitmap, prio,
                          stale, req, served, cause>>
(* cc_setprio() called for the control class                               *)
SetPrio == /\ req = Idle /\ prio' \in {prio \cup SysGroups, prio \ SysGroups}
           /\ UNCHANGED <<on, enabled, mounted, ring, loc, snext, marks,
                          bitmap, stale, req, served, cause>>

(* cc_setsize(): the block lists are new, the bit arrays of the disk stay  *)
NewLists == /\ ring' = <<>>
            /\ loc' = [b \in Blocks |-> NoLoc]
            /\ snext' = [b \in Blocks |-> 0]
            /\ marks' = {}
            /\ stale' = [b \in Blocks |-> {}]
SizeOn == /\ req = Idle /\ on' = TRUE /\ NewLists
          /\ prio' = IF mounted THEN prio \cup SysGroups ELSE prio
          /\ UNCHANGED <<enabled, mounted, bitmap, req, served, cause>>
SizeOff == /\ req = Idle /\ on /\ on' = FALSE /\ NewLists
           /\ UNCHANGED <<enabled, mounted, bitmap, prio, req, served, cause>>

Requests == \E p \in 0..(DiskSize - 1), n \in 1..DiskSize :
              \/ \E h \in Handles :
                    \/ n <= MaxIo /\ (Read(h, p, n) \/ Write(h, p, n) \/ WriteFails(h, p, n))
                    \/ LongWrite(h, p, n)
                    \/ WriteThrough(h, p, n)
              \/ Invalidate(p, n)

Next == \/ Hit \/ Skip \/ Load \/ LoadFails
        \/ Requests
        \/ Enable \/ Disable \/ Mount \/ Unmount \/ SetPrio
        \/ SizeOn \/ SizeOff

Spec == Init /\ [][Next]_vars
(***************************************************************************)
(* Properties                                                              *)
(***************************************************************************)
(* Type invariant.  A block is in the removal queue, once, exactly when it *)
(* holds a location (cproc.c:34, :469).                                    *)
TypeOK ==
    /\ on \in BOOLEAN /\ enabled \in BOOLEAN /\ mounted \in BOOLEAN
    /\ ring \in Seq(Blocks)
    /\ {ring[i] : i \in 1..Len(ring)} = Cached /\ Len(ring) = Cardinality(Cached)
    /\ loc \in [Blocks -> Locs \cup {NoLoc}]
    /\ snext \in [Blocks -> Blocks \cup {0}]
    /\ marks \subseteq Cached
    /\ bitmap \subseteq Groups /\ prio \subseteq Groups
    /\ stale \in [Blocks -> SUBSET (0..(Sin32k - 1))]
    /\ \/ req = Idle
       \/ req.phase = "io" /\ req.first <= req.pos /\ req.pos < req.end /\ req.end <= DiskSize
    /\ served \in BOOLEAN /\ cause \subseteq Causes

(* Whatever happens, a circle of snext leads back to where it starts and   *)
(* holds blocks in use, of one group and of different locations: the loops *)
(* of free_bi_entry() (:361), cache_io() (:441, :498) end.                 *)
CirclesClose ==
    \A b \in Cached :
        LET c == Circle(snext, b) IN
        /\ c \subseteq Cached
        /\ snext[b] # 0 => \E x \in c : snext[x] = b
        /\ \A x \in c : /\ GroupOf(loc[x]) = GroupOf(loc[b])
                        /\ x # b => loc[x] # loc[b]

(* Every block in use is found by the lookup of its location: neither the  *)
(* bit nor the circle has lost it, and there is no second copy (:429-:445).*)
Findable == cause = {} => \A b \in Cached : Find(loc[b]) = b

(* Between requests every copy is what the disk holds, for as long as none *)
(* of the three causes has occurred.                                       *)
CopiesFresh == cause = {} /\ req = Idle => \A b \in Cached : stale[b] = {}

(* What a read returns is what was written last, also when the cache       *)
(* answers ("else whose entries became outdated", cproc.c:450-452).        *)
ReadsFresh == ~served

(* "unmount will clear all cache" (partmgr/format.c:163, :549)             *)
UnmountClears == [][mounted /\ ~mounted' => Cached' = {}]_vars
=============================================================================
