------------------------------ MODULE StageTwo ------------------------------
(***************************************************************************)
(* The stage-2 page tables of the hypervisor (hv_vm-s208.c): hv_map() and  *)
(* its wrappers edit a tree of 32 MB blocks, 16 KB pages and, for software *)
(* mappings only, 4-byte words; hv_pt_walk() and the table walkers of the  *)
(* other CPUs read it.                                                     *)
(*                                                                         *)
(* One step is one store into a live table, or the free() calls before it, *)
(* so every intermediate tree is a state that a walker can meet.  A table  *)
(* is part of the entry that points to it.  Tables are freed while their   *)
(* entry still points to them: `freed' marks that time, in which nothing   *)
(* is said of what a walk through the entry reads.  `live' counts the      *)
(* tables that are allocated and not freed.  Addresses and sizes count     *)
(* words.  The M1 has 36-bit physical addresses: hv_Ltop is the L2 table.  *)
(* Attribute and trace bits are left out.                                  *)
(***************************************************************************)
EXTENDS Naturals, FiniteSets

CONSTANTS Blocks,           \* entries of the L2 table
          Pages,            \* entries of an L3 table
          Words,            \* entries of an L4 table
          RamBase, Base,    \* ram_base, and _base of the hypervisor above it
          Ranges,           \* the <<from, size>> that are mapped
          HwOffsets,        \* distances of a hardware mapping's target
          SwOffsets,        \* distances of a software mapping's target
          Hooks,            \* the MMIO hooks, of the hypervisor and of the host
          MaxCalls          \* calls of hv_map()

Page == Words
Block == Pages * Words
Addr == 0 .. Blocks * Block - 1

\* ram_base is 32 MB aligned; a caller maps RAM and what is below it by
\* calls of their own; an entry of target 0 would be the empty entry.
ASSUME StageTwoAssumption ==
    /\ {Blocks, Pages, Words} \subseteq Nat \ {0}
    /\ RamBase \in Nat /\ RamBase % Block = 0 /\ Base \in Nat
    /\ Ranges \subseteq Addr \X Nat
    /\ \A r \in Ranges : /\ r[1] + r[2] <= Blocks * Block
                         /\ r[1] < RamBase => r[1] + r[2] <= RamBase
    /\ \A o \in HwOffsets : o \in Nat \ {0} /\ o % Page = 0
    /\ SwOffsets \subseteq Nat \ {0}

VARIABLES l2,          \* the tree
          live,        \* tables on the heap below the L2 table
          freed,       \* the entry to be stored points to freed tables
          call,        \* the hv_map() that runs
          old, wanted, \* what every word mapped to before the call, and shall
          calls
stageVars == <<l2, live, freed, call, old, wanted, calls>>

(***************************************************************************)
(* Entries.                                                                *)
(***************************************************************************)
Unmapped == [k |-> "none", t |-> 0]
Hw(t) == [k |-> "hw", t |-> t]
Sw(t) == [k |-> "sw", t |-> t]
\* A hook is a function of the hypervisor, or called on the host for reads,
\* for writes or for both.
ProxyKinds == {"proxyR", "proxyW", "proxyRW"}
HookKinds == {"hook"} \cup ProxyKinds
Hook(k, h) == [k |-> k, t |-> h]
Table(f) == [k |-> "table", e |-> f]
IsTable(e) == e.k = "table"

\* The entry of the word n words further on: hooks are called, not offset.
Plus(e, n) == IF e.k \in {"hw", "sw"} THEN [e EXCEPT !.t = @ + n] ELSE e

L2Index(a) == a \div Block
L3Index(a) == (a \div Page) % Pages
L4Index(a) == a % Words

AlignUp(a, n) == ((a + n - 1) \div n) * n
AlignDown(a, n) == (a \div n) * n
Min2(a, b) == IF a < b THEN a ELSE b

\* A walker replaces the low bits of a hardware block, and adds to others.
InBlock(d, a) ==
    IF d.k = "hw" THEN Hw(AlignDown(d.t, Block) + (a % Block)) ELSE Plus(d, a % Block)

\* hv_pt_walk(): the deepest entry, offset into its block or page.
Walk(a) ==
    LET d2 == l2[L2Index(a)]
        d3 == d2.e[L3Index(a)]
    IN IF ~IsTable(d2) THEN InBlock(d2, a)
       ELSE IF ~IsTable(d3) THEN Plus(d3, a % Page)
       ELSE d3.e[L4Index(a)]

NoCall == [pc |-> "idle", from |-> 0, to |-> Unmapped, size |-> 0, chunk |-> 0]

StageInit ==
    /\ l2 = [i \in 0 .. Blocks - 1 |-> Unmapped] /\ live = 0 /\ freed = FALSE
    /\ call = NoCall /\ calls = 0
    /\ old = [a \in Addr |-> Unmapped] /\ wanted = [a \in Addr |-> Unmapped]

(***************************************************************************)
(* hv_map(): words to the next page, pages to the next block, blocks,      *)
(* pages, words.                                                           *)
(***************************************************************************)
\* Below _base nothing is mapped as a block.
Boundary(from) ==
    LET b == AlignUp(from, Block)
    IN IF b >= RamBase /\ b < Base THEN AlignUp(Base, Block) ELSE b

NextPart(pc) ==
    CASE pc = "entry" -> "head4" [] pc = "head4" -> "head3"
      [] pc = "head3" -> "block" [] pc = "block" -> "tail3"
      [] pc = "tail3" -> "tail4"

\* How much of the request each part of hv_map() takes.
Chunk(pc, c) ==
    CASE pc = "head4" -> Min2(c.size, AlignUp(c.from, Page) - c.from)
      [] pc = "head3" -> AlignDown(Min2(c.size, Boundary(c.from) - c.from), Page)
      [] pc = "block" -> IF c.to.k = "hw" /\ c.to.t % Block # 0 THEN 0
                         ELSE AlignDown(c.size, Block)
      [] pc = "tail3" -> AlignDown(c.size, Page)
      [] pc = "tail4" -> c.size

\* The call begins; hardware cannot map less than a page.
HvMap(from, to, size) ==
    /\ call = NoCall /\ calls < MaxCalls
    /\ to.k = "hw" => from % Page = 0 /\ size % Page = 0
    /\ call' = [pc |-> "entry", from |-> from, to |-> to, size |-> size, chunk |-> 0]
    /\ calls' = calls + 1
    /\ old' = wanted
    /\ wanted' = [a \in Addr |-> IF a \in from .. from + size - 1
                                 THEN Plus(to, a - from) ELSE wanted[a]]
    /\ UNCHANGED <<l2, live, freed>>

HvUnmap(r) == HvMap(r[1], Unmapped, r[2])
HvMapHw(r, o) == HvMap(r[1], Hw(r[1] + o), r[2])
HvMapSw(r, o) == HvMap(r[1], Sw(r[1] + o), r[2])
HvMapHook(r, k, h) == HvMap(r[1], Hook(k, h), r[2])

\* The loop of one part is done.
Part ==
    /\ call.pc \notin {"idle", "tail4"} /\ call.chunk = 0
    /\ call' = [call EXCEPT !.pc = NextPart(@), !.chunk = Chunk(NextPart(call.pc), call)]
    /\ UNCHANGED <<l2, live, freed, old, wanted, calls>>

Return ==
    /\ call.pc = "tail4" /\ call.chunk = 0
    /\ call' = NoCall
    /\ UNCHANGED <<l2, live, freed, old, wanted, calls>>

At4 == call.pc \in {"head4", "tail4"} /\ call.chunk > 0
At3 == call.pc \in {"head3", "tail3"} /\ call.chunk > 0
At2 == call.pc = "block" /\ call.chunk > 0
I2 == L2Index(call.from)
I3 == L3Index(call.from)
D2 == l2[I2]
D3 == D2.e[I3]

\* Bug: the pages of a split block all map to its start.
Filled3Flat(d) == Table([i \in 0 .. Pages - 1 |-> d])
\* The new L3 table maps what the block mapped.
Filled3(d) == Table([i \in 0 .. Pages - 1 |-> Plus(d, i * Page)])
\* The new L4 table too, by software: hardware maps no part of a page.
Filled4(d) ==
    LET e == IF d.k = "hw" THEN Sw(d.t) ELSE d
    IN Table([i \in 0 .. Words - 1 |-> Plus(e, i)])

\* hv_pt_get_l3(): the table is filled, then published (dsb ish).
GetL3 ==
    /\ (At3 \/ At4) /\ ~IsTable(D2)
    /\ l2' = [l2 EXCEPT ![I2] = Filled3(D2)]
    /\ live' = live + 1
    /\ UNCHANGED <<freed, call, old, wanted, calls>>

\* hv_pt_get_l4()
GetL4 ==
    /\ At4 /\ IsTable(D2) /\ ~IsTable(D3)
    /\ l2' = [l2 EXCEPT ![I2].e[I3] = Filled4(D3)]
    /\ live' = live + 1
    /\ UNCHANGED <<freed, call, old, wanted, calls>>

\* The end of an iteration: from, to and size of what is left.
Advanced(n) ==
    [call EXCEPT !.from = @ + n, !.to = Plus(@, n), !.size = @ - n, !.chunk = @ - n]

\* hv_pt_map_l4()
MapL4 ==
    /\ At4 /\ IsTable(D2) /\ IsTable(D3)
    /\ l2' = [l2 EXCEPT ![I2].e[I3].e[L4Index(call.from)] = call.to]
    /\ call' = Advanced(1)
    /\ UNCHANGED <<live, freed, old, wanted, calls>>

L4Tables(d) == Cardinality({i \in DOMAIN d.e : IsTable(d.e[i])})

\* Bug: the L4 tables below the L3 table are lost.
FreeL3Only(d) == 1
\* hv_pt_free_l3(): the L3 table and the L4 tables below it.
FreeL3(d) == 1 + L4Tables(d)

\* hv_pt_map_l3() frees the L4 table of the page, then stores the entry.
FreePage ==
    /\ At3 /\ IsTable(D2) /\ IsTable(D3) /\ ~freed
    /\ live' = live - 1
    /\ freed' = TRUE
    /\ UNCHANGED <<l2, call, old, wanted, calls>>

MapL3 ==
    /\ At3 /\ IsTable(D2) /\ (IsTable(D3) => freed)
    /\ l2' = [l2 EXCEPT ![I2].e[I3] = call.to]
    /\ freed' = FALSE
    /\ call' = Advanced(Page)
    /\ UNCHANGED <<live, old, wanted, calls>>

\* hv_pt_map_l2() frees the tables of the block, then stores the entry.
FreeBlock ==
    /\ At2 /\ IsTable(D2) /\ ~freed
    /\ live' = live - FreeL3(D2)
    /\ freed' = TRUE
    /\ UNCHANGED <<l2, call, old, wanted, calls>>

MapL2 ==
    /\ At2 /\ (IsTable(D2) => freed)
    /\ l2' = [l2 EXCEPT ![I2] = call.to]
    /\ freed' = FALSE
    /\ call' = Advanced(Block)
    /\ UNCHANGED <<live, old, wanted, calls>>

StageNext ==
    \/ \E r \in Ranges : \/ HvUnmap(r)
                         \/ \E o \in HwOffsets : HvMapHw(r, o)
                         \/ \E o \in SwOffsets : HvMapSw(r, o)
                         \/ \E k \in HookKinds, h \in Hooks : HvMapHook(r, k, h)
    \/ Part \/ Return
    \/ GetL3 \/ GetL4 \/ MapL4 \/ FreePage \/ MapL3 \/ FreeBlock \/ MapL2

StageSpec == StageInit /\ [][StageNext]_stageVars

(***************************************************************************)
(* Properties.                                                             *)
(***************************************************************************)
\* A hardware page of which a part is remapped is served by software: same
\* target, another kind of entry.
Agrees(e, w) == e = w \/ (w.k = "hw" /\ e = Sw(w.t))
Left(a) == call.pc # "idle" /\ a \in call.from .. call.from + call.size - 1

\* The tables below entry i of the L2 table are freed; the one below entry j
\* of its L3 table is.
FreedBlock(i) == freed /\ At2 /\ i = I2
FreedPage(i, j) == freed /\ At3 /\ i = I2 /\ j = I3
\* A walk for the word a goes through a freed table.
Dangling(a) == FreedBlock(L2Index(a)) \/ FreedPage(L2Index(a), L3Index(a))

\* After every store of hv_map() every word maps to what the newest request
\* that covers it asked for, and the words the running call has not come to
\* map to what they did: splitting a block or a page shows no walker a third
\* translation.  Only between the free() of tables and the store that unlinks
\* them can a walker meet something else, and then only for words that the
\* running call is about to map anew.
MapExact ==
    \A a \in Addr : IF Dangling(a) THEN Left(a)
                    ELSE Agrees(Walk(a), IF Left(a) THEN old[a] ELSE wanted[a])

\* hv_pt_map_l2(), hv_pt_map_l3() and hv_pt_free_l3() free exactly the tables
\* that the next store makes unreachable: at every step of any history of
\* calls the heap holds the tables of the tree that are not freed, no others.
TablesAccounted ==
    live = Cardinality({i \in DOMAIN l2 : IsTable(l2[i]) /\ ~FreedBlock(i)})
           + Cardinality({p \in (DOMAIN l2) \X (0 .. Pages - 1) :
                            /\ IsTable(l2[p[1]]) /\ IsTable(l2[p[1]].e[p[2]])
                            /\ ~FreedBlock(p[1]) /\ ~FreedPage(p[1], p[2])})
=============================================================================
