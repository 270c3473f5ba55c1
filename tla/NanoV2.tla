------------------------------- MODULE NanoV2 -------------------------------
(***************************************************************************)
(* The Nano V2 zone of libmalloc (nanov2_malloc.c), for one size class:    *)
(* the allocator that hands out the runtime's small objects.  The metadata *)
(* of a block is one word, changed by compare and swap; the free slots of  *)
(* a block are linked through their own memory.  A locked search replaces  *)
(* the block that a CPU allocates from, and empty blocks are given back to *)
(* the kernel with madvise.                                                *)
(*                                                                         *)
(* A load followed by a compare and swap whose new word depends on nothing *)
(* but the old one is one step, the one of the swap that succeeds.  The    *)
(* loop of nanov2_allocate_from_block is not of that kind: it reads the    *)
(* slot between the two, and a swap that fails may repeat a madvise.       *)
(*                                                                         *)
(* The generation in the word is what keeps a pop from going through with  *)
(* a link that is no longer the slot's: it is 10 bits wide and starts over *)
(* when an empty block is taken into use.  The model has the width as a    *)
(* constant and follows, in gens and damaged, when the count fails.        *)
(***************************************************************************)
EXTENDS Integers, FiniteSets, FiniteSetsExt

CONSTANTS
  Callers,         \* the threads
  NoCaller,
  CPUs,            \* allocation indexes: those of current_block
  Slots,           \* slots_by_size_class of the class
  FreeCounts,      \* the values of free_count: 1024
  GenCounts,       \* the values of gen_count: 1024
  Drained,         \* 0.75 * slot_count
  BlocksPerArena,  \* the blocks of the class in an arena
  MaxArenas,       \* the arenas of the only region
  Policies,        \* the values of nanov2_madvise_policy: is it immediate?
  Reclaims,        \* does the kernel take pages back after madvise?
  MaxCalls         \* bound: calls of malloc and of pressure_relief

ASSUME CallersAssumption == NoCaller \notin Callers
ASSUME NanoSizes ==
  /\ FreeCounts \in 2 .. 1024 /\ Slots \in 2 .. FreeCounts
  /\ GenCounts \in Nat \ {0} /\ Drained \in 0 .. Slots
  /\ BlocksPerArena \in Nat \ {0} /\ MaxArenas \in Nat \ {0}

VARIABLES
  meta,        \* the nanov2_block_meta_t of each block
  mem,         \* the nanov2_free_slot_t that overlays each slot
  current,     \* current_block
  currentLock, \* current_block_lock: who holds it
  madviseLock, \* madvise_lock: who holds it
  delegate,    \* the bit of the class in delegate_allocations
  nextArena,   \* current_region_next_arena
  immediate,   \* is nanov2_madvise_policy NANO_MADVISE_IMMEDIATE?
  held,        \* how many owners the program sees for each slot
  lost,        \* the slots whose contents were discarded while owned
  th,          \* the call of each thread
  calls,       \* the calls so far
  gens,        \* the generations counted since a thread loaded the word
  damaged      \* has a stale link or a late madvise got into a block?

nanoVars == <<meta, mem, current, currentLock, madviseLock, delegate, nextArena,
              immediate, held, lost, th, calls, gens, damaged>>

Arenas == 1 .. MaxArenas
Blocks == 1 .. MaxArenas * BlocksPerArena
AllSlots == Blocks \X (1 .. Slots)
NoBlock == 0
NoSlot == <<0, 0>>
ArenaOf(b) == ((b - 1) \div BlocksPerArena) + 1
BlocksOf(a) == {b \in Blocks : ArenaOf(b) = a}

SLOT_NULL == 0
SLOT_BUMP == 2043
SLOT_FULL == 2044
SLOT_CAN_MADVISE == 2045
SLOT_MADVISING == 2046
SLOT_MADVISED == 2047

\* Mutant: the word is written without its generation.
WordUncounted(in_use, free_count, next_slot, gen_count) ==
  [in_use |-> in_use, free_count |-> free_count % FreeCounts,
   next_slot |-> next_slot, gen_count |-> 0]

\* nanov2_block_meta_t: free_count and gen_count wrap.
Word(in_use, free_count, next_slot, gen_count) ==
  [in_use |-> in_use, free_count |-> free_count % FreeCounts,
   next_slot |-> next_slot, gen_count |-> gen_count % GenCounts]

\* What a slot contains while the program owns it: no guard, and any link.
Data == [guard |-> FALSE, next |-> -1]

\* A call: where it is (at), in which part of nanov2_allocate (part), and its
\* local variables.
Idle == [at |-> "idle", part |-> "fast", cpu |-> 0, block |-> NoBlock,
         old |-> Word(FALSE, 0, SLOT_NULL, 0), next |-> 0, orig |-> NoBlock,
         found |-> {}, todo |-> {}, arena |-> 0, start |-> 0, limit |-> 0,
         initial |-> 0, slot |-> NoSlot, drained |-> FALSE]

\* nanov2_create_zone
NanoInit ==
  /\ meta = [b \in Blocks |-> Word(FALSE, 0, SLOT_NULL, 0)]
  /\ mem = [s \in AllSlots |-> Data]
  /\ current = [c \in CPUs |-> NoBlock]
  /\ currentLock = [c \in CPUs |-> NoCaller]
  /\ madviseLock = NoCaller
  /\ delegate = FALSE
  /\ nextArena = 2
  /\ immediate \in Policies
  /\ held = [s \in AllSlots |-> 0]
  /\ lost = {}
  /\ th = [t \in Callers |-> Idle]
  /\ calls = 0
  /\ gens = [t \in Callers |-> 0]
  /\ damaged = FALSE

Doing(t, at) == th[t].at = at
Set(t, r) == th' = [th EXCEPT ![t] = r]
\* Ghost: the word of b changes by a step of t and its generation is counted,
\* or starts over (anew).  A thread that is between its load and its swap can no
\* longer tell once the count went round or started over: GenCounts.
HasLoaded(t, b) == th[t].at \in {"read", "swap"} /\ th[t].block = b
Counts(t, b, anew) ==
  gens' = [u \in Callers |->
             IF u = t THEN 0
             ELSE IF ~HasLoaded(u, b) THEN gens[u]
             ELSE IF anew \/ gens[u] = GenCounts THEN GenCounts ELSE gens[u] + 1]
Forgets(t) == gens' = [gens EXCEPT ![t] = 0]

Owners(s) == held[s] + Cardinality({t \in Callers : th[t].slot = s})

-----------------------------------------------------------------------------
(* nanov2_allocate_from_block *)

CanAllocate(m) == m.in_use /\ m.next_slot # SLOT_FULL

\* Does nanov2_allocate_from_block take a slot from the free list?
FromList(m) == m.next_slot \notin {SLOT_BUMP, SLOT_CAN_MADVISE}

\* The slot that is taken, 1-based
TakenSlot(m) == IF FromList(m) THEN m.next_slot ELSE Slots - m.free_count

\* The word after a slot was taken; next is what follows it.
Taken(m, next) ==
  Word(TRUE, m.free_count - 1,
       IF m.free_count = 0 THEN SLOT_FULL ELSE next, m.gen_count + 1)

\* Is slotp->next_slot read?  Not for the last free slot.
ReadsLink(m) == FromList(m) /\ m.free_count # 0

\* NULL is returned to the caller of nanov2_allocate_from_block.
ReturnsNull(t) ==
  LET c == [th[t] EXCEPT !.old = Idle.old, !.next = 0]
      start == IF c.orig = NoBlock THEN 1 ELSE ArenaOf(c.orig)
  IN Set(t, CASE c.part = "fast"   -> [Idle EXCEPT !.at = "missed", !.cpu = c.cpu]
              [] c.part = "locked" -> [c EXCEPT !.at = "enter", !.arena = start]
              [] c.part = "found"  -> [c EXCEPT !.at = "drop"])

\* The label again, with the word m that was loaded or made the swap fail
Again(t, m) ==
  IF CanAllocate(m)
  THEN Set(t, [th[t] EXCEPT !.at = IF ReadsLink(m) THEN "read" ELSE "swap",
                            !.old = m, !.next = SLOT_BUMP])
  ELSE ReturnsNull(t)

\* The swap succeeded: the slot belongs to the caller.
Takes(t, next) ==
  LET c == th[t]
      b == c.block
      s == <<b, TakenSlot(meta[b])>>
  IN /\ meta' = [meta EXCEPT ![b] = Taken(@, next)]
     /\ IF FromList(meta[b]) /\ ~mem[s].guard
        THEN Set(t, [Idle EXCEPT !.at = "corrupt"]) /\ UNCHANGED <<mem, held, currentLock>>
        ELSE /\ mem' = [mem EXCEPT ![s] = Data]
             /\ IF c.part = "found"
                THEN Set(t, [c EXCEPT !.at = "publish", !.slot = s,
                                      !.old = Idle.old, !.next = 0])
                     /\ UNCHANGED <<held, currentLock>>
                ELSE /\ Set(t, Idle)
                     /\ held' = [held EXCEPT ![s] = @ + 1]
                     /\ IF c.part = "locked"
                        THEN currentLock' = [currentLock EXCEPT ![c.cpu] = NoCaller]
                        ELSE UNCHANGED currentLock

TryLoads(t) ==
  /\ Doing(t, "try")
  /\ Again(t, meta[th[t].block])
  /\ UNCHANGED <<meta, mem, current, currentLock, madviseLock, delegate, nextArena,
                 immediate, held, lost, calls, gens, damaged>>

\* slotp->next_slot, of a slot that may be anybody's by now
ReadsNext(t) ==
  LET c == th[t]
  IN /\ Doing(t, "read")
     /\ Set(t, [c EXCEPT !.at = "swap",
                         !.next = mem[<<c.block, c.old.next_slot>>].next])
     /\ UNCHANGED <<meta, mem, current, currentLock, madviseLock, delegate, nextArena,
                    immediate, held, lost, calls, gens, damaged>>

\* Ghost: what t has read is not the link of the slot it is about to take.
StaleLink(t) ==
  LET c == th[t]
  IN ReadsLink(c.old) /\ c.next # mem[<<c.block, c.old.next_slot>>].next

SwapTakes(t) ==
  LET c == th[t]
  IN /\ Doing(t, "swap") /\ meta[c.block] = c.old
     /\ Takes(t, c.next)
     /\ Counts(t, c.block, FALSE)
     /\ damaged' = (damaged \/ StaleLink(t))
     /\ UNCHANGED <<current, madviseLock, delegate, nextArena, immediate, lost, calls>>

SwapFails(t) ==
  LET c == th[t]
      m == meta[c.block]
      raced == m.next_slot \in {SLOT_CAN_MADVISE, SLOT_MADVISING, SLOT_MADVISED}
  IN /\ Doing(t, "swap") /\ m # c.old
     /\ IF raced THEN Set(t, [c EXCEPT !.at = "raced", !.old = m, !.next = 0])
        ELSE Again(t, m)
     /\ Forgets(t)
     /\ UNCHANGED <<meta, mem, current, currentLock, madviseLock, delegate, nextArena,
                    immediate, held, lost, calls, damaged>>

\* A block that was taken into use and has not drained since
Opened(m) == m.next_slot \in (1 .. Slots) \cup {SLOT_BUMP, SLOT_FULL}

\* mvm_madvise_free, of a whole block
MadviseFree(b) ==
  LET here == {s \in AllSlots : s[1] = b}
  IN IF Reclaims
     THEN /\ mem' = [s \in AllSlots |->
                       IF s \in here THEN [guard |-> FALSE, next |-> 0] ELSE mem[s]]
          /\ lost' = lost \cup {s \in here : Owners(s) > 0}
     ELSE UNCHANGED <<mem, lost>>

\* The word that made the swap fail is not loaded again under the lock; it is
\* not in use, so that the next round returns NULL.
Remadvises(t) ==
  LET c == th[t]
  IN /\ Doing(t, "raced") /\ madviseLock = NoCaller
     /\ IF c.old.next_slot = SLOT_MADVISED
        THEN /\ MadviseFree(c.block)
             /\ damaged' = (damaged \/ (Reclaims /\ Opened(meta[c.block])))
        ELSE UNCHANGED <<mem, lost, damaged>>
     /\ ReturnsNull(t)
     /\ UNCHANGED <<meta, current, currentLock, madviseLock, delegate, nextArena,
                    immediate, held, calls, gens>>

-----------------------------------------------------------------------------
(* nanov2_allocate and nanov2_find_block_and_allocate *)

\* nanov2_allocate loads the current block of the CPU that the thread is on.
NanoMalloc(t, cpu) ==
  LET b == current[cpu]
  IN /\ Doing(t, "idle") /\ calls < MaxCalls
     /\ Set(t, [Idle EXCEPT !.at = IF b = NoBlock THEN "missed" ELSE "try",
                            !.cpu = cpu, !.block = b])
     /\ calls' = calls + 1
     /\ UNCHANGED <<meta, mem, current, currentLock, madviseLock, delegate, nextArena,
                    immediate, held, lost, gens, damaged>>

\* The helper zone allocates.
Delegates(t) ==
  /\ Doing(t, "missed") /\ delegate
  /\ Set(t, Idle)
  /\ UNCHANGED <<meta, mem, current, currentLock, madviseLock, delegate, nextArena,
                 immediate, held, lost, calls, gens, damaged>>

Locks(t) ==
  LET c == th[t]
      b == current[c.cpu]
  IN /\ Doing(t, "locking") /\ currentLock[c.cpu] = NoCaller
     /\ currentLock' = [currentLock EXCEPT ![c.cpu] = t]
     /\ Set(t, [c EXCEPT !.part = "locked", !.block = b, !.orig = b, !.arena = 1,
                         !.at = IF b = NoBlock THEN "enter" ELSE "try"])
     /\ UNCHANGED <<meta, mem, current, madviseLock, delegate, nextArena,
                    immediate, held, lost, calls, gens, damaged>>

DoesNotDelegate(t) ==
  /\ Doing(t, "missed") /\ ~delegate
  /\ Set(t, [th[t] EXCEPT !.at = "locking"])
  /\ UNCHANGED <<meta, mem, current, currentLock, madviseLock, delegate, nextArena,
                 immediate, held, lost, calls, gens, damaged>>

\* The label retry of nanov2_find_block_and_allocate
Enters(t) ==
  LET c == th[t]
  IN /\ Doing(t, "enter")
     /\ Set(t, [c EXCEPT !.at = "scan", !.part = "found", !.block = NoBlock,
                         !.start = c.arena, !.limit = nextArena,
                         !.initial = nextArena, !.todo = BlocksOf(c.arena)])
     /\ UNCHANGED <<meta, mem, current, currentLock, madviseLock, delegate, nextArena,
                    immediate, held, lost, calls, gens, damaged>>

Eligible(m) == ~m.in_use /\ m.next_slot \notin {SLOT_FULL, SLOT_MADVISING}

\* What nanov2_find_block_in_arena would return: the blocks that can be
\* madvised only if there is no other.  Which of the others it prefers
\* (block_scan_policy) is left open.
Better(found, b) ==
  IF meta[b].next_slot = SLOT_CAN_MADVISE /\ found # {} THEN {found}
  ELSE IF \E f \in found : meta[f].next_slot # SLOT_CAN_MADVISE THEN {found, {b}}
  ELSE {{b}}

\* One round of the loop over the blocks of an arena
Scans(t) ==
  LET c == th[t]
  IN /\ Doing(t, "scan")
     /\ \E b \in c.todo :
          \E f \in IF Eligible(meta[b]) THEN Better(c.found, b) ELSE {c.found} :
            Set(t, [c EXCEPT !.todo = @ \ {b}, !.found = f])
     /\ UNCHANGED <<meta, mem, current, currentLock, madviseLock, delegate, nextArena,
                    immediate, held, lost, calls, gens, damaged>>

\* A block that starts over
Fresh(m) == m.next_slot \in {SLOT_NULL, SLOT_CAN_MADVISE, SLOT_MADVISED}

Activated(m) ==
  IF Fresh(m) THEN Word(TRUE, Slots - 1, SLOT_BUMP, 0)
  ELSE Word(TRUE, m.free_count, m.next_slot, m.gen_count + 1)

\* The block that was found is taken into use, whoever uses it by now.
Activates(t) ==
  LET c == th[t]
  IN /\ Doing(t, "scan") /\ c.todo = {}
     /\ \E b \in c.found :
          /\ meta[b].next_slot # SLOT_MADVISING
          /\ Set(t, [c EXCEPT !.at = "try", !.block = b, !.found = {}])
          /\ meta' = [meta EXCEPT ![b] = Activated(@)]
          /\ Counts(t, b, Fresh(meta[b]))
     /\ UNCHANGED <<mem, current, currentLock, madviseLock, delegate, nextArena,
                    immediate, held, lost, calls, damaged>>

\* The block is being madvised, or its word changed before the swap: the
\* search starts over.
SearchesAgain(t) ==
  LET c == th[t]
  IN /\ Doing(t, "scan") /\ c.todo = {} /\ c.found # {}
     /\ Set(t, [c EXCEPT !.todo = BlocksOf(c.arena), !.found = {}])
     /\ UNCHANGED <<meta, mem, current, currentLock, madviseLock, delegate, nextArena,
                    immediate, held, lost, calls, gens, damaged>>

\* The next arena; after the last of the region, the first
NextArena(t) ==
  LET c == th[t]
      wraps == c.arena + 1 >= c.limit
      a == IF wraps THEN 1 ELSE c.arena + 1
  IN /\ Doing(t, "scan") /\ c.todo = {} /\ c.found = {}
     /\ Set(t, [c EXCEPT !.at = IF a = c.start THEN "grow" ELSE "scan",
                         !.arena = a, !.limit = IF wraps THEN nextArena ELSE @,
                         !.todo = IF a = c.start THEN {} ELSE BlocksOf(a)])
     /\ UNCHANGED <<meta, mem, current, currentLock, madviseLock, delegate, nextArena,
                    immediate, held, lost, calls, gens, damaged>>

\* A new arena, under regions_lock, unless somebody else added one
Grows(t) ==
  LET c == th[t]
  IN /\ Doing(t, "grow")
     /\ nextArena # c.initial \/ nextArena <= MaxArenas
     /\ nextArena' = IF nextArena = c.initial THEN nextArena + 1 ELSE nextArena
     /\ Set(t, [c EXCEPT !.at = "enter", !.arena = c.initial])
     /\ UNCHANGED <<meta, mem, current, currentLock, madviseLock, delegate, immediate,
                    held, lost, calls, gens, damaged>>

\* No region either: nanov2_allocate releases the lock.
Fails(t) ==
  LET c == th[t]
  IN /\ Doing(t, "grow") /\ nextArena = c.initial /\ nextArena > MaxArenas
     /\ currentLock' = [currentLock EXCEPT ![c.cpu] = NoCaller]
     /\ Set(t, [Idle EXCEPT !.at = "full"])
     /\ UNCHANGED <<meta, mem, current, madviseLock, delegate, nextArena,
                    immediate, held, lost, calls, gens, damaged>>

StartsToDelegate(t) ==
  /\ Doing(t, "full")
  /\ delegate' = TRUE
  /\ Set(t, Idle)
  /\ UNCHANGED <<meta, mem, current, currentLock, madviseLock, nextArena, immediate,
                 held, lost, calls, gens, damaged>>

\* nanov2_turn_off_in_use: no generation is counted.
OutOfUse(b) == meta' = [meta EXCEPT ![b].in_use = FALSE]

\* The block that was activated had become full.
Drops(t) ==
  LET c == th[t]
  IN /\ Doing(t, "drop")
     /\ OutOfUse(c.block)
     /\ Set(t, [c EXCEPT !.at = "enter", !.block = NoBlock])
     /\ UNCHANGED <<mem, current, currentLock, madviseLock, delegate, nextArena,
                    immediate, held, lost, calls, gens, damaged>>

Publishes(t) ==
  LET c == th[t]
  IN /\ Doing(t, "publish")
     /\ current' = [current EXCEPT ![c.cpu] = c.block]
     /\ Set(t, [c EXCEPT !.at = "leave"])
     /\ UNCHANGED <<meta, mem, currentLock, madviseLock, delegate, nextArena,
                    immediate, held, lost, calls, gens, damaged>>

Leaves(t) ==
  LET c == th[t]
  IN /\ Doing(t, "leave")
     /\ IF c.orig = NoBlock THEN UNCHANGED meta ELSE OutOfUse(c.orig)
     /\ currentLock' = [currentLock EXCEPT ![c.cpu] = NoCaller]
     /\ held' = [held EXCEPT ![c.slot] = @ + 1]
     /\ Set(t, Idle)
     /\ UNCHANGED <<mem, current, madviseLock, delegate, nextArena, immediate,
                    lost, calls, gens, damaged>>

-----------------------------------------------------------------------------
(* nanov2_free *)

\* nanov2_is_block_active
Active(m) == m.next_slot \notin {SLOT_NULL, SLOT_MADVISING, SLOT_MADVISED}

\* Does nanov2_pointer_size find an allocation?
Recognises(s) ==
  LET m == meta[s[1]]
  IN /\ Active(m)
     /\ m.next_slot = SLOT_FULL \/ m.free_count # Slots - 1
     /\ ~mem[s].guard

\* The program frees a slot, on any thread; what nanov2_pointer_size does not
\* recognise goes to the helper zone, which did not allocate it.
Free(t, s) ==
  /\ Doing(t, "idle") /\ held[s] > 0
  /\ held' = [held EXCEPT ![s] = @ - 1]
  /\ Set(t, IF Recognises(s) THEN [Idle EXCEPT !.at = "free", !.slot = s]
            ELSE [Idle EXCEPT !.at = "foreign"])
  /\ UNCHANGED <<meta, mem, current, currentLock, madviseLock, delegate, nextArena,
                 immediate, lost, calls, gens, damaged>>

\* Mutant: the last slot but one counts as the last.
FreedEarly(m, slot) ==
  LET last == m.next_slot # SLOT_FULL /\ m.free_count + 2 >= Slots - 1
      next == IF ~last THEN slot
              ELSE IF m.in_use THEN SLOT_BUMP ELSE SLOT_CAN_MADVISE
  IN Word(m.in_use, m.free_count + 1, next, m.gen_count + 1)

\* The word after a slot was freed
Freed(m, slot) ==
  LET last == m.next_slot # SLOT_FULL /\ m.free_count + 1 = Slots - 1
      next == IF ~last THEN slot
              ELSE IF m.in_use THEN SLOT_BUMP ELSE SLOT_CAN_MADVISE
  IN Word(m.in_use, m.free_count + 1, next, m.gen_count + 1)

\* Mutant: the mark of a full block is linked as if it were a slot.
ListedBehindFull(m) == [guard |-> TRUE, next |-> m.next_slot]

\* The slot as the new head of the free list
Listed(m) == [guard |-> TRUE,
              next |-> IF m.next_slot = SLOT_FULL THEN SLOT_BUMP ELSE m.next_slot]

\* nanov2_free_to_block.  The stores to the slot precede the swap; nobody else
\* owns the slot before it.
FreesToBlock(t) ==
  LET s == th[t].slot
      m == meta[s[1]]
      new == Freed(m, s[2])
      drained == ~new.in_use /\ new.free_count >= Drained
      madvises == new.next_slot = SLOT_CAN_MADVISE /\ immediate
  IN /\ Doing(t, "free")
     /\ meta' = [meta EXCEPT ![s[1]] = new]
     /\ Counts(t, s[1], FALSE)
     /\ mem' = IF new.next_slot = s[2] THEN [mem EXCEPT ![s] = Listed(m)] ELSE mem
     /\ Set(t, IF madvises
               THEN [Idle EXCEPT !.at = "madvise", !.todo = {s[1]}, !.drained = drained]
               ELSE [Idle EXCEPT !.at = IF drained THEN "drained" ELSE "idle"])
     /\ UNCHANGED <<current, currentLock, madviseLock, delegate, nextArena, immediate,
                    held, lost, calls, damaged>>

StopsToDelegate(t) ==
  /\ Doing(t, "drained")
  /\ delegate' = FALSE
  /\ Set(t, Idle)
  /\ UNCHANGED <<meta, mem, current, currentLock, madviseLock, nextArena, immediate,
                 held, lost, calls, gens, damaged>>

-----------------------------------------------------------------------------
(* nanov2_madvise_block and nanov2_pressure_relief *)

\* Memory pressure: every arena is swept, under madvise_lock.
Relieves(t) ==
  /\ Doing(t, "idle") /\ calls < MaxCalls /\ ~immediate
  /\ calls' = calls + 1
  /\ Set(t, [Idle EXCEPT !.at = "madvise", !.arena = 1, !.todo = BlocksOf(1)])
  /\ UNCHANGED <<meta, mem, current, currentLock, madviseLock, delegate, nextArena,
                 immediate, held, lost, gens, damaged>>

MadviseLocks(t) ==
  /\ Doing(t, "madvise") /\ madviseLock = NoCaller
  /\ madviseLock' = t
  /\ Set(t, [th[t] EXCEPT !.at = "sweep"])
  /\ UNCHANGED <<meta, mem, current, currentLock, delegate, nextArena, immediate,
                 held, lost, calls, gens, damaged>>

\* nanov2_madvise_block up to the system call
MadviseStarts(t) ==
  LET c == th[t]
  IN /\ Doing(t, "sweep") /\ c.todo # {}
     /\ LET b == Min(c.todo)
        IN IF meta[b].next_slot = SLOT_CAN_MADVISE
           THEN /\ meta' = [meta EXCEPT ![b] =
                              Word(FALSE, 0, SLOT_MADVISING, @.gen_count + 1)]
                /\ Set(t, [c EXCEPT !.at = "madvising", !.todo = @ \ {b}, !.block = b])
                /\ Counts(t, b, FALSE)
           ELSE /\ Set(t, [c EXCEPT !.todo = @ \ {b}])
                /\ UNCHANGED <<meta, gens>>
     /\ UNCHANGED <<mem, current, currentLock, madviseLock, delegate, nextArena,
                    immediate, held, lost, calls, damaged>>

\* The system call, and the swap that nobody should disturb
Madvises(t) ==
  LET c == th[t]
  IN /\ Doing(t, "madvising")
     /\ MadviseFree(c.block)
     /\ meta' = [meta EXCEPT ![c.block] =
                   Word(FALSE, 0, SLOT_MADVISED, @.gen_count + 1)]
     /\ Counts(t, c.block, FALSE)
     /\ Set(t, [c EXCEPT !.at = "sweep", !.block = NoBlock])
     /\ UNCHANGED <<current, currentLock, madviseLock, delegate, nextArena, immediate,
                    held, calls, damaged>>

MadviseUnlocks(t) ==
  LET c == th[t]
      a == c.arena + 1
  IN /\ Doing(t, "sweep") /\ c.todo = {}
     /\ madviseLock' = NoCaller
     /\ Set(t, IF c.arena > 0 /\ a < nextArena
               THEN [c EXCEPT !.at = "madvise", !.arena = a, !.todo = BlocksOf(a)]
               ELSE [Idle EXCEPT !.at = IF c.drained THEN "drained" ELSE "idle"])
     /\ UNCHANGED <<meta, mem, current, currentLock, delegate, nextArena, immediate,
                    held, lost, calls, gens, damaged>>

-----------------------------------------------------------------------------

AllocateFromBlock(t) ==
  \/ TryLoads(t) \/ ReadsNext(t) \/ SwapTakes(t) \/ SwapFails(t) \/ Remadvises(t)

Allocate(t) ==
  \/ Delegates(t) \/ DoesNotDelegate(t) \/ Locks(t) \/ Enters(t) \/ Scans(t)
  \/ Activates(t) \/ SearchesAgain(t) \/ NextArena(t) \/ Grows(t) \/ Fails(t)
  \/ StartsToDelegate(t) \/ Drops(t) \/ Publishes(t) \/ Leaves(t)

FreeToBlock(t) == FreesToBlock(t) \/ StopsToDelegate(t)

MadviseBlock(t) ==
  \/ MadviseLocks(t) \/ MadviseStarts(t) \/ Madvises(t) \/ MadviseUnlocks(t)

Step(t) ==
  AllocateFromBlock(t) \/ Allocate(t) \/ FreeToBlock(t) \/ MadviseBlock(t)

Call(t) ==
  \/ \E c \in CPUs : NanoMalloc(t, c)
  \/ \E s \in AllSlots : Free(t, s)
  \/ Relieves(t)

NanoNext == \E t \in Callers : Call(t) \/ Step(t)

NanoSpec == NanoInit /\ [][NanoNext]_nanoVars

-----------------------------------------------------------------------------
(* Properties *)

\* The slots of a free list, or those of a damaged one with 0 in place of what
\* is not a slot.  f[n] follows n links.
ListedSlots(b) ==
  LET m == meta[b]
      after[n \in 0 .. Slots] ==
        IF n = 0 THEN IF FromList(m) THEN m.next_slot ELSE SLOT_BUMP
        ELSE IF after[n - 1] \in 1 .. Slots THEN mem[<<b, after[n - 1]>>].next
        ELSE after[n - 1]
  IN {IF after[n] \in 1 .. Slots THEN after[n] ELSE 0 : n \in
        {n \in 0 .. Slots : after[n] # SLOT_BUMP}}

\* In a block that has been activated, the slots that nobody owns are exactly
\* those that the next allocations will get: the free list and the slots
\* behind it that were never used, as many as free_count says.
FreeSlotsExact ==
  \A b \in Blocks : Opened(meta[b]) =>
    LET m == meta[b]
        free == IF m.next_slot = SLOT_FULL THEN 0 ELSE m.free_count + 1
        unowned == {i \in 1 .. Slots : Owners(<<b, i>>) = 0}
        listed == ListedSlots(b)
        bumped == (Slots - (free - Cardinality(listed)) + 1) .. Slots
    IN IF m.next_slot = SLOT_FULL THEN unowned = {}
       ELSE Cardinality(listed) <= free /\ listed \cup bumped = unowned

\* malloc never returns memory that somebody owns, and the canary of a free
\* slot is intact (nanov2_malloc.c:2209-2221); free recognises what malloc
\* returned (nanov2_pointer_size), whatever the other threads do to the block.
Exclusive ==
  /\ \A s \in AllSlots : Owners(s) <= 1
  /\ \A t \in Callers : ~Doing(t, "corrupt") /\ ~Doing(t, "foreign")

\* Every slot of a block has one owner or waits to be allocated, until a pop
\* goes through with a stale link or a madvise comes too late: no other order
\* of allocations, frees, activations and drops of several threads loses an
\* update of the word, lists a slot twice or hands it out twice
\* (nanov2_allocate_from_block, nanov2_free_to_block).
SlotsExact == damaged \/ (FreeSlotsExact /\ Exclusive)

\* What the A-B-A count of the word (nanov2_zone.h:150) is worth: the first pop
\* that goes through with a stale link does so because, since it loaded the
\* word, gen_count went all the way round or started over when the block was
\* taken into use again (nanov2_malloc.c:2414).  Any shorter absence of the
\* thread, whatever the others did to the block, makes the swap fail.
StalePopsFail ==
  \A t \in Callers :
    ~damaged /\ Doing(t, "swap") /\ meta[th[t].block] = th[t].old /\ StaleLink(t)
      => gens[t] = GenCounts

\* A block that was given or is about to be given back to the kernel has no
\* owner, and while the system call runs only the thread that holds the lock
\* will change its word (nanov2_madvise_block); the exception is that of
\* SlotsExact.
MadvisedIsEmpty ==
  damaged \/ \A b \in Blocks :
    /\ meta[b].next_slot \in {SLOT_CAN_MADVISE, SLOT_MADVISING, SLOT_MADVISED} =>
         /\ ~meta[b].in_use
         /\ \A i \in 1 .. Slots : Owners(<<b, i>>) = 0
    /\ meta[b].next_slot = SLOT_MADVISING <=>
         /\ madviseLock # NoCaller
         /\ Doing(madviseLock, "madvising") /\ th[madviseLock].block = b

\* madvise never discards the contents of a slot that somebody owns: "another
\* thread madvising this block" is what the second madvise of
\* nanov2_allocate_from_block answers, but it looks at the word of before it
\* had the lock.
KeepsContents == lost = {}
=============================================================================
