-------------------------- MODULE AutoreleasePoolPage --------------------------
(***************************************************************************)
(* The autorelease pools of one thread (class AutoreleasePoolPage,         *)
(* NSObject.mm): a list of pages that hold objects and pool boundaries,    *)
(* with the coalescing of autoreleases of one object, the placeholder for  *)
(* a pool that was never used, and the spare page that a pop leaves.       *)
(*                                                                         *)
(* A pop releases objects one by one, and a release may call -dealloc,     *)
(* which may push, autorelease and pop again: a stack of the pops in       *)
(* progress, and a step for each release and each return from one.  The    *)
(* OBJC_DEBUG options of pools are off, as they are by default.            *)
(***************************************************************************)
EXTENDS Integers, Sequences, FiniteSets

CONSTANTS
  Objects,
  Boundary,    \* POOL_BOUNDARY
  PageSize,    \* the entries of a page
  MaxCount,    \* AutoreleasePoolEntry::maxCount
  Window,      \* how many entries add() looks back for the object
  MaxCalls     \* bound: the pushes and autoreleases of a run

ASSUME BoundaryAssumption == Boundary \notin Objects
ASSUME PageSizeAssumption == PageSize \in Nat /\ PageSize >= 2
ASSUME WidthAssumption == MaxCount \in Nat /\ Window \in Nat /\ MaxCalls \in Nat

VARIABLES
  pages,    \* the entries of each page, the coldest page first; a page's
            \* parent is the one before it and its child the one after it
  hot,      \* the TLS slot: the place of the hot page, or one of the next two
  tokens,   \* the tokens of the pools that the program has yet to pop
  frames,   \* the pops in progress, the innermost last
  calls     \* the calls made

vars == <<pages, hot, tokens, frames, calls>>

NoPage == 0
EmptyPoolPlaceholder == -1

Entry(o) == [obj |-> o, count |-> 0]
Position(p, s) == [page |-> p, slot |-> s]
PlaceholderToken == Position(0, 0)
Begin == Position(1, 1)

(***************************************************************************)
(* A pop in progress: where releaseUntil stops, the object taken last, how *)
(* many releases it is still owed and where its entry was; whether         *)
(* objc_release has yet to return; the tokens that are older than the pop; *)
(* and whether it is the one of a thread that ends.                        *)
(***************************************************************************)
Frame(stop, base, exit) ==
  [stop |-> stop, obj |-> Boundary, left |-> 0, entry |-> stop,
   running |-> FALSE, base |-> base, exit |-> exit]

Top == frames[Len(frames)]
SetTop(f) == frames' = [frames EXCEPT ![Len(frames)] = f]
Drop(s) == SubSeq(s, 1, Len(s) - 1)

\* The program runs: outside any pop, or in a -dealloc that a pop has caused.
ProgramRuns == frames # <<>> => Top.running
Base == IF frames = <<>> THEN 0 ELSE Top.base

Empty(p) == pages[p] = <<>>
Full(p) == Len(pages[p]) = PageSize
LessThanHalfFull(p) == Len(pages[p]) < PageSize \div 2

(***************************************************************************)
(* add()                                                                   *)
(***************************************************************************)

\* Mutant: looks behind a boundary.
CandidatesAnywhere(page, o) ==
  {i \in 2..Len(page) :
     Len(page) - i < Window /\ page[i].obj = o /\ page[i].count < MaxCount}

\* Mutant: the limit is off by one.
CandidatesPastLimit(page, o) ==
  {i \in 2..Len(page) :
     /\ Len(page) - i < Window
     /\ page[i].obj = o /\ page[i].count <= MaxCount
     /\ \A j \in i..Len(page) : page[j].obj # Boundary}

\* The entries of o that another autorelease may be counted in: not the first
\* one of the page, and none behind a boundary.
Candidates(page, o) ==
  {i \in 2..Len(page) :
     /\ Len(page) - i < Window
     /\ page[i].obj = o /\ page[i].count < MaxCount
     /\ \A j \in i..Len(page) : page[j].obj # Boundary}

\* The youngest candidate becomes the top entry, with its count incremented.
Coalesced(page, i) ==
  [j \in 1..Len(page) |->
     IF j < i THEN page[j]
     ELSE IF j < Len(page) THEN page[j + 1]
     ELSE [page[i] EXCEPT !.count = (@ + 1) % (MaxCount + 1)]]

Coalesces(page, o) == o # Boundary /\ Candidates(page, o) # {}
Youngest(is) == CHOOSE i \in is : \A j \in is : j <= i

Add(page, o) ==
  IF Coalesces(page, o)
    THEN Coalesced(page, Youngest(Candidates(page, o)))
    ELSE Append(page, Entry(o))

(***************************************************************************)
(* autoreleaseFast: to the hot page, to the next page that is not full, or *)
(* to a first page.                                                        *)
(***************************************************************************)
AddToHotPage(o) ==
  /\ hot > 0 /\ ~Full(hot)
  /\ pages' = [pages EXCEPT ![hot] = Add(@, o)]
  /\ UNCHANGED hot

AddToChild(o) ==
  /\ hot > 0 /\ Full(hot)
  /\ \E p \in hot + 1..Len(pages) :
       /\ ~Full(p) /\ \A q \in hot + 1..p - 1 : Full(q)
       /\ pages' = [pages EXCEPT ![p] = Add(@, o)]
       /\ hot' = p

\* Mutant: a new page even if there is a spare one.
AddToNewPageAlways(o) ==
  /\ hot > 0 /\ Full(hot)
  /\ pages' = Append(pages, Add(<<>>, o))
  /\ hot' = Len(pages) + 1

AddToNewPage(o) ==
  /\ hot > 0 /\ \A p \in hot..Len(pages) : Full(p)
  /\ pages' = Append(pages, Add(<<>>, o))
  /\ hot' = Len(pages) + 1

InstallPlaceholder(o) ==
  /\ hot = NoPage /\ o = Boundary
  /\ hot' = EmptyPoolPlaceholder
  /\ UNCHANGED pages

AddToFirstPage(o) ==
  /\ \/ hot = NoPage /\ o # Boundary /\ pages' = <<Add(<<>>, o)>>
     \/ hot = EmptyPoolPlaceholder /\ pages' = <<Add(<<Entry(Boundary)>>, o)>>
  /\ hot' = 1

AutoreleaseFast(o) ==
  \/ AddToHotPage(o) \/ AddToChild(o) \/ AddToNewPage(o)
  \/ InstallPlaceholder(o) \/ AddToFirstPage(o)

(***************************************************************************)
(* What the program calls.                                                 *)
(***************************************************************************)
MayCall ==
  /\ ProgramRuns /\ calls < MaxCalls
  /\ calls' = calls + 1

Push ==
  /\ MayCall
  /\ AutoreleaseFast(Boundary)
  /\ tokens' = Append(tokens,
       IF hot' = EmptyPoolPlaceholder THEN PlaceholderToken
       ELSE Position(hot', Len(pages'[hot'])))
  /\ UNCHANGED frames

Autorelease(o) ==
  /\ MayCall
  /\ AutoreleaseFast(o)
  /\ UNCHANGED <<tokens, frames>>

IsBoundary(pos) ==
  /\ pos.page \in 1..Len(pages) /\ pos.slot \in 1..Len(pages[pos.page])
  /\ pages[pos.page][pos.slot].obj = Boundary

\* pop() of a token the program got in this pop or, outside one, ever.  The
\* younger tokens are void.
MayPop(i) ==
  /\ ProgramRuns /\ i \in Base + 1..Len(tokens)
  /\ tokens' = SubSeq(tokens, 1, i - 1)

\* A pool that was never used, known by its placeholder.
PopPlaceholder(i) ==
  /\ MayPop(i)
  /\ tokens[i] = PlaceholderToken /\ hot <= NoPage
  /\ hot' = NoPage
  /\ UNCHANGED <<pages, frames, calls>>

\* Where the pop of a token stops; a token that is not one is badPop()'s.
Stop(token) == IF token = PlaceholderToken THEN Begin ELSE token
BadPop(stop) == stop # Begin /\ ~IsBoundary(stop)

\* Mutant: deletes the children before it releases what they hold.
StartPopDeletesFirst(i) ==
  /\ MayPop(i)
  /\ ~(tokens[i] = PlaceholderToken /\ hot <= NoPage)
  /\ LET stop == Stop(tokens[i])
     IN /\ frames' = Append(frames, Frame(stop, i - 1, FALSE))
        /\ pages' = SubSeq(pages, 1, stop.page)
        /\ hot' = stop.page
  /\ UNCHANGED calls

StartPop(i) ==
  /\ MayPop(i)
  /\ ~(tokens[i] = PlaceholderToken /\ hot <= NoPage)
  /\ LET stop == Stop(tokens[i])
     IN frames' = IF BadPop(stop) THEN frames
                  ELSE Append(frames, Frame(stop, i - 1, FALSE))
  /\ UNCHANGED <<pages, hot, calls>>

(***************************************************************************)
(* releaseUntil, popPage and kill.                                         *)
(***************************************************************************)

\* this->next == stop
Reached(f) == Len(pages[f.stop.page]) = f.stop.slot - 1

Releasing == frames # <<>> /\ ~Top.running /\ Top.left = 0

\* Mutant: no walk.
WalkUpNever(p) == p = hot /\ ~Empty(p)

\* From the hot page, up to the first page that is not empty.
WalkUp(p) == p \in 1..hot /\ ~Empty(p) /\ \A q \in p + 1..hot : Empty(q)

\* Releases owed to an entry: none for a boundary.
Owed(e) == IF e.obj = Boundary THEN 0 ELSE e.count + 1

TakeEntry ==
  /\ Releasing /\ ~Reached(Top)
  /\ \E p \in 1..hot :
       /\ WalkUp(p)
       /\ hot' = p
       /\ pages' = [pages EXCEPT ![p] = Drop(@)]
       /\ LET last == Len(pages[p]) e == pages[p][last]
          IN SetTop([Top EXCEPT !.obj = e.obj, !.left = Owed(e),
                                !.entry = Position(p, last)])
  /\ UNCHANGED <<tokens, calls>>

\* objc_release, which may run the program's code until it returns.
Release ==
  /\ frames # <<>> /\ ~Top.running /\ Top.left > 0
  /\ SetTop([Top EXCEPT !.left = @ - 1, !.running = TRUE])
  /\ UNCHANGED <<pages, hot, tokens, calls>>

ReleaseReturns ==
  /\ frames # <<>> /\ Top.running
  /\ SetTop([Top EXCEPT !.running = FALSE])
  /\ tokens' = SubSeq(tokens, 1, Top.base)
  /\ UNCHANGED <<pages, hot, calls>>

\* The pages that popPage leaves: no child of a page that is less than half
\* full, else one.
Kept(p) == IF LessThanHalfFull(p) \/ p = Len(pages) THEN p ELSE p + 1

PopPage ==
  /\ Releasing /\ Reached(Top) /\ ~Top.exit
  /\ hot' = Top.stop.page
  /\ pages' = SubSeq(pages, 1, Kept(Top.stop.page))
  /\ frames' = Drop(frames)
  /\ UNCHANGED <<tokens, calls>>

(***************************************************************************)
(* The end of the thread: tls_dealloc pops everything and kills the pages. *)
(* A destructor that runs later may start the thread's pools again.        *)
(***************************************************************************)
KillAll == pages' = <<>> /\ hot' = NoPage

ThreadExit ==
  /\ frames = <<>> /\ hot # NoPage
  /\ tokens' = <<>>
  /\ IF hot = EmptyPoolPlaceholder \/ Empty(1)
       THEN KillAll /\ UNCHANGED frames
       ELSE frames' = <<Frame(Begin, 0, TRUE)>> /\ UNCHANGED <<pages, hot>>
  /\ UNCHANGED calls

KillPages ==
  /\ Releasing /\ Reached(Top) /\ Top.exit
  /\ KillAll
  /\ frames' = Drop(frames)
  /\ UNCHANGED <<tokens, calls>>

Init ==
  /\ pages = <<>> /\ hot = NoPage
  /\ tokens = <<>> /\ frames = <<>>
  /\ calls = 0

Program ==
  \/ Push \/ ThreadExit
  \/ \E o \in Objects : Autorelease(o)
  \/ \E i \in 1..Len(tokens) : PopPlaceholder(i) \/ StartPop(i)
Pops == TakeEntry \/ Release \/ ReleaseReturns \/ PopPage \/ KillPages

Next == Program \/ Pops

Spec == Init /\ [][Next]_vars

\* releaseUntil goes on while it can, and each -dealloc returns.
FairSpec == Spec /\ WF_vars(Pops)

-----------------------------------------------------------------------------
(***************************************************************************)
(* Properties                                                              *)
(***************************************************************************)
Entries == [obj : Objects \cup {Boundary}, count : 0..MaxCount]
Positions == [page : Nat, slot : Nat]
Frames == [stop : Positions, obj : Objects \cup {Boundary}, left : Nat,
           entry : Positions, running : BOOLEAN, base : Nat, exit : BOOLEAN]

\* Types, and: no page holds more than fits, and a first page exists exactly
\* when the TLS slot points to a page.
TypeOK ==
  /\ pages \in Seq(Seq(Entries))
  /\ \A p \in 1..Len(pages) : Len(pages[p]) <= PageSize
  /\ hot \in EmptyPoolPlaceholder..Len(pages)
  /\ pages = <<>> <=> hot <= NoPage
  /\ tokens \in Seq(Positions) /\ frames \in Seq(Frames)
  /\ calls \in 0..MaxCalls

\* releaseUntil walks up from an empty hot page with a while loop of which its
\* comment says "I think this `while` can be `if`, but I can't prove it": the
\* parent of an empty hot page, met on the way to the stop, exists and is not
\* empty.
WhileCanBeIf ==
  Releasing /\ ~Reached(Top) /\ Empty(hot) => hot > 1 /\ ~Empty(hot - 1)

\* The list of pages is one stack: the pages colder than the hot page are full
\* and the hotter ones are empty, whatever a -dealloc does to the list during a
\* pop; autoreleaseFullPage and the assertion at the end of releaseUntil
\* rely on it.
OneStack ==
  \A p \in 1..Len(pages) : (p < hot => Full(p)) /\ (p > hot => Empty(p))

\* A token that the program may still pop is the place of a boundary in a live
\* page, or the placeholder of a first pool: coalescing never moves a boundary
\* and no pop kills the page of an older pool.  (Otherwise badPop is called.)
TokensLive ==
  \A i \in 1..Len(tokens) :
    IF tokens[i] = PlaceholderToken
      THEN i = 1 /\ (hot > 0 => IsBoundary(Begin))
      ELSE IsBoundary(tokens[i])

\* A page is freed only when it is empty and no pop in progress stops in it.
KilledPagesUnused ==
  [][\A p \in Len(pages') + 1..Len(pages) :
       /\ Empty(p)
       /\ \A i \in 1..Len(frames') : frames'[i].stop.page < p]_vars

\* Between pops the thread keeps at most one page beyond the hot page.
OneSparePage == frames = <<>> /\ hot > 0 => Len(pages) <= hot + 1

\* Every pop ends, with what the releases in it have autoreleased meanwhile.
PopsReturn == frames # <<>> ~> frames = <<>>

(***************************************************************************)
(* The pages implement the stack of pools.                                 *)
(***************************************************************************)
\* The places of the entries, and their order in the stack.
Places ==
  {x \in [page : 1..Len(pages), slot : 1..PageSize] : x.slot <= Len(pages[x.page])}
At(x) == pages[x.page][x.slot]
Before(x, y) == x.page < y.page \/ (x.page = y.page /\ x.slot < y.slot)

\* Each boundary opens a pool; the place, in the stack of pools, of the one that
\* an entry belongs to.
Boundaries == {x \in Places : At(x).obj = Boundary}
PoolOf(x) == 1 + Cardinality({b \in Boundaries : Before(b, x)})

\* The releases to come: those owed to the entries, and those that a pop in
\* progress has taken and not yet sent (as if it were an entry of a page 0).
Taken(x) == frames[x.slot]
Releases ==
  {r \in Places \X (1..MaxCount + 1) : r[2] <= Owed(At(r[1]))}
  \cup {r \in [page : {0}, slot : 1..Len(frames)] \X (1..MaxCount + 1) :
          r[2] <= Taken(r[1]).left}

\* The object that gets a release, and the pool that it comes from.
Receiver(r) == IF r[1].page = 0 THEN Taken(r[1]).obj ELSE At(r[1]).obj
Source(r) == PoolOf(IF r[1].page = 0 THEN Taken(r[1]).entry ELSE r[1])

\* The pools that the entries make up, with what the pops have yet to release.
PoolCount ==
  1 + Cardinality(Boundaries) + (IF hot = EmptyPoolPlaceholder THEN 1 ELSE 0)
Due(k, o) == Cardinality({r \in Releases : Receiver(r) = o /\ Source(r) = k})
Pools == [k \in 1..PoolCount |-> [o \in Objects |-> Due(k, o)]]

\* A pop whose boundary has been taken is over; only the innermost can be.
Unfinished ==
  IF frames # <<>> /\ ~Top.exit /\ Reached(Top) THEN Drop(frames) ELSE frames
Popping ==
  [i \in 1..Len(Unfinished) |->
     IF Unfinished[i].exit THEN 1 ELSE 1 + PoolOf(Unfinished[i].stop)]

\* The frames whose release has not returned are the outermost ones.
Running == {i \in 1..Len(frames) : frames[i].running}
Receiving == [i \in 1..Cardinality(Running) |-> frames[i].obj]

Stack == INSTANCE PoolStack
  WITH pools <- Pools, popping <- Popping, releasing <- Receiving

\* Every pop releases exactly what was autoreleased in its pool and in those
\* above it, each object once for each autorelease, and nothing of the pools
\* below; a pool that is never popped is released when its thread ends.
ImplementsStack == Stack!Spec
=============================================================================
