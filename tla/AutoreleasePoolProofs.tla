------------------------- MODULE AutoreleasePoolProofs -------------------------
(***************************************************************************)
(* Theorems about AutoreleasePoolPage, for every size of page and number   *)
(* of calls, and their proofs.                                             *)
(*                                                                         *)
(* The argument: the pages are one stack (OneStack), so a place in it is a *)
(* page and a slot, in lexicographic order.  The tokens are boundaries in  *)
(* that order (TokenInv).  Every pop in progress stops at or below the top *)
(* of the stack, above the tokens older than it and not above the younger  *)
(* ones (FrameInv), so a pop of a younger token, in a -dealloc, leaves     *)
(* every older pop what it was going to take.                              *)
(*                                                                         *)
(* That the pages implement the stack of pools (PoolStack) needs EntryInv: *)
(* a pop owes releases only of what it took above its stop, whose boundary *)
(* stays until the pop takes it.  A release that is due is owed to a place *)
(* of the stack or by a pop in progress; a step of the pools moves what is *)
(* owed from place to place, or adds one or sends one, and counting it by  *)
(* a bijection of the places gives the bags of PoolStack after the step.   *)
(***************************************************************************)
EXTENDS AutoreleasePoolPage, SequenceTheorems, FiniteSetTheorems,
  WellFoundedInduction, TLAPS

AtOrBefore(x, y) == x.page < y.page \/ (x.page = y.page /\ x.slot <= y.slot)

\* A place in the stack or the one above its top.
InStack(x) ==
  /\ x.page >= 1 /\ x.slot \in 1..PageSize
  /\ x.page < hot \/ (x.page = hot /\ x.slot <= Len(pages[hot]) + 1)

TokenInv ==
  /\ hot = NoPage => tokens = <<>>
  /\ TokensLive
  /\ \A i, j \in 1..Len(tokens) :
       i < j => Before(Stop(tokens[i]), Stop(tokens[j]))

StopInv(f) ==
  /\ InStack(f.stop)
  /\ f.base <= Len(tokens)
  /\ \A j \in 1..Len(tokens) :
       IF j <= f.base THEN Before(Stop(tokens[j]), f.stop)
       ELSE tokens[j] # PlaceholderToken /\ AtOrBefore(f.stop, tokens[j])

FrameInv ==
  /\ frames # <<>> => hot > 0
  /\ \A i \in 1..Len(frames) :
       /\ StopInv(frames[i])
       /\ frames[i].exit => i = 1 /\ frames[i].base = 0 /\ frames[i].stop = Begin
       /\ i < Len(frames) => frames[i].running
  /\ \A i, k \in 1..Len(frames) :
       i <= k => /\ AtOrBefore(frames[i].stop, frames[k].stop)
                 /\ frames[i].base <= frames[k].base
  /\ frames # <<>> /\ ~Top.running => Len(tokens) <= Top.base

PoolInv == TypeOK /\ OneStack /\ TokenInv /\ FrameInv /\ OneSparePage

USE BoundaryAssumption, PageSizeAssumption, WidthAssumption

-----------------------------------------------------------------------------
(***************************************************************************)
(* add()                                                                   *)
(***************************************************************************)

LEMMA EntryType ==
  ASSUME NEW o \in Objects \cup {Boundary}
  PROVE  Entry(o) \in Entries /\ Entry(o).obj = o
BY DEF Entry, Entries

\* A nonempty set of places has a youngest one, so Youngest is one of them.
LEMMA YoungestExists ==
  ASSUME NEW n \in Nat, NEW is, is \subseteq 1..n, is # {}
  PROVE  Youngest(is) \in is
<1> DEFINE T == {n - i : i \in is}
<1>1. \E m \in T : \A k \in T : m <= k
  <2>1. T \subseteq Nat
    <3>1. ASSUME NEW i \in is PROVE n - i \in Nat
      <4>1. i \in 1..n
        OBVIOUS
      <4> QED  BY <4>1
    <3> QED  BY <3>1, Zenon DEF T
  <2>2. T # {}
    OBVIOUS
  <2> HIDE DEF T
  <2>3. PICK m \in T : \A k \in T : ~(<<k, m>> \in OpToRel(<, Nat))
    BY <2>1, <2>2, WFMin, NatLessThanWellFounded
  <2>4. ASSUME NEW k \in T PROVE m <= k
    <3>1. k \in Nat /\ m \in Nat
      BY <2>1
    <3>2. ~(<<k, m>> \in OpToRel(<, Nat))
      BY <2>3
    <3>3. <<k, m>> \in Nat \X Nat
      BY <3>1
    <3>4. ~(k < m)
      BY <3>2, <3>3, Zenon DEF OpToRel
    <3> QED  BY <3>1, <3>4
  <2> QED  BY <2>4
<1>2. PICK i \in is : \A j \in is : n - i <= n - j
  BY <1>1
<1>3. \A j \in is : j <= i
  BY <1>2, SMT
<1> QED
  BY <1>2, <1>3 DEF Youngest

\* add() makes a page no more than one entry longer, never moves a boundary
\* and puts a new boundary on top.
LEMMA AddKeepsBoundaries ==
  ASSUME NEW page \in Seq(Entries), NEW o \in Objects \cup {Boundary}
  PROVE  /\ Add(page, o) \in Seq(Entries)
         /\ Len(Add(page, o)) \in {Len(page), Len(page) + 1}
         /\ Len(Add(page, o)) >= 1
         /\ \A j \in 1..Len(page) :
              page[j].obj = Boundary => Add(page, o)[j].obj = Boundary
         /\ o = Boundary => /\ Len(Add(page, o)) = Len(page) + 1
                            /\ Add(page, o)[Len(page) + 1].obj = Boundary
<1>1. CASE Coalesces(page, o)
  <2> DEFINE i == Youngest(Candidates(page, o))
             new == Coalesced(page, i)
  <2>1. i \in Candidates(page, o)
    <3>1. Candidates(page, o) \subseteq 1..Len(page) /\ Candidates(page, o) # {}
      BY <1>1 DEF Coalesces, Candidates
    <3>2. Len(page) \in Nat
      OBVIOUS
    <3> QED  BY <3>1, <3>2, YoungestExists
  <2>2. i \in 2..Len(page) /\ \A j \in i..Len(page) : page[j].obj # Boundary
    BY <2>1 DEF Candidates
  <2>3. \A j \in 1..Len(page) : new[j] \in Entries
    <3> SUFFICES ASSUME NEW j \in 1..Len(page) PROVE new[j] \in Entries
      OBVIOUS
    <3>1. page[i] \in Entries /\ (j < Len(page) => page[j + 1] \in Entries) /\ page[j] \in Entries
      BY <2>2
    <3>2. [page[i] EXCEPT !.count = (@ + 1) % (MaxCount + 1)] \in Entries
      <4>1. (page[i].count + 1) % (MaxCount + 1) \in 0..MaxCount
        BY SMTT(30), <3>1 DEF Entries
      <4> QED  BY <3>1, <4>1 DEF Entries
    <3> QED  BY <3>1, <3>2 DEF Coalesced
  <2>4. new \in Seq(Entries) /\ Len(new) = Len(page)
    <3>1. new \in [1..Len(page) -> Entries]
      BY <2>3 DEF Coalesced
    <3> QED  BY <3>1
  <2>5. \A j \in 1..Len(page) : page[j].obj = Boundary => new[j].obj = Boundary
    BY <2>2 DEF Coalesced
  <2>6. Add(page, o) = new /\ o # Boundary
    BY <1>1 DEF Add, Coalesces
  <2> QED
    BY <2>2, <2>4, <2>5, <2>6
<1>2. CASE ~Coalesces(page, o)
  <2>1. Add(page, o) = Append(page, Entry(o))
    BY <1>2 DEF Add
  <2> QED
    BY <2>1, EntryType, AppendProperties
<1> QED
  BY <1>1, <1>2

-----------------------------------------------------------------------------
(***************************************************************************)
(* autoreleaseFast()                                                       *)
(***************************************************************************)

\* The part of TypeOK that is about the pages.
PagesOK ==
  /\ pages \in Seq(Seq(Entries))
  /\ \A p \in 1..Len(pages) : Len(pages[p]) <= PageSize
  /\ hot \in EmptyPoolPlaceholder..Len(pages)
  /\ pages = <<>> <=> hot <= NoPage

\* What a push or an autorelease does to the stack.
Grown ==
  /\ PagesOK' /\ OneStack' /\ hot' >= 1 /\ Len(pages') >= Len(pages)
  /\ hot > 0 => \/ hot' = hot /\ Len(pages'[hot]) >= Len(pages[hot])
                \/ hot' > hot /\ Len(pages[hot]) = PageSize
  /\ \A x \in Positions : IsBoundary(x) => IsBoundary(x)'
  /\ hot = EmptyPoolPlaceholder =>
       IsBoundary(Begin)' /\ hot' = 1 /\ Len(pages'[1]) = 2
  /\ hot > 0 /\ Len(pages) <= hot + 1 => Len(pages') <= hot' + 1
  /\ hot <= 0 => Len(pages') <= hot' + 1

\* What more a push does: its boundary is on top of the stack.
Pushed ==
  /\ IsBoundary(Position(hot, Len(pages[hot])))'
  /\ hot > 0 =>
       hot' > hot \/ (hot' = hot /\ Len(pages'[hot]) = Len(pages[hot]) + 1)

LEMMA PagesFacts ==
  ASSUME PagesOK
  PROVE  /\ Len(pages) \in Nat /\ hot \in Int /\ hot <= Len(pages)
         /\ \A p \in 1..Len(pages) : /\ pages[p] \in Seq(Entries)
                                     /\ Len(pages[p]) \in 0..PageSize
                                     /\ pages[p] = <<>> <=> Len(pages[p]) = 0
BY DEF PagesOK, EmptyPoolPlaceholder

LEMMA NextPagesFacts ==
  ASSUME PagesOK'
  PROVE  /\ Len(pages') \in Nat /\ hot' \in Int /\ hot' <= Len(pages')
         /\ \A p \in 1..Len(pages') : /\ pages'[p] \in Seq(Entries)
                                      /\ Len(pages'[p]) \in 0..PageSize
                                      /\ pages'[p] = <<>> <=> Len(pages'[p]) = 0
BY DEF PagesOK, EmptyPoolPlaceholder

\* A page of the list is replaced by one that has its boundaries.
LEMMA PageReplaced ==
  ASSUME PagesOK, NEW p \in 1..Len(pages), NEW new \in Seq(Entries),
         Len(new) \in 1..PageSize, hot' \in 1..Len(pages),
         Len(new) >= Len(pages[p]),
         \A j \in 1..Len(pages[p]) :
           pages[p][j].obj = Boundary => new[j].obj = Boundary,
         pages' = [pages EXCEPT ![p] = new]
  PROVE  /\ PagesOK' /\ Len(pages') = Len(pages)
         /\ \A q \in 1..Len(pages) : pages'[q] = IF q = p THEN new ELSE pages[q]
         /\ \A x \in Positions : IsBoundary(x) => IsBoundary(x)'
<1>1. /\ pages' \in Seq(Seq(Entries)) /\ Len(pages') = Len(pages)
      /\ \A q \in 1..Len(pages) : pages'[q] = IF q = p THEN new ELSE pages[q]
  BY ExceptSeq DEF PagesOK
<1>2. \A q \in 1..Len(pages') : Len(pages'[q]) <= PageSize
  BY <1>1, PagesFacts
<1>3. PagesOK'
  BY <1>1, <1>2 DEF PagesOK, EmptyPoolPlaceholder, NoPage
<1>4. ASSUME NEW x \in Positions, IsBoundary(x) PROVE IsBoundary(x)'
  <2>1. x.page \in 1..Len(pages) /\ x.slot \in 1..Len(pages[x.page])
    BY <1>4 DEF IsBoundary
  <2>2. CASE x.page = p
    BY SMTT(30), <1>1, <1>4, <2>1, <2>2, PagesFacts DEF IsBoundary
  <2>3. CASE x.page # p
    BY <1>1, <1>4, <2>1, <2>3 DEF IsBoundary
  <2> QED  BY <2>2, <2>3
<1> QED
  BY <1>1, <1>3, <1>4

\* A page is added at the end of the list.
LEMMA PageAdded ==
  ASSUME PagesOK, NEW new \in Seq(Entries), Len(new) \in 1..PageSize,
         hot' = Len(pages) + 1, pages' = Append(pages, new)
  PROVE  /\ PagesOK' /\ Len(pages') = Len(pages) + 1
         /\ \A q \in 1..Len(pages) : pages'[q] = pages[q]
         /\ pages'[Len(pages) + 1] = new
         /\ \A x \in Positions : IsBoundary(x) => IsBoundary(x)'
<1>1. /\ pages' \in Seq(Seq(Entries)) /\ Len(pages') = Len(pages) + 1
      /\ \A q \in 1..Len(pages) : pages'[q] = pages[q]
      /\ pages'[Len(pages) + 1] = new
  BY AppendProperties DEF PagesOK
<1>2. \A q \in 1..Len(pages') : Len(pages'[q]) <= PageSize
  <2> SUFFICES ASSUME NEW q \in 1..Len(pages') PROVE Len(pages'[q]) <= PageSize
    OBVIOUS
  <2>1. q \in 1..Len(pages) \/ q = Len(pages) + 1
    BY <1>1, PagesFacts
  <2> QED  BY <1>1, <2>1, PagesFacts
<1>3. PagesOK'
  BY <1>1, <1>2, PagesFacts DEF PagesOK, EmptyPoolPlaceholder, NoPage
<1>4. ASSUME NEW x \in Positions, IsBoundary(x) PROVE IsBoundary(x)'
  BY <1>1, <1>4, PagesFacts DEF IsBoundary
<1> QED
  BY <1>1, <1>3, <1>4

LEMMA HotPageGrows ==
  ASSUME PagesOK, OneStack, NEW o \in Objects \cup {Boundary}, AddToHotPage(o)
  PROVE  Grown /\ (o = Boundary => Pushed)
<1> DEFINE new == Add(pages[hot], o)
<1>1. hot > 0 /\ hot \in 1..Len(pages) /\ pages[hot] \in Seq(Entries)
      /\ Len(pages[hot]) \in 0..PageSize /\ Len(pages[hot]) # PageSize
  BY PagesFacts DEF AddToHotPage, Full
<1>2. /\ new \in Seq(Entries) /\ Len(new) \in {Len(pages[hot]), Len(pages[hot]) + 1}
      /\ Len(new) >= 1
      /\ \A j \in 1..Len(pages[hot]) : pages[hot][j].obj = Boundary => new[j].obj = Boundary
      /\ o = Boundary => Len(new) = Len(pages[hot]) + 1 /\ new[Len(pages[hot]) + 1].obj = Boundary
  BY <1>1, AddKeepsBoundaries
<1>3. pages' = [pages EXCEPT ![hot] = new] /\ hot' = hot
  BY DEF AddToHotPage
<1> HIDE DEF new
<1>4. /\ PagesOK' /\ Len(pages') = Len(pages)
      /\ \A q \in 1..Len(pages) : pages'[q] = IF q = hot THEN new ELSE pages[q]
      /\ \A x \in Positions : IsBoundary(x) => IsBoundary(x)'
  <2>1. /\ Len(new) \in 1..PageSize /\ hot' \in 1..Len(pages)
        /\ Len(new) >= Len(pages[hot])
    BY <1>1, <1>2, <1>3
  <2> QED  BY <1>1, <1>2, <1>3, <2>1, PageReplaced
<1>5. OneStack'
  BY <1>1, <1>3, <1>4 DEF OneStack, Full, Empty
<1>6. o = Boundary => Pushed
  <2> SUFFICES ASSUME o = Boundary PROVE Pushed
    OBVIOUS
  <2>1. hot' = hot /\ hot' \in 1..Len(pages') /\ pages'[hot'] = new
    BY <1>1, <1>3, <1>4
  <2>2. Len(new) = Len(pages[hot]) + 1 /\ Len(new) \in 1..Len(new) /\ new[Len(new)].obj = Boundary
    BY <1>1, <1>2
  <2>3. IsBoundary(Position(hot, Len(pages[hot])))'
    BY <2>1, <2>2 DEF IsBoundary, Position
  <2> QED  BY <2>1, <2>2, <2>3 DEF Pushed
<1> QED
  BY <1>1, <1>2, <1>3, <1>4, <1>5, <1>6 DEF Grown, EmptyPoolPlaceholder

LEMMA ChildGrows ==
  ASSUME PagesOK, OneStack, NEW o \in Objects \cup {Boundary}, AddToChild(o)
  PROVE  Grown /\ (o = Boundary => Pushed)
<1>1. PICK p \in hot + 1..Len(pages) :
        /\ ~Full(p) /\ \A q \in hot + 1..p - 1 : Full(q)
        /\ pages' = [pages EXCEPT ![p] = Add(@, o)]
        /\ hot' = p
  BY DEF AddToChild
<1> DEFINE new == Add(pages[p], o)
<1>2. hot > 0 /\ hot \in 1..Len(pages) /\ Len(pages[hot]) = PageSize /\ p \in 1..Len(pages)
  BY PagesFacts DEF AddToChild, Full
<1>3. p = hot + 1
  <2> SUFFICES ASSUME p > hot + 1 PROVE FALSE
    BY <1>2, PagesFacts
  <2>1. hot + 1 \in 1..Len(pages) /\ Full(hot + 1) /\ Empty(hot + 1)
    BY <1>1, <1>2, PagesFacts DEF OneStack
  <2> QED  BY <2>1, PagesFacts DEF Full, Empty
<1>4. pages[p] \in Seq(Entries) /\ Len(pages[p]) = 0
  BY <1>2, <1>3, PagesFacts DEF OneStack, Empty
<1>5. /\ new \in Seq(Entries) /\ Len(new) = 1
      /\ o = Boundary => new[1].obj = Boundary
  <2>1. /\ new \in Seq(Entries)
        /\ Len(new) \in {Len(pages[p]), Len(pages[p]) + 1} /\ Len(new) >= 1
        /\ o = Boundary => new[Len(pages[p]) + 1].obj = Boundary
    BY <1>4, AddKeepsBoundaries
  <2> HIDE DEF new
  <2> QED  BY <1>4, <2>1
<1>6. pages' = [pages EXCEPT ![p] = new] /\ hot' = p
  BY <1>1
<1> HIDE DEF new
<1>7. /\ PagesOK' /\ Len(pages') = Len(pages)
      /\ \A q \in 1..Len(pages) : pages'[q] = IF q = p THEN new ELSE pages[q]
      /\ \A x \in Positions : IsBoundary(x) => IsBoundary(x)'
  <2>1. /\ Len(new) \in 1..PageSize /\ hot' \in 1..Len(pages)
        /\ Len(new) >= Len(pages[p])
        /\ \A j \in 1..Len(pages[p]) :
             pages[p][j].obj = Boundary => new[j].obj = Boundary
    BY <1>2, <1>4, <1>5, <1>6
  <2> QED  BY <1>2, <1>5, <1>6, <2>1, PageReplaced
<1>8. OneStack'
  BY <1>2, <1>3, <1>6, <1>7 DEF OneStack, Full, Empty
<1>9. o = Boundary => Pushed
  <2> SUFFICES ASSUME o = Boundary PROVE Pushed
    OBVIOUS
  <2>1. hot' > hot /\ hot' \in 1..Len(pages') /\ pages'[hot'] = new
    BY <1>2, <1>3, <1>6, <1>7
  <2>2. Len(new) \in 1..Len(new) /\ new[Len(new)].obj = Boundary
    BY <1>5
  <2>3. IsBoundary(Position(hot, Len(pages[hot])))'
    BY <2>1, <2>2 DEF IsBoundary, Position
  <2> QED  BY <2>1, <2>3 DEF Pushed
<1> QED
  BY <1>2, <1>3, <1>6, <1>7, <1>8, <1>9 DEF Grown, EmptyPoolPlaceholder

LEMMA NewPageGrows ==
  ASSUME PagesOK, OneStack, NEW o \in Objects \cup {Boundary}, AddToNewPage(o)
  PROVE  Grown /\ (o = Boundary => Pushed)
<1> DEFINE new == Add(<<>>, o)
<1>1. /\ hot > 0 /\ hot \in 1..Len(pages) /\ \A p \in hot..Len(pages) : Len(pages[p]) = PageSize
      /\ pages' = Append(pages, new) /\ hot' = Len(pages) + 1
  BY PagesFacts DEF AddToNewPage, Full
<1>2. hot = Len(pages) /\ Len(pages[hot]) = PageSize
  <2> SUFFICES ASSUME hot < Len(pages) PROVE FALSE
    BY <1>1
  <2>1. Len(pages) \in 1..Len(pages) /\ Empty(Len(pages))
    BY <1>1 DEF OneStack
  <2> QED  BY <1>1, <2>1, PagesFacts DEF Empty
<1>3. /\ new \in Seq(Entries) /\ Len(new) = 1
      /\ o = Boundary => new[1].obj = Boundary
  <2> DEFINE page == <<>>
  <2>1. page \in Seq(Entries) /\ Len(page) = 0
    OBVIOUS
  <2> HIDE DEF page
  <2>2. /\ Add(page, o) \in Seq(Entries)
        /\ Len(Add(page, o)) \in {Len(page), Len(page) + 1} /\ Len(Add(page, o)) >= 1
        /\ o = Boundary => Add(page, o)[Len(page) + 1].obj = Boundary
    BY <2>1, AddKeepsBoundaries
  <2>3. new = Add(page, o)
    BY DEF page
  <2> HIDE DEF new
  <2> QED  BY <2>1, <2>2, <2>3
<1> HIDE DEF new
<1>4. /\ PagesOK' /\ Len(pages') = Len(pages) + 1
      /\ \A q \in 1..Len(pages) : pages'[q] = pages[q]
      /\ pages'[Len(pages) + 1] = new
      /\ \A x \in Positions : IsBoundary(x) => IsBoundary(x)'
  <2>1. Len(new) \in 1..PageSize
    BY <1>3
  <2> QED  BY <1>1, <1>3, <2>1, PageAdded
<1>5. OneStack'
  BY <1>1, <1>2, <1>4 DEF OneStack, Full, Empty
<1>6. o = Boundary => Pushed
  <2> SUFFICES ASSUME o = Boundary PROVE Pushed
    OBVIOUS
  <2>1. hot' > hot /\ hot' \in 1..Len(pages') /\ pages'[hot'] = new
    BY <1>1, <1>4, PagesFacts
  <2>2. Len(new) \in 1..Len(new) /\ new[Len(new)].obj = Boundary
    BY <1>3
  <2>3. IsBoundary(Position(hot, Len(pages[hot])))'
    BY <2>1, <2>2 DEF IsBoundary, Position
  <2> QED  BY <2>1, <2>3 DEF Pushed
<1> QED
  BY <1>1, <1>2, <1>4, <1>5, <1>6 DEF Grown, EmptyPoolPlaceholder

LEMMA FirstPageGrows ==
  ASSUME PagesOK, NEW o \in Objects \cup {Boundary}, AddToFirstPage(o)
  PROVE  Grown /\ (o = Boundary => Pushed)
<1>1. pages = <<>> /\ Len(pages) = 0 /\ hot \in Int /\ hot <= 0 /\ hot' = 1
  BY PagesFacts DEF AddToFirstPage, PagesOK, NoPage, EmptyPoolPlaceholder
<1>2. PICK page \in Seq(Entries) :
        /\ pages' = <<Add(page, o)>>
        /\ IF hot = EmptyPoolPlaceholder THEN page = <<Entry(Boundary)>>
           ELSE page = <<>>
  <2>1. <<>> \in Seq(Entries) /\ <<Entry(Boundary)>> \in Seq(Entries)
    BY EntryType
  <2>2. CASE hot = NoPage /\ pages' = <<Add(<<>>, o)>>
    <3>1. hot # EmptyPoolPlaceholder
      BY <2>2 DEF NoPage, EmptyPoolPlaceholder
    <3> WITNESS <<>> \in Seq(Entries)
    <3> QED  BY <2>2, <3>1
  <2>3. CASE hot = EmptyPoolPlaceholder /\ pages' = <<Add(<<Entry(Boundary)>>, o)>>
    BY <2>1, <2>3
  <2> QED  BY <2>2, <2>3 DEF AddToFirstPage
<1> DEFINE new == Add(page, o)
<1>3. /\ Len(page) = (IF hot = EmptyPoolPlaceholder THEN 1 ELSE 0)
      /\ hot = EmptyPoolPlaceholder => page[1].obj = Boundary
  BY <1>2, EntryType
<1>4. /\ new \in Seq(Entries) /\ Len(new) \in {Len(page), Len(page) + 1} /\ Len(new) >= 1
      /\ hot = EmptyPoolPlaceholder => new[1].obj = Boundary
      /\ o = Boundary => Len(new) = Len(page) + 1 /\ new[Len(page) + 1].obj = Boundary
  <2>1. /\ new \in Seq(Entries) /\ Len(new) \in {Len(page), Len(page) + 1} /\ Len(new) >= 1
        /\ \A j \in 1..Len(page) : page[j].obj = Boundary => new[j].obj = Boundary
        /\ o = Boundary => Len(new) = Len(page) + 1 /\ new[Len(page) + 1].obj = Boundary
    BY AddKeepsBoundaries
  <2> HIDE DEF new
  <2> QED  BY <1>3, <2>1
<1>5. hot = EmptyPoolPlaceholder => Len(new) = 2
  <2> SUFFICES ASSUME hot = EmptyPoolPlaceholder PROVE Len(new) = 2
    OBVIOUS
  <2>1. Candidates(page, o) = {}
    BY <1>3 DEF Candidates
  <2>2. new = Append(page, Entry(o))
    BY <2>1 DEF Add, Coalesces
  <2>3. Entry(o) \in Entries
    BY EntryType
  <2>4. Len(new) = Len(page) + 1
    BY <2>2, <2>3, AppendProperties
  <2> QED  BY <1>3, <2>4
<1>6. pages' = <<new>>
  BY <1>2
<1> HIDE DEF new
<1>7. /\ pages' \in Seq(Seq(Entries)) /\ Len(pages') = 1 /\ pages'[1] = new
      /\ Len(new) \in 1..PageSize /\ pages' # <<>>
  <2>1. new \in Seq(Entries) /\ (Len(new) = 1 \/ Len(new) = 2)
    BY <1>3, <1>4
  <2>2. <<new>> \in Seq(Seq(Entries))
    BY <2>1
  <2>3. Len(<<new>>) = 1 /\ <<new>>[1] = new /\ <<new>> # <<>>
    OBVIOUS
  <2>4. Len(new) \in 1..PageSize
    <3>1. 1 \in 1..PageSize /\ 2 \in 1..PageSize
      OBVIOUS
    <3> QED  BY <2>1, <3>1
  <2> QED  BY <1>6, <2>2, <2>3, <2>4
<1>8. PagesOK' /\ OneStack'
  BY <1>1, <1>7 DEF PagesOK, OneStack, EmptyPoolPlaceholder, NoPage
<1>9. \A x \in Positions : ~IsBoundary(x)
  BY <1>1 DEF IsBoundary
<1>10. hot = EmptyPoolPlaceholder => IsBoundary(Begin)'
  BY <1>4, <1>7 DEF IsBoundary, Begin, Position
<1>11. o = Boundary => Pushed
  <2> SUFFICES ASSUME o = Boundary PROVE Pushed
    OBVIOUS
  <2>1. hot' \in 1..Len(pages') /\ pages'[hot'] = new
    BY <1>1, <1>7
  <2>2. Len(new) \in 1..Len(new) /\ new[Len(new)].obj = Boundary
    BY <1>3, <1>4
  <2>3. IsBoundary(Position(hot, Len(pages[hot])))'
    BY <2>1, <2>2 DEF IsBoundary, Position
  <2> QED  BY <1>1, <2>3 DEF Pushed
<1> QED
  <2>1. hot' >= 1 /\ ~(hot > 0) /\ Len(pages') <= hot' + 1 /\ Len(pages') >= Len(pages)
    BY <1>1, <1>7
  <2>2. hot = EmptyPoolPlaceholder => hot' = 1 /\ Len(pages'[1]) = 2
    BY <1>1, <1>5, <1>7
  <2> QED  BY <1>8, <1>9, <1>10, <1>11, <2>1, <2>2 DEF Grown

LEMMA AddGrows ==
  ASSUME PagesOK, OneStack, NEW o \in Objects \cup {Boundary}, AutoreleaseFast(o),
         hot' # EmptyPoolPlaceholder
  PROVE  Grown /\ (o = Boundary => Pushed)
BY HotPageGrows, ChildGrows, NewPageGrows, FirstPageGrows
   DEF AutoreleaseFast, InstallPlaceholder

-----------------------------------------------------------------------------
(***************************************************************************)
(* Pushes and autoreleases                                                 *)
(***************************************************************************)

\* Pages, tokens and pops, without the bound on the spare pages.
Core == PagesOK /\ OneStack /\ tokens \in Seq(Positions) /\ TokenInv
        /\ frames \in Seq(Frames) /\ FrameInv

LEMMA PositionFacts ==
  /\ \A p, s \in Nat : /\ Position(p, s) \in Positions
                       /\ Position(p, s).page = p /\ Position(p, s).slot = s
  /\ PlaceholderToken \in Positions /\ Begin \in Positions
  /\ PlaceholderToken.page = 0 /\ Begin.page = 1 /\ Begin.slot = 1
  /\ \A x \in Positions : /\ x.page \in Nat /\ x.slot \in Nat
                          /\ Stop(x) \in Positions
BY DEF Position, Positions, PlaceholderToken, Begin, Stop

\* With a page, where the pop of a token stops is a boundary.
LEMMA StopIsBoundary ==
  ASSUME Core, hot > 0, NEW i \in 1..Len(tokens)
  PROVE  /\ IsBoundary(Stop(tokens[i])) /\ tokens[i] \in Positions
         /\ Stop(tokens[i]).page <= hot
<1>1. tokens[i] \in Positions
  BY DEF Core
<1>2. IsBoundary(Stop(tokens[i]))
  BY DEF Core, TokenInv, TokensLive, Stop
<1>3. ASSUME NEW x \in Positions, IsBoundary(x) PROVE x.page <= hot
  <2>1. x.page \in 1..Len(pages) /\ Len(pages[x.page]) > 0
    BY <1>3, PagesFacts DEF Core, IsBoundary
  <2> QED  BY <2>1, PagesFacts, PositionFacts DEF Core, OneStack, Empty
<1> QED
  BY <1>1, <1>2, <1>3, PositionFacts

\* A boundary lies below the place above the top.
LEMMA BoundaryBelow ==
  ASSUME Core, NEW x \in Positions, IsBoundary(x), NEW y \in Positions,
         y.page > hot \/ (y.page = hot /\ y.slot = Len(pages[hot]) + 1)
  PROVE  Before(x, y)
<1>1. x.page \in 1..Len(pages) /\ x.slot \in 1..Len(pages[x.page])
  BY DEF IsBoundary
<1>2. x.page <= hot
  BY <1>1, PagesFacts DEF Core, OneStack, Empty
<1> QED
  BY SMTT(30), <1>1, <1>2, PagesFacts, PositionFacts DEF Core, Before

\* A pop in progress still stops in the stack when it has grown.
LEMMA InStackGrown ==
  ASSUME Core, Grown, hot > 0, NEW x \in Positions, InStack(x)
  PROVE  InStack(x)'
<1>1. x.page \in Nat /\ x.slot \in Nat /\ hot \in Int /\ hot' \in Int
  BY PositionFacts, PagesFacts, NextPagesFacts DEF Core, Grown
<1>2. hot \in 1..Len(pages) /\ hot' \in 1..Len(pages') /\ Len(pages'[hot']) \in Nat
  BY PagesFacts, NextPagesFacts DEF Core, Grown
<1>3. Len(pages[hot]) \in Nat
  BY <1>2, PagesFacts DEF Core
<1> QED
  BY <1>1, <1>2, <1>3 DEF Grown, InStack

\* What is true of the tokens after the stack has grown below them.
LEMMA TokensGrown ==
  ASSUME Core, Grown, NEW i \in 1..Len(tokens), NEW x, x = tokens[i]
  PROVE  IF x = PlaceholderToken THEN i = 1 /\ IsBoundary(Begin)' ELSE IsBoundary(x)'
<1>1. x \in Positions /\ Begin \in Positions
  BY PositionFacts DEF Core
<1>2. hot # NoPage
  BY DEF Core, TokenInv
<1>3. CASE hot = EmptyPoolPlaceholder
  <2>1. ~IsBoundary(x)
    BY <1>3 DEF IsBoundary, Core, PagesOK, EmptyPoolPlaceholder, NoPage
  <2> QED  BY <1>3, <2>1 DEF Grown, Core, TokenInv, TokensLive
<1>4. CASE hot > 0
  BY <1>1, <1>4 DEF Grown, Core, TokenInv, TokensLive
<1> QED
  BY <1>2, <1>3, <1>4, PagesFacts DEF Core, PagesOK, EmptyPoolPlaceholder, NoPage

LEMMA FrameFacts ==
  ASSUME Core, NEW i \in 1..Len(frames)
  PROVE  /\ frames[i] \in Frames /\ frames[i].stop \in Positions
         /\ frames[i].base \in Nat /\ frames[i].left \in Nat
         /\ StopInv(frames[i]) /\ frames # <<>> /\ hot > 0
<1>1. frames[i] \in Frames
  BY DEF Core
<1>2. frames # <<>>
  OBVIOUS
<1> QED
  BY <1>1, <1>2 DEF Core, FrameInv, Frames

\* The pops in progress are still right when the stack has grown above them and
\* the tokens have grown or stayed.
LEMMA StopsGrown ==
  ASSUME Core, Grown, NEW i \in 1..Len(frames)
  PROVE  \A x \in Positions : x = frames[i].stop => InStack(x)'
BY FrameFacts, InStackGrown DEF StopInv

\* At most one page beyond the hot page.
OneSpare == hot > 0 => Len(pages) <= hot + 1

LEMMA AutoreleaseKeeps ==
  ASSUME Core, NEW o \in Objects, Autorelease(o)
  PROVE  Core' /\ Len(pages') >= Len(pages) /\ (OneSpare => OneSpare')
<1>1. Grown
  <2>1. o \in Objects \cup {Boundary} /\ o # Boundary /\ AutoreleaseFast(o)
    BY DEF Autorelease
  <2>2. AddToHotPage(o) \/ AddToChild(o) \/ AddToNewPage(o) \/ AddToFirstPage(o)
    BY <2>1 DEF AutoreleaseFast, InstallPlaceholder
  <2>3. hot' # EmptyPoolPlaceholder
    BY <2>2, PagesFacts DEF AddToHotPage, AddToChild, AddToNewPage,
       AddToFirstPage, EmptyPoolPlaceholder, Core
  <2> QED  BY <2>1, <2>3, AddGrows DEF Core
<1>2. tokens' = tokens /\ frames' = frames
  BY DEF Autorelease
<1>3. TokenInv'
  <2>1. hot' # NoPage
    BY <1>1 DEF Grown, NoPage
  <2>2. \A x \in Positions, i \in 1..Len(tokens) : x = tokens[i] =>
          IF x = PlaceholderToken THEN i = 1 /\ IsBoundary(Begin)' ELSE IsBoundary(x)'
    BY <1>1, TokensGrown
  <2>3. \A i \in 1..Len(tokens) : tokens[i] \in Positions
    BY DEF Core
  <2>4. TokensLive'
    BY <1>2, <2>2, <2>3 DEF TokensLive, IsBoundary, PlaceholderToken, Begin
  <2> QED  BY <1>2, <2>1, <2>4 DEF Core, TokenInv, Stop, PlaceholderToken, Begin
<1>4. FrameInv'
  <2>1. frames # <<>> => hot > 0 /\ hot' > 0
    BY <1>1, NextPagesFacts DEF Core, FrameInv, Grown
  <2>2. ASSUME NEW i \in 1..Len(frames) PROVE StopInv(frames[i])'
    BY <1>1, <1>2, FrameFacts, StopsGrown
       DEF StopInv, InStack, Stop, PlaceholderToken, Begin
  <2> QED  BY <1>2, <2>1, <2>2 DEF Core, FrameInv, Top, Begin
<1> QED
  BY <1>1, <1>2, <1>3, <1>4, PagesFacts DEF Core, Grown, OneSpare

LEMMA PushKeeps ==
  ASSUME Core, Push
  PROVE  Core' /\ Len(pages') >= Len(pages) /\ (OneSpare => OneSpare')
<1>1. frames' = frames /\ (frames # <<>> => Top.running)
  BY DEF Push, MayCall, ProgramRuns
<1>2. Boundary \in Objects \cup {Boundary} /\ AutoreleaseFast(Boundary)
  BY DEF Push
<1>3. CASE hot' = EmptyPoolPlaceholder
  <2>1. InstallPlaceholder(Boundary)
    BY <1>2, <1>3, PagesFacts DEF AutoreleaseFast, AddToHotPage, AddToChild,
       AddToNewPage, AddToFirstPage, EmptyPoolPlaceholder, Core
  <2>2. hot = NoPage /\ pages' = pages /\ tokens = <<>> /\ frames = <<>>
    BY <2>1 DEF InstallPlaceholder, Core, TokenInv, FrameInv, NoPage
  <2>3. tokens' = <<PlaceholderToken>>
    BY <1>3, <2>2 DEF Push
  <2>4. PagesOK' /\ OneStack'
    BY <1>3, <2>2 DEF Core, PagesOK, OneStack, Full, Empty, NoPage, EmptyPoolPlaceholder
  <2>5. tokens' \in Seq(Positions) /\ TokenInv'
    BY <1>3, <2>3, PositionFacts DEF TokenInv, TokensLive, NoPage,
       EmptyPoolPlaceholder, PlaceholderToken
  <2>6. FrameInv'
    BY <1>1, <2>2 DEF FrameInv
  <2>7. Len(pages') >= Len(pages) /\ OneSpare'
    BY <1>3, <2>2, PagesFacts DEF OneSpare, EmptyPoolPlaceholder, Core
  <2> QED  BY <1>1, <2>2, <2>4, <2>5, <2>6, <2>7 DEF Core
<1>4. CASE hot' # EmptyPoolPlaceholder
  <2>1. Grown /\ Pushed
    BY <1>2, <1>4, AddGrows DEF Core
  <2>2. hot' \in Nat /\ hot' >= 1 /\ hot' \in 1..Len(pages') /\ Len(pages'[hot']) \in Nat
    BY <2>1, NextPagesFacts DEF Grown
  <2>3. PICK new \in Positions : new = Position(hot', Len(pages'[hot']))
    BY <2>2, PositionFacts
  <2>4. new.page = hot' /\ new.slot = Len(pages'[hot']) /\ new # PlaceholderToken
    BY <2>2, <2>3, PositionFacts
  <2>5. IsBoundary(new)'
    BY <2>1, <2>3 DEF Pushed
  <2>6. tokens' = Append(tokens, new)
    BY <1>4, <2>3 DEF Push
  <2>7. /\ tokens' \in Seq(Positions) /\ Len(tokens) \in Nat /\ Len(tokens') = Len(tokens) + 1
        /\ \A i \in 1..Len(tokens) : tokens'[i] = tokens[i] /\ tokens[i] \in Positions
        /\ tokens'[Len(tokens) + 1] = new
    BY <2>6, AppendProperties DEF Core
  <2>8. ASSUME NEW i \in 1..Len(tokens) PROVE Before(Stop(tokens[i]), new)
    <3>1. CASE hot > 0
      <4>1. IsBoundary(Stop(tokens[i])) /\ Stop(tokens[i]) \in Positions
        BY <3>1, StopIsBoundary, PositionFacts
      <4>2. new.page > hot \/ (new.page = hot /\ new.slot = Len(pages[hot]) + 1)
        BY <2>1, <2>4, <3>1 DEF Pushed
      <4> QED  BY <4>1, <4>2, BoundaryBelow
    <3>2. CASE hot <= 0
      <4>1. hot = EmptyPoolPlaceholder /\ pages = <<>>
        BY <3>2 DEF Core, TokenInv, PagesOK, NoPage, EmptyPoolPlaceholder
      <4>2. tokens[i] = PlaceholderToken
        BY <4>1 DEF Core, TokenInv, TokensLive, IsBoundary
      <4>3. Stop(tokens[i]) = Begin /\ new.page = 1 /\ new.slot = 2
        BY <2>1, <2>4, <4>1, <4>2 DEF Grown, Stop
      <4> QED  BY <4>3, PositionFacts DEF Before
    <3> QED  BY <3>1, <3>2, PagesFacts DEF Core
  <2>9. TokenInv'
    <3>1. hot' # NoPage
      BY <2>2 DEF NoPage
    <3>2. \A x \in Positions, i \in 1..Len(tokens) : x = tokens[i] =>
            IF x = PlaceholderToken THEN i = 1 /\ IsBoundary(Begin)' ELSE IsBoundary(x)'
      BY <2>1, TokensGrown
    <3>3. TokensLive'
      <4> SUFFICES ASSUME NEW i \in 1..Len(tokens')
                   PROVE  IF tokens'[i] = PlaceholderToken
                            THEN i = 1 /\ IsBoundary(Begin)' ELSE IsBoundary(tokens[i])'
        BY DEF TokensLive, PlaceholderToken, Begin, IsBoundary
      <4>1. CASE i \in 1..Len(tokens)
        BY <2>7, <3>2, <4>1 DEF IsBoundary
      <4>2. CASE i = Len(tokens) + 1
        BY <2>4, <2>5, <2>7, <4>2 DEF IsBoundary
      <4> QED  BY <2>7, <4>1, <4>2
    <3>4. ASSUME NEW i \in 1..Len(tokens'), NEW j \in 1..Len(tokens'), i < j
          PROVE  Before(Stop(tokens'[i]), Stop(tokens'[j]))
      <4>1. CASE j \in 1..Len(tokens)
        BY <2>7, <3>4, <4>1 DEF Core, TokenInv
      <4>2. CASE j = Len(tokens) + 1
        <5>1. i \in 1..Len(tokens) /\ Stop(new) = new
          BY <2>4, <2>7, <3>4, <4>2 DEF Stop
        <5> QED  BY <2>7, <2>8, <4>2, <5>1
      <4> QED  BY <2>7, <4>1, <4>2
    <3> QED  BY <3>1, <3>3, <3>4 DEF TokenInv, Stop, PlaceholderToken, Begin, Before
  <2>10. ASSUME NEW i \in 1..Len(frames) PROVE StopInv(frames[i])'
    <3>1. /\ frames[i].stop \in Positions /\ StopInv(frames[i]) /\ hot > 0
          /\ frames[i].base \in Nat
      BY FrameFacts
    <3>2. PICK x \in Positions : x = frames[i].stop
      BY <3>1
    <3>3. InStack(x)' /\ InStack(x)
      BY <2>1, <3>1, <3>2, StopsGrown DEF StopInv
    <3>4. AtOrBefore(x, new)
      <4>1. x.page \in Nat /\ x.slot \in Nat /\ hot \in Int /\ hot' \in Int
        BY <2>2, PositionFacts, PagesFacts DEF Core
      <4>2. hot' > hot \/ (hot' = hot /\ new.slot = Len(pages[hot]) + 1)
        BY <2>1, <2>4, <3>1 DEF Pushed
      <4>3. x.page < hot \/ (x.page = hot /\ x.slot <= Len(pages[hot]) + 1)
        BY <3>3 DEF InStack
      <4> QED  BY <2>4, <4>1, <4>2, <4>3 DEF AtOrBefore
    <3>5. ASSUME NEW j \in 1..Len(tokens')
          PROVE  IF j <= frames[i].base THEN Before(Stop(tokens'[j]), x)
                 ELSE tokens'[j] # PlaceholderToken /\ AtOrBefore(x, tokens'[j])
      <4>1. CASE j \in 1..Len(tokens)
        BY <2>7, <3>1, <3>2, <4>1 DEF StopInv
      <4>2. CASE j = Len(tokens) + 1
        <5>1. ~(j <= frames[i].base)
          BY <2>7, <3>1, <4>2 DEF StopInv
        <5> QED  BY <2>4, <2>7, <3>4, <4>2, <5>1
      <4> QED  BY <2>7, <4>1, <4>2
    <3>6. frames[i].base <= Len(tokens')
      BY <2>7, <3>1 DEF StopInv
    <3> QED  BY <1>1, <3>2, <3>3, <3>5, <3>6
             DEF StopInv, InStack, Stop, PlaceholderToken, Begin, Before, AtOrBefore
  <2>11. FrameInv'
    <3>1. hot' > 0
      BY <2>2
    <3> QED  BY <1>1, <2>10, <3>1 DEF Core, FrameInv, Top, Begin, AtOrBefore
  <2>12. Len(pages') >= Len(pages) /\ (OneSpare => OneSpare')
    BY <2>1, PagesFacts DEF Core, Grown, OneSpare
  <2> QED  BY <1>1, <2>1, <2>7, <2>9, <2>11, <2>12 DEF Core, Grown
<1> QED
  BY <1>3, <1>4

-----------------------------------------------------------------------------
(***************************************************************************)
(* Pops                                                                    *)
(***************************************************************************)

\* Dropping the youngest tokens keeps what is true of the others.
LEMMA FewerTokens ==
  ASSUME Core, NEW n \in 0..Len(tokens), tokens' = SubSeq(tokens, 1, n),
         pages' = pages, hot' = hot
  PROVE  /\ tokens' \in Seq(Positions) /\ Len(tokens') = n
         /\ \A j \in 1..n : j \in 1..Len(tokens) /\ tokens'[j] = tokens[j]
         /\ TokenInv'
         /\ \A f \in Frames : StopInv(f) /\ f.base <= n => StopInv(f)'
<1>1. /\ tokens' \in Seq(Positions) /\ Len(tokens') = n /\ Len(tokens) \in Nat
      /\ \A j \in 1..n : j \in 1..Len(tokens) /\ tokens'[j] = tokens[j]
  BY SubSeqProperties DEF Core
<1>2. TokensLive'
  BY <1>1 DEF Core, TokenInv, TokensLive, IsBoundary, PlaceholderToken, Begin
<1>3. \A i, j \in 1..Len(tokens') :
        i < j => Before(Stop(tokens'[i]), Stop(tokens'[j]))
  BY <1>1 DEF Core, TokenInv
<1>4. hot' = NoPage => tokens' = <<>>
  BY <1>1 DEF Core, TokenInv
<1>5. TokenInv'
  BY <1>2, <1>3, <1>4 DEF TokenInv, Stop, Before, PlaceholderToken, Begin
<1>6. ASSUME NEW f \in Frames, StopInv(f), f.base <= n PROVE StopInv(f)'
  <2>1. InStack(f.stop)' /\ f.base <= Len(tokens')
    BY <1>1, <1>6 DEF StopInv, InStack
  <2>2. \A j \in 1..Len(tokens') :
          IF j <= f.base THEN Before(Stop(tokens'[j]), f.stop)
          ELSE tokens'[j] # PlaceholderToken /\ AtOrBefore(f.stop, tokens'[j])
    BY <1>1, <1>6 DEF StopInv
  <2> QED  BY <2>1, <2>2 DEF StopInv, Stop, PlaceholderToken, Begin, Before, AtOrBefore
<1> QED
  BY <1>1, <1>5, <1>6

LEMMA TopFacts ==
  ASSUME Core, frames # <<>>
  PROVE  /\ Len(frames) \in 1..Len(frames) /\ Len(frames) \in Nat \ {0}
         /\ Top \in Frames /\ StopInv(Top)
         /\ Top.stop \in Positions /\ Top.base \in 0..Len(tokens) /\ hot > 0
         /\ hot \in 1..Len(pages) /\ Top.left \in Nat /\ Top.entry \in Positions
<1>1. Len(frames) \in 1..Len(frames) /\ Len(frames) \in Nat \ {0}
  BY EmptySeq, LenProperties DEF Core
<1>2. Top \in Frames /\ StopInv(Top) /\ hot > 0
  BY <1>1, FrameFacts DEF Top
<1>3. Top.stop \in Positions /\ Top.base \in Nat /\ Top.left \in Nat /\ Top.entry \in Positions
  BY <1>2 DEF Frames
<1>4. Len(tokens) \in Nat /\ Top.base <= Len(tokens)
  BY <1>2, LenProperties DEF StopInv, Core
<1> QED
  BY <1>1, <1>2, <1>3, <1>4, PagesFacts DEF Core

LEMMA PopPlaceholderKeeps ==
  ASSUME Core, NEW i \in 1..Len(tokens), PopPlaceholder(i)
  PROVE  Core' /\ pages' = pages /\ hot' = NoPage
<1>1. tokens[i] = PlaceholderToken /\ i = 1 /\ frames = <<>> /\ pages = <<>>
  BY DEF PopPlaceholder, Core, TokenInv, TokensLive, FrameInv, NoPage, PagesOK
<1>2. tokens' = <<>> /\ hot' = NoPage /\ pages' = <<>> /\ frames' = <<>>
  BY <1>1 DEF PopPlaceholder, MayPop
<1> QED
  BY <1>1, <1>2 DEF Core, PagesOK, OneStack, TokenInv, TokensLive, FrameInv,
     NoPage, EmptyPoolPlaceholder

\* badPop() is never called, and a pop starts with its stop in the stack.
LEMMA StartPopKeeps ==
  ASSUME Core, NEW i \in 1..Len(tokens), StartPop(i)
  PROVE  Core' /\ pages' = pages /\ hot' = hot /\ frames' # <<>>
<1>1. tokens[i] \in Positions /\ i \in Base + 1..Len(tokens) /\ Len(tokens) \in Nat
  BY DEF StartPop, MayPop, Core
<1>2. hot > 0
  <2> SUFFICES ASSUME hot <= 0 PROVE FALSE
    BY PagesFacts DEF Core
  <2>1. pages = <<>> /\ tokens[i] # PlaceholderToken
    BY DEF StartPop, NoPage, Core, PagesOK
  <2> QED  BY <2>1 DEF Core, TokenInv, TokensLive, IsBoundary
<1>3. PICK stop \in Positions : stop = Stop(tokens[i])
  BY <1>1, PositionFacts
<1>4. IsBoundary(stop) /\ stop.page <= hot /\ hot \in Nat
  BY <1>2, <1>3, StopIsBoundary, PagesFacts DEF Core
<1>5. PICK f \in Frames : f = Frame(stop, i - 1, FALSE)
  <2>1. i - 1 \in Nat
    OBVIOUS
  <2> QED  BY <2>1 DEF Frame, Frames
<1>6. frames' = Append(frames, f) /\ pages' = pages /\ hot' = hot
      /\ tokens' = SubSeq(tokens, 1, i - 1)
  BY <1>3, <1>4, <1>5 DEF StartPop, MayPop, BadPop
<1>7. f.stop = stop /\ f.base = i - 1 /\ f.exit = FALSE /\ f.running = FALSE
  BY <1>5 DEF Frame
<1>8. /\ frames' \in Seq(Frames) /\ Len(frames') = Len(frames) + 1 /\ Len(frames) \in Nat
      /\ \A k \in 1..Len(frames) : frames'[k] = frames[k]
      /\ frames'[Len(frames) + 1] = f
  BY <1>6, AppendProperties DEF Core
<1>9. /\ tokens' \in Seq(Positions) /\ Len(tokens') = i - 1
      /\ \A j \in 1..i - 1 : j \in 1..Len(tokens) /\ tokens'[j] = tokens[j]
      /\ TokenInv'
      /\ \A g \in Frames : StopInv(g) /\ g.base <= i - 1 => StopInv(g)'
  <2>1. i - 1 \in 0..Len(tokens)
    BY <1>1
  <2> QED  BY <1>6, <2>1, FewerTokens
<1>10. \A k \in 1..Len(frames) :
         /\ frames[k].base < i /\ AtOrBefore(frames[k].stop, stop)
         /\ frames[k].running
  <2> SUFFICES ASSUME NEW k \in 1..Len(frames)
               PROVE  /\ frames[k].base < i /\ AtOrBefore(frames[k].stop, stop)
                      /\ frames[k].running
    OBVIOUS
  <2>1. frames # <<>> /\ Base = Top.base /\ Len(frames) \in 1..Len(frames) /\ Top.running
    BY DEF Base, StartPop, MayPop, ProgramRuns
  <2>2. frames[k].base <= Top.base /\ Top.base \in Nat /\ frames[k].base \in Nat
    BY <2>1, TopFacts, FrameFacts DEF Core, FrameInv, Top
  <2>3. frames[k].base < i
    BY <1>1, <2>1, <2>2
  <2>4. AtOrBefore(frames[k].stop, stop)
    BY <1>3, <2>3, FrameFacts DEF StopInv, Stop
  <2>5. frames[k].running
    BY <2>1 DEF Core, FrameInv, Top
  <2> QED  BY <2>3, <2>4, <2>5
<1>11. StopInv(f)'
  <2>1. InStack(stop)
    <3>1. stop.page \in 1..Len(pages) /\ stop.slot \in 1..Len(pages[stop.page])
      BY <1>4 DEF IsBoundary
    <3>2. Len(pages[stop.page]) \in 0..PageSize
      BY <3>1, PagesFacts DEF Core
    <3> QED  BY <1>4, <3>1, <3>2 DEF InStack
  <2>2. \A j \in 1..i - 1 : Before(Stop(tokens[j]), stop)
    BY <1>1, <1>3 DEF Core, TokenInv
  <2>3. InStack(f.stop)'
    BY <1>6, <1>7, <2>1 DEF InStack
  <2>4. \A j \in 1..Len(tokens') : j <= f.base /\ Before(Stop(tokens'[j]), f.stop)
    BY <1>1, <1>7, <1>9, <2>2
  <2>5. f.base <= Len(tokens')
    BY <1>1, <1>7, <1>9
  <2> QED  BY <2>3, <2>4, <2>5 DEF StopInv, Stop, PlaceholderToken, Begin, Before
<1>12. \A k \in 1..Len(frames) : StopInv(frames[k])'
  <2> SUFFICES ASSUME NEW k \in 1..Len(frames) PROVE StopInv(frames[k])'
    OBVIOUS
  <2>1. PICK g \in Frames : g = frames[k]
    BY FrameFacts
  <2>2. StopInv(g) /\ g.base <= i - 1 /\ g = frames'[k]
    BY <1>1, <1>8, <1>10, <2>1, FrameFacts
  <2>3. StopInv(g)'
    BY <1>9, <2>2
  <2> QED  BY <1>8, <2>2, <2>3 DEF StopInv, InStack, Before, AtOrBefore, Stop
<1>13. FrameInv'
  <2>1. ASSUME NEW k \in 1..Len(frames')
        PROVE  /\ StopInv(frames[k])'
               /\ frames'[k].exit => k = 1 /\ frames'[k].base = 0 /\ frames'[k].stop = Begin
               /\ k < Len(frames') => frames'[k].running
    <3>1. CASE k \in 1..Len(frames)
      BY <1>8, <1>10, <1>12, <3>1 DEF Core, FrameInv
    <3>2. CASE k = Len(frames) + 1
      BY <1>7, <1>8, <1>11, <3>2 DEF StopInv, InStack
    <3> QED  BY <1>8, <3>1, <3>2
  <2>2. ASSUME NEW j \in 1..Len(frames'), NEW k \in 1..Len(frames'), j <= k
        PROVE  /\ AtOrBefore(frames'[j].stop, frames'[k].stop)
               /\ frames'[j].base <= frames'[k].base
    <3>1. CASE k \in 1..Len(frames)
      BY <1>8, <2>2, <3>1 DEF Core, FrameInv
    <3>2. CASE k = Len(frames) + 1 /\ j \in 1..Len(frames)
      BY <1>1, <1>7, <1>8, <1>10, <3>2, FrameFacts
    <3>3. CASE k = Len(frames) + 1 /\ j = k
      BY <1>3, <1>1, <1>7, <1>8, <3>3, PositionFacts DEF AtOrBefore
    <3> QED  BY <1>8, <2>2, <3>1, <3>2, <3>3
  <2>3. Top' = f /\ Len(tokens') <= Top'.base
    BY <1>1, <1>7, <1>8, <1>9 DEF Top
  <2> QED  BY <1>2, <1>6, <2>1, <2>2, <2>3 DEF FrameInv, Begin, AtOrBefore
<1>14. frames' # <<>>
  BY <1>8
<1> QED
  BY <1>6, <1>8, <1>9, <1>13, <1>14 DEF Core, PagesOK, OneStack, Full, Empty

\* The top frame of frames is replaced by one of the same pop.
LEMMA TopReplaced ==
  ASSUME Core, frames # <<>>, NEW f \in Frames, SetTop(f), PagesOK', OneStack',
         hot' > 0, tokens' \in Seq(Positions), TokenInv',
         f.stop = Top.stop, f.base = Top.base, f.exit = Top.exit,
         \A i \in 1..Len(frames) : \A g \in Frames : g = frames[i] => StopInv(g)',
         ~f.running => Len(tokens') <= f.base
  PROVE  Core'
<1>1. Len(frames) \in 1..Len(frames) /\ Len(frames) \in Nat
  BY TopFacts
<1>2. /\ frames' \in Seq(Frames) /\ Len(frames') = Len(frames)
      /\ \A i \in 1..Len(frames) : frames'[i] = IF i = Len(frames) THEN f ELSE frames[i]
  BY ExceptSeq DEF SetTop, Core
<1>3. \A i \in 1..Len(frames) :
        /\ frames'[i].stop = frames[i].stop /\ frames'[i].base = frames[i].base
        /\ frames'[i].exit = frames[i].exit
        /\ i < Len(frames) => frames'[i].running = frames[i].running
  BY <1>1, <1>2 DEF Top
<1>4. ASSUME NEW i \in 1..Len(frames) PROVE StopInv(frames[i])'
  <2>1. PICK g \in Frames : g = frames[i]
    BY FrameFacts
  <2>2. StopInv(g)' /\ g.stop = frames'[i].stop /\ g.base = frames'[i].base
    BY <1>3, <2>1
  <2> QED  BY <2>2 DEF StopInv, InStack, Before, AtOrBefore, Stop
<1>5. Top' = f
  BY <1>1, <1>2 DEF Top
<1>6. ASSUME NEW i \in 1..Len(frames)
      PROVE  /\ frames'[i].exit => i = 1 /\ frames'[i].base = 0 /\ frames'[i].stop = Begin
             /\ i < Len(frames) => frames'[i].running
  BY <1>3 DEF Core, FrameInv
<1>7. ASSUME NEW i \in 1..Len(frames), NEW k \in 1..Len(frames), i <= k
      PROVE  /\ AtOrBefore(frames'[i].stop, frames'[k].stop)
             /\ frames'[i].base <= frames'[k].base
  BY <1>3, <1>7 DEF Core, FrameInv, AtOrBefore
<1>8. FrameInv'
  BY <1>2, <1>4, <1>5, <1>6, <1>7 DEF FrameInv, Begin, AtOrBefore
<1> QED
  BY <1>2, <1>8 DEF Core

LEMMA SameStops ==
  ASSUME Core, pages' = pages, hot' = hot, tokens' = tokens, NEW i \in 1..Len(frames)
  PROVE  \A g \in Frames : g = frames[i] => StopInv(g)'
BY FrameFacts DEF StopInv, InStack, Before, AtOrBefore, Stop, PlaceholderToken, Begin

LEMMA ReleaseKeeps ==
  ASSUME Core, Release
  PROVE  Core' /\ pages' = pages /\ hot' = hot /\ frames' # <<>>
<1>1. PICK f \in Frames : f = [Top EXCEPT !.left = @ - 1, !.running = TRUE]
  <2>1. Top \in Frames /\ Top.left \in Nat /\ Top.left > 0
    BY TopFacts DEF Release
  <2>2. Top.left - 1 \in Nat
    BY <2>1
  <2>3. [Top EXCEPT !.left = @ - 1, !.running = TRUE] \in Frames
    BY <2>1, <2>2 DEF Frames
  <2> QED  BY <2>3
<1>2. /\ f.stop = Top.stop /\ f.base = Top.base /\ f.exit = Top.exit /\ f.running
      /\ SetTop(f) /\ frames # <<>> /\ pages' = pages /\ hot' = hot /\ tokens' = tokens
  BY <1>1, TopFacts DEF Release, Frames
<1>3. /\ PagesOK' /\ OneStack' /\ tokens' \in Seq(Positions) /\ TokenInv' /\ hot' > 0
  BY <1>2, TopFacts DEF Core, PagesOK, OneStack, Full, Empty, TokenInv, TokensLive,
     IsBoundary, Stop, PlaceholderToken, Begin, Before
<1>4. Core'
  BY <1>2, <1>3, SameStops, TopReplaced
<1>5. frames' # <<>>
  BY <1>2, TopFacts, ExceptSeq DEF SetTop, Core
<1> QED
  BY <1>2, <1>4, <1>5

LEMMA ReleaseReturnsKeeps ==
  ASSUME Core, ReleaseReturns
  PROVE  Core' /\ pages' = pages /\ hot' = hot /\ frames' # <<>>
<1>1. PICK f \in Frames : f = [Top EXCEPT !.running = FALSE]
  BY TopFacts DEF ReleaseReturns, Frames
<1>2. /\ f.stop = Top.stop /\ f.base = Top.base /\ f.exit = Top.exit
      /\ SetTop(f) /\ frames # <<>> /\ pages' = pages /\ hot' = hot
      /\ tokens' = SubSeq(tokens, 1, Top.base)
  BY <1>1, TopFacts DEF ReleaseReturns, Frames
<1>3. PICK n \in 0..Len(tokens) : n = Top.base
  BY <1>2, TopFacts
<1>4. /\ tokens' \in Seq(Positions) /\ TokenInv' /\ Len(tokens') = f.base
      /\ \A g \in Frames : StopInv(g) /\ g.base <= n => StopInv(g)'
  BY <1>2, <1>3, FewerTokens
<1>5. PagesOK' /\ OneStack' /\ hot' > 0
  BY <1>2, TopFacts DEF Core, PagesOK, OneStack, Full, Empty
<1>6. \A i \in 1..Len(frames) : \A g \in Frames : g = frames[i] => StopInv(g)'
  <2> SUFFICES ASSUME NEW i \in 1..Len(frames), NEW g \in Frames, g = frames[i]
               PROVE  StopInv(g)'
    OBVIOUS
  <2>1. Len(frames) \in 1..Len(frames) /\ i <= Len(frames)
    BY <1>2, TopFacts
  <2>2. StopInv(g) /\ g.base <= n
    BY <1>3, <2>1, FrameFacts DEF Core, FrameInv, Top
  <2> QED  BY <1>4, <2>2
<1>7. f.base \in Nat
  BY <1>2, TopFacts
<1>8. Core'
  BY <1>2, <1>4, <1>5, <1>6, <1>7, TopReplaced
<1>9. frames' # <<>>
  BY <1>2, TopFacts, ExceptSeq DEF SetTop, Core
<1> QED
  BY <1>2, <1>8, <1>9

\* The page that releaseUntil walks up to is the hot page or, if that is
\* empty, its parent; the entry it takes lies at or above the stop.
LEMMA WalkFacts ==
  ASSUME Core, Releasing, ~Reached(Top), NEW p \in 1..hot, WalkUp(p)
  PROVE  /\ p \in 1..Len(pages) /\ hot \in Nat /\ Len(pages[p]) \in 1..PageSize
         /\ p = hot \/ (p = hot - 1 /\ Empty(hot) /\ Len(pages[p]) = PageSize)
         /\ \/ Top.stop.page < p
            \/ Top.stop.page = p /\ Top.stop.slot <= Len(pages[p])
<1>1. hot \in 1..Len(pages) /\ Top.stop \in Positions /\ StopInv(Top)
  BY TopFacts DEF Releasing
<1>2. p \in 1..Len(pages) /\ hot \in Nat /\ Len(pages) \in Nat
      /\ Len(pages[p]) \in 0..PageSize /\ Len(pages[hot]) \in 0..PageSize
      /\ (pages[p] = <<>> <=> Len(pages[p]) = 0)
      /\ (pages[hot] = <<>> <=> Len(pages[hot]) = 0)
  BY <1>1, PagesFacts DEF Core
<1>3. Len(pages[p]) > 0
  BY <1>2 DEF WalkUp, Empty
<1>4. p = hot \/ (p = hot - 1 /\ Empty(hot) /\ Len(pages[p]) = PageSize)
  <2> SUFFICES ASSUME p # hot PROVE p = hot - 1 /\ Empty(hot) /\ Len(pages[p]) = PageSize
    OBVIOUS
  <2>1. p < hot /\ Len(pages[p]) = PageSize
    BY <1>2 DEF Core, OneStack, Full
  <2>2. Empty(hot)
    BY <1>2, <2>1 DEF WalkUp
  <2>3. CASE p < hot - 1
    <3>1. hot - 1 \in p + 1..hot /\ hot - 1 \in 1..Len(pages) /\ hot - 1 < hot
      BY <1>1, <1>2, <2>3
    <3>2. Empty(hot - 1) /\ Full(hot - 1)
      BY <3>1 DEF WalkUp, Core, OneStack
    <3> QED  BY <3>1, <3>2 DEF Empty, Full
  <2> QED  BY <1>2, <2>1, <2>2, <2>3
<1>5. /\ Top.stop.page \in Nat /\ Top.stop.slot \in 1..PageSize /\ Top.stop.page >= 1
      /\ \/ Top.stop.page < hot
         \/ Top.stop.page = hot /\ Top.stop.slot <= Len(pages[hot]) + 1
  BY <1>1, PositionFacts DEF StopInv, InStack
<1>6. \/ Top.stop.page < hot
      \/ Top.stop.page = hot /\ Top.stop.slot <= Len(pages[hot]) /\ Len(pages[hot]) > 0
  <2> SUFFICES ASSUME Top.stop.page = hot, Top.stop.slot <= Len(pages[hot]) + 1
               PROVE  Top.stop.slot <= Len(pages[hot]) /\ Len(pages[hot]) > 0
    BY <1>5
  <2>1. Len(pages[hot]) # Top.stop.slot - 1
    BY DEF Reached
  <2> QED  BY SMTT(30), <1>2, <1>5, <2>1
<1>7. \/ Top.stop.page < p
      \/ Top.stop.page = p /\ Top.stop.slot <= Len(pages[p])
  <2>1. CASE p = hot
    BY <1>6, <2>1
  <2>2. CASE p = hot - 1 /\ Empty(hot) /\ Len(pages[p]) = PageSize
    <3>1. Top.stop.page < hot
      BY <1>2, <1>6, <2>2 DEF Empty
    <3> QED  BY <1>2, <1>5, <2>2, <3>1
  <2> QED  BY <1>4, <2>1, <2>2
<1> QED
  BY <1>2, <1>3, <1>4, <1>7

LEMMA TakeEntryKeeps ==
  ASSUME Core, TakeEntry
  PROVE  Core' /\ Len(pages') = Len(pages) /\ frames' # <<>>
<1>1. PICK p \in 1..hot :
        /\ WalkUp(p) /\ hot' = p /\ pages' = [pages EXCEPT ![p] = Drop(@)]
        /\ SetTop([Top EXCEPT !.obj = pages[p][Len(pages[p])].obj,
                              !.left = Owed(pages[p][Len(pages[p])]),
                              !.entry = Position(p, Len(pages[p]))])
  BY DEF TakeEntry
<1>2. frames # <<>> /\ ~Top.running /\ ~Reached(Top) /\ Releasing /\ tokens' = tokens
  BY DEF TakeEntry, Releasing
<1>3. /\ p \in 1..Len(pages) /\ hot \in Nat /\ Len(pages[p]) \in 1..PageSize
      /\ p = hot \/ (p = hot - 1 /\ Empty(hot) /\ Len(pages[p]) = PageSize)
      /\ \/ Top.stop.page < p
         \/ Top.stop.page = p /\ Top.stop.slot <= Len(pages[p])
  BY <1>1, <1>2, WalkFacts
<1>4. PICK last \in Nat : last = Len(pages[p])
  BY <1>3
<1>5. PICK e \in Entries : e = pages[p][last]
  <2>1. pages[p] \in Seq(Entries)
    BY <1>3 DEF Core, PagesOK
  <2> QED  BY <1>3, <1>4, <2>1
<1>6. PICK new \in Seq(Entries) :
        /\ new = Drop(pages[p]) /\ Len(new) = last - 1
        /\ \A j \in 1..last - 1 : new[j] = pages[p][j]
  <2>1. pages[p] \in Seq(Entries)
    BY <1>3 DEF Core, PagesOK
  <2>2. /\ Drop(pages[p]) \in Seq(Entries) /\ Len(Drop(pages[p])) = last - 1
        /\ \A j \in 1..last - 1 : Drop(pages[p])[j] = pages[p][j]
    BY <1>3, <1>4, <2>1, SubSeqProperties DEF Drop
  <2> QED  BY <2>2
<1>7. /\ pages' \in Seq(Seq(Entries)) /\ Len(pages') = Len(pages)
      /\ \A q \in 1..Len(pages) : pages'[q] = IF q = p THEN new ELSE pages[q]
  <2>1. pages' = [pages EXCEPT ![p] = new] /\ pages \in Seq(Seq(Entries))
    BY <1>1, <1>6 DEF Core, PagesOK
  <2> QED  BY <1>3, <2>1, ExceptSeq
<1>8. PagesOK'
  <2>1. \A q \in 1..Len(pages') : Len(pages'[q]) <= PageSize
    <3> SUFFICES ASSUME NEW q \in 1..Len(pages) PROVE Len(pages'[q]) <= PageSize
      BY <1>7
    <3>1. Len(new) <= PageSize
      BY <1>3, <1>4, <1>6
    <3> QED  BY <1>7, <3>1 DEF Core, PagesOK
  <2>2. pages' # <<>> /\ hot' \in 1..Len(pages')
    BY <1>1, <1>3, <1>7
  <2> QED  BY <1>7, <2>1, <2>2 DEF PagesOK, EmptyPoolPlaceholder, NoPage
<1>9. OneStack'
  <2> SUFFICES ASSUME NEW q \in 1..Len(pages)
               PROVE  /\ q < p => Len(pages'[q]) = PageSize
                      /\ q > p => pages'[q] = <<>>
    BY <1>1, <1>7 DEF OneStack, Full, Empty
  <2>1. q < p => q < hot
    BY <1>3
  <2>2. q > p => q > hot \/ (q = hot /\ Empty(hot))
    BY <1>3
  <2> QED  BY <1>7, <2>1, <2>2 DEF Core, OneStack, Full, Empty
<1>10. hot' > 0 /\ hot' = p
  BY <1>1
<1>11. ASSUME NEW x \in Positions, InStack(x), AtOrBefore(x, Top.stop)
       PROVE  InStack(x)'
  <2>1. x.page \in Nat /\ x.slot \in Nat /\ Top.stop.page \in Nat /\ Top.stop.slot \in Nat
    BY <1>2, TopFacts, PositionFacts
  <2>2. x.page < p \/ (x.page = p /\ x.slot <= Len(pages[p]))
    <3>1. /\ Top.stop.page < p \/ (Top.stop.page = p /\ Top.stop.slot <= Len(pages[p]))
          /\ p \in Nat /\ Len(pages[p]) \in Nat
      BY <1>3
    <3>2. x.page < Top.stop.page \/ (x.page = Top.stop.page /\ x.slot <= Top.stop.slot)
      BY <1>11 DEF AtOrBefore
    <3> QED  BY ONLY <2>1, <3>1, <3>2
  <2>3. Len(pages'[p]) + 1 = Len(pages[p])
    BY <1>3, <1>4, <1>6, <1>7
  <2> QED  BY <1>10, <1>11, <2>2, <2>3 DEF InStack
<1>12. ASSUME NEW x \in Positions, IsBoundary(x), Before(x, Top.stop)
       PROVE  IsBoundary(x)'
  <2>1. x.page \in Nat /\ x.slot \in Nat /\ Top.stop.page \in Nat /\ Top.stop.slot \in Nat
    BY <1>2, TopFacts, PositionFacts
  <2>2. x.page < p \/ (x.page = p /\ x.slot < Len(pages[p]))
    BY SMTT(30), <1>3, <1>12, <2>1 DEF Before
  <2>3. x.page \in 1..Len(pages) /\ x.slot \in 1..Len(pages[x.page])
        /\ pages[x.page][x.slot].obj = Boundary
    BY <1>12 DEF IsBoundary
  <2>4. CASE x.page = p
    <3>1. x.slot \in 1..last - 1 /\ pages'[p] = new
      BY <1>3, <1>4, <1>7, <2>2, <2>3, <2>4
    <3> QED  BY <1>6, <1>7, <2>3, <2>4, <3>1 DEF IsBoundary
  <2>5. CASE x.page # p
    BY <1>7, <2>3, <2>5 DEF IsBoundary
  <2> QED  BY <2>4, <2>5
<1>13. ASSUME NEW j \in 1..Len(tokens) PROVE Before(Stop(tokens[j]), Top.stop)
  <2>1. Len(tokens) <= Top.base /\ Top.base \in Nat /\ StopInv(Top)
    <3>1. Len(tokens) <= Top.base
      BY <1>2 DEF Core, FrameInv
    <3> QED  BY <1>2, <3>1, TopFacts
  <2>2. j <= Top.base
    BY <2>1, LenProperties DEF Core
  <2> QED  BY <2>1, <2>2 DEF StopInv
<1>14. TokenInv'
  <2>1. \A j \in 1..Len(tokens) : \A x \in Positions :
          x = Stop(tokens[j]) => IsBoundary(x)'
    BY <1>2, <1>12, <1>13, StopIsBoundary, TopFacts
  <2>2. \A j \in 1..Len(tokens) : tokens[j] \in Positions
    BY DEF Core
  <2>3. TokensLive'
    <3> SUFFICES ASSUME NEW j \in 1..Len(tokens)
                 PROVE  IF tokens[j] = PlaceholderToken
                          THEN j = 1 /\ IsBoundary(Begin)'
                          ELSE \A x \in Positions : x = tokens[j] => IsBoundary(x)'
      BY <1>2, <2>2 DEF TokensLive, PlaceholderToken, Begin, IsBoundary
    <3> QED  BY <2>1, PositionFacts DEF Stop, Core, TokenInv, TokensLive
  <2> QED  BY <1>2, <1>10, <2>3 DEF Core, TokenInv, NoPage, Before, Stop, PlaceholderToken, Begin
<1>15. PICK f \in Frames :
         f = [Top EXCEPT !.obj = e.obj, !.left = Owed(e), !.entry = Position(p, last)]
  <2>1. Owed(e) \in Nat /\ e.obj \in Objects \cup {Boundary}
    BY DEF Owed, Entries
  <2>2. Position(p, last) \in Positions /\ Top \in Frames
    <3>1. p \in Nat
      BY <1>3
    <3> QED  BY <1>2, <3>1, PositionFacts, TopFacts
  <2> QED  BY <2>1, <2>2 DEF Frames
<1>16. /\ SetTop(f) /\ f.stop = Top.stop /\ f.base = Top.base /\ f.exit = Top.exit
       /\ f.running = FALSE
  <2>1. Top \in Frames
    BY <1>2, TopFacts
  <2> QED  BY <1>1, <1>2, <1>4, <1>5, <1>15, <2>1 DEF Frames
<1>17. \A i \in 1..Len(frames) : \A g \in Frames : g = frames[i] => StopInv(g)'
  <2> SUFFICES ASSUME NEW i \in 1..Len(frames), NEW g \in Frames, g = frames[i]
               PROVE  StopInv(g)'
    OBVIOUS
  <2>1. StopInv(g) /\ g.stop \in Positions
    BY FrameFacts
  <2>2. AtOrBefore(g.stop, Top.stop)
    <3>1. Len(frames) \in 1..Len(frames) /\ i <= Len(frames)
      BY <1>2, TopFacts
    <3> QED  BY <3>1 DEF Core, FrameInv, Top
  <2>3. PICK x \in Positions : x = g.stop
    BY <2>1
  <2>4. InStack(x)'
    BY <1>11, <2>1, <2>2, <2>3 DEF StopInv
  <2> QED  BY <1>2, <2>1, <2>3, <2>4
           DEF StopInv, InStack, Before, AtOrBefore, Stop, PlaceholderToken, Begin
<1>18. Len(tokens') <= f.base
  BY <1>2, <1>16 DEF Core, FrameInv
<1>19. tokens' \in Seq(Positions)
  BY <1>2 DEF Core
<1>20. Core'
  BY <1>2, <1>8, <1>9, <1>10, <1>14, <1>16, <1>17, <1>18, <1>19, TopReplaced
<1>21. frames' # <<>>
  BY <1>2, <1>16, TopFacts, ExceptSeq DEF SetTop, Core
<1> QED
  BY <1>7, <1>20, <1>21

\* A page is freed when it is empty and lies beyond every stop.
PagesFreed ==
  \A p \in Len(pages') + 1..Len(pages) :
    Empty(p) /\ \A i \in 1..Len(frames') : frames'[i].stop.page < p

\* releaseUntil ends with the page of its stop as the hot page.
LEMMA ReachedIsHot ==
  ASSUME Core, Releasing, Reached(Top)
  PROVE  /\ Top.stop.page = hot /\ hot \in 1..Len(pages)
         /\ Len(pages[hot]) = Top.stop.slot - 1
<1>1. /\ hot \in 1..Len(pages) /\ Top.stop \in Positions /\ StopInv(Top)
  BY TopFacts DEF Releasing
<1>2. /\ Top.stop.page \in Nat /\ Top.stop.page >= 1 /\ Top.stop.slot \in 1..PageSize
      /\ Top.stop.page <= hot
  BY <1>1, PositionFacts DEF StopInv, InStack
<1>3. Len(pages[Top.stop.page]) = Top.stop.slot - 1
  BY DEF Reached
<1>4. ~(Top.stop.page < hot)
  <2>1. Len(pages[Top.stop.page]) # PageSize
    BY <1>2, <1>3
  <2>2. Top.stop.page \in 1..Len(pages)
    BY <1>1, <1>2
  <2> QED  BY <2>1, <2>2 DEF Core, OneStack, Full
<1> QED
  BY <1>1, <1>2, <1>3, <1>4

LEMMA PopPageKeeps ==
  ASSUME Core, PopPage
  PROVE  Core' /\ PagesFreed /\ Len(pages') <= hot' + 1
<1>1. /\ frames # <<>> /\ ~Top.running /\ Releasing /\ Reached(Top)
      /\ hot' = Top.stop.page /\ tokens' = tokens
      /\ pages' = SubSeq(pages, 1, Kept(Top.stop.page)) /\ frames' = Drop(frames)
  BY DEF PopPage, Releasing
<1>2. Top.stop.page = hot /\ hot' = hot /\ hot \in 1..Len(pages) /\ hot \in Nat
  BY <1>1, ReachedIsHot
<1>3. PICK n \in hot..Len(pages) : n = Kept(hot) /\ n <= hot + 1
  BY <1>2, PagesFacts DEF Kept, Core
<1>4. /\ pages' \in Seq(Seq(Entries)) /\ Len(pages') = n
      /\ \A q \in 1..n : q \in 1..Len(pages) /\ pages'[q] = pages[q]
  BY SMTT(30), <1>1, <1>2, <1>3, SubSeqProperties DEF Core, PagesOK
<1>5. /\ frames' \in Seq(Frames) /\ Len(frames') = Len(frames) - 1
      /\ \A i \in 1..Len(frames') :
           i \in 1..Len(frames) /\ i < Len(frames) /\ frames'[i] = frames[i]
  <2>1. Len(frames) \in Nat \ {0}
    BY <1>1, TopFacts
  <2>2. /\ Len(frames) - 1 \in 0..Len(frames) /\ frames \in Seq(Frames)
        /\ frames' = SubSeq(frames, 1, Len(frames) - 1)
    BY <1>1, <2>1 DEF Drop, Core
  <2>3. /\ frames' \in Seq(Frames) /\ Len(frames') = Len(frames) - 1
        /\ \A i \in 1..Len(frames) - 1 : frames'[i] = frames[i]
    <3>1. PICK m \in 0..Len(frames) : m = Len(frames) - 1
      BY <2>2
    <3>2. /\ SubSeq(frames, 1, m) \in Seq(Frames) /\ Len(SubSeq(frames, 1, m)) = m
          /\ \A i \in 1..m : SubSeq(frames, 1, m)[i] = frames[i]
      BY <2>2, SubSeqProperties
    <3> QED  BY <2>2, <3>1, <3>2
  <2> QED  BY <2>1, <2>3
<1>6. PagesOK' /\ OneStack'
  <2>1. \A q \in 1..Len(pages') : Len(pages'[q]) <= PageSize
    BY <1>4 DEF Core, PagesOK
  <2>2. hot' \in EmptyPoolPlaceholder..Len(pages') /\ pages' # <<>> /\ ~(hot' <= NoPage)
    BY <1>2, <1>3, <1>4 DEF EmptyPoolPlaceholder, NoPage
  <2>3. OneStack'
    BY <1>2, <1>4 DEF Core, OneStack, Full, Empty
  <2> QED  BY <1>4, <2>1, <2>2, <2>3 DEF PagesOK
<1>7. ASSUME NEW x \in Positions, IsBoundary(x) PROVE IsBoundary(x)'
  <2>1. x.page \in 1..Len(pages) /\ x.slot \in 1..Len(pages[x.page])
    BY <1>7 DEF IsBoundary
  <2>2. x.page <= hot
    BY <1>2, <2>1, PagesFacts DEF Core, OneStack, Empty
  <2>3. x.page \in 1..n
    BY <1>2, <1>3, <2>1, <2>2
  <2> QED  BY <1>4, <1>7, <2>3 DEF IsBoundary
<1>8. TokenInv'
  <2>1. TokensLive'
    <3> SUFFICES ASSUME NEW j \in 1..Len(tokens)
                 PROVE  IF tokens[j] = PlaceholderToken
                          THEN j = 1 /\ IsBoundary(Begin)'
                          ELSE \A x \in Positions : x = tokens[j] => IsBoundary(x)'
      <4>1. tokens' = tokens /\ \A j \in 1..Len(tokens) : tokens[j] \in Positions
        BY <1>1 DEF Core
      <4> QED  BY <4>1 DEF TokensLive, PlaceholderToken, Begin, IsBoundary
    <3>1. Begin \in Positions
      BY PositionFacts
    <3> QED  BY <1>2, <1>7, <3>1 DEF Core, TokenInv, TokensLive
  <2>2. hot' # NoPage
    BY <1>2 DEF NoPage
  <2> QED  BY <1>1, <2>1, <2>2 DEF Core, TokenInv, Before, Stop, PlaceholderToken, Begin
<1>9. \A i \in 1..Len(frames') : StopInv(frames[i])'
  <2> SUFFICES ASSUME NEW i \in 1..Len(frames') PROVE StopInv(frames[i])'
    OBVIOUS
  <2>1. pages'[hot] = pages[hot]
    BY <1>2, <1>3, <1>4
  <2>2. frames'[i] = frames[i] /\ StopInv(frames[i])
    BY <1>5, FrameFacts
  <2> QED  BY <1>1, <1>2, <2>1, <2>2
           DEF StopInv, InStack, Before, AtOrBefore, Stop, PlaceholderToken, Begin
<1>10. FrameInv'
  <2>1. hot' > 0
    BY <1>2
  <2>2. \A i \in 1..Len(frames') :
          /\ frames'[i].exit => i = 1 /\ frames'[i].base = 0 /\ frames'[i].stop = Begin
          /\ frames'[i].running
    BY <1>5 DEF Core, FrameInv
  <2>3. \A i, k \in 1..Len(frames') :
          i <= k => /\ AtOrBefore(frames'[i].stop, frames'[k].stop)
                    /\ frames'[i].base <= frames'[k].base
    <3> SUFFICES ASSUME NEW i \in 1..Len(frames'), NEW k \in 1..Len(frames'), i <= k
                 PROVE  /\ AtOrBefore(frames'[i].stop, frames'[k].stop)
                        /\ frames'[i].base <= frames'[k].base
      OBVIOUS
    <3>1. /\ i \in 1..Len(frames) /\ k \in 1..Len(frames)
          /\ frames'[i] = frames[i] /\ frames'[k] = frames[k]
      BY <1>5
    <3> QED  BY <3>1 DEF Core, FrameInv
  <2>4. frames' # <<>> => Top'.running
    <3> SUFFICES ASSUME frames' # <<>> PROVE Top'.running
      OBVIOUS
    <3>1. Len(frames') \in 1..Len(frames')
      BY <1>5, EmptySeq, LenProperties
    <3> QED  BY <2>2, <3>1 DEF Top
  <2> QED  BY <1>9, <2>1, <2>2, <2>3, <2>4 DEF FrameInv, Begin, AtOrBefore
<1>11. PagesFreed
  <2> SUFFICES ASSUME NEW p \in Len(pages') + 1..Len(pages)
               PROVE  Empty(p) /\ \A i \in 1..Len(frames') : frames'[i].stop.page < p
    BY DEF PagesFreed
  <2>1. p > hot /\ p \in 1..Len(pages)
    BY <1>2, <1>3, <1>4
  <2>2. \A i \in 1..Len(frames') : frames'[i].stop.page <= hot /\ frames'[i].stop.page \in Nat
    <3> SUFFICES ASSUME NEW i \in 1..Len(frames')
                 PROVE  frames'[i].stop.page <= hot /\ frames'[i].stop.page \in Nat
      OBVIOUS
    <3>1. frames'[i].stop \in Positions /\ InStack(frames'[i].stop)
      BY <1>5, FrameFacts DEF StopInv
    <3>2. frames'[i].stop.page \in Nat
      BY <3>1, PositionFacts
    <3> QED  BY <1>2, <3>1, <3>2 DEF InStack
  <2> QED  BY <1>2, <2>1, <2>2 DEF Core, OneStack
<1> QED
  BY <1>1, <1>2, <1>3, <1>4, <1>5, <1>6, <1>8, <1>10, <1>11 DEF Core

\* Nothing is left of a thread's pools.
LEMMA KilledKeeps ==
  ASSUME KillAll, tokens' = <<>>, frames' = <<>>
  PROVE  Core'
BY DEF KillAll, Core, PagesOK, OneStack, TokenInv, TokensLive, FrameInv, NoPage,
   EmptyPoolPlaceholder

LEMMA KillPagesKeeps ==
  ASSUME Core, KillPages
  PROVE  Core' /\ PagesFreed /\ hot' = NoPage
<1>1. /\ frames # <<>> /\ ~Top.running /\ Releasing /\ Reached(Top) /\ Top.exit
      /\ tokens' = tokens /\ frames' = Drop(frames) /\ KillAll
  BY DEF KillPages, Releasing
<1>2. Len(frames) = 1 /\ Top.base = 0 /\ Top.stop = Begin
  BY <1>1, TopFacts DEF Core, FrameInv, Top
<1>3. tokens' = <<>>
  <2>1. tokens \in Seq(Positions) /\ Len(tokens) <= 0
    BY <1>1, <1>2 DEF Core, FrameInv
  <2> QED  BY <1>1, <2>1, EmptySeq, LenProperties
<1>4. frames' = <<>>
  BY <1>1, <1>2 DEF Drop, Core
<1>5. \A p \in 1..Len(pages) : Empty(p)
  <2>1. hot = 1 /\ Len(pages[1]) = 0 /\ 1 \in 1..Len(pages)
    BY <1>1, <1>2, ReachedIsHot, PositionFacts
  <2> QED  BY <2>1, PagesFacts DEF Core, OneStack, Empty
<1>6. PagesFreed
  BY <1>1, <1>4, <1>5 DEF PagesFreed, KillAll
<1> QED
  BY <1>1, <1>3, <1>4, <1>6, KilledKeeps DEF KillAll

LEMMA ThreadExitKeeps ==
  ASSUME Core, ThreadExit
  PROVE  Core' /\ PagesFreed /\ (frames' = <<>> => hot' = NoPage)
<1>1. frames = <<>> /\ hot # NoPage /\ tokens' = <<>>
  BY DEF ThreadExit
<1>2. CASE hot = EmptyPoolPlaceholder \/ Empty(1)
  <2>1. KillAll /\ frames' = <<>>
    BY <1>1, <1>2 DEF ThreadExit
  <2>2. \A p \in 1..Len(pages) : Empty(p)
    <3> SUFFICES ASSUME NEW p \in 1..Len(pages) PROVE Empty(p)
      OBVIOUS
    <3>1. hot > 0 /\ hot \in Nat /\ 1 \in 1..Len(pages)
      BY PagesFacts DEF Core, PagesOK, NoPage
    <3>2. Len(pages[1]) = 0
      BY <1>2, <3>1, PagesFacts DEF Empty, EmptyPoolPlaceholder, Core
    <3>3. ~(1 < hot)
      BY <3>1, <3>2 DEF Core, OneStack, Full
    <3>4. p = 1 \/ p > hot
      BY <3>1, <3>3
    <3> QED  BY <1>2, <3>1, <3>4 DEF Core, OneStack, EmptyPoolPlaceholder
  <2>3. PagesFreed
    BY <2>1, <2>2 DEF PagesFreed, KillAll
  <2> QED  BY <1>1, <2>1, <2>3, KilledKeeps DEF KillAll
<1>3. CASE ~(hot = EmptyPoolPlaceholder \/ Empty(1))
  <2>1. frames' = <<Frame(Begin, 0, TRUE)>> /\ pages' = pages /\ hot' = hot
    BY <1>1, <1>3 DEF ThreadExit
  <2>2. hot > 0 /\ hot \in 1..Len(pages) /\ Len(pages[hot]) \in Nat
    <3>1. hot > 0 /\ hot \in 1..Len(pages)
      BY <1>1, <1>3, PagesFacts DEF Core, PagesOK, NoPage, EmptyPoolPlaceholder
    <3> QED  BY <3>1, PagesFacts DEF Core
  <2>3. PICK f \in Frames : f = Frame(Begin, 0, TRUE)
    BY PositionFacts DEF Frame, Frames
  <2>4. f.stop = Begin /\ f.base = 0 /\ f.exit
    BY <2>3 DEF Frame
  <2>5. /\ frames' \in Seq(Frames) /\ Len(frames') = 1 /\ frames'[1] = f /\ frames' # <<>>
    <3>1. frames' = <<f>>
      BY <2>1, <2>3
    <3>2. <<f>> \in Seq(Frames) /\ Len(<<f>>) = 1 /\ <<f>>[1] = f /\ <<f>> # <<>>
      OBVIOUS
    <3> QED  BY <3>1, <3>2
  <2>6. InStack(Begin)'
    BY <2>1, <2>2, PositionFacts DEF InStack, Begin
  <2>7. StopInv(f)'
    BY <1>1, <2>4, <2>6 DEF StopInv, Begin
  <2>8. FrameInv'
    <3>1. Len(tokens') <= Top'.base \/ Top'.running
      BY <1>1, <2>4, <2>5 DEF Top
    <3>2. \A i \in 1..Len(frames') : i = 1 /\ frames'[i] = f
      BY <2>5
    <3>3. AtOrBefore(f.stop, f.stop) /\ f.base <= f.base
      BY <2>4, PositionFacts DEF AtOrBefore
    <3>4. \A i \in 1..Len(frames') : StopInv(frames[i])'
      BY <2>5, <2>7, <3>2 DEF StopInv, InStack
    <3>5. hot' > 0
      BY <2>1, <2>2
    <3> QED  BY <2>4, <2>5, <3>1, <3>2, <3>3, <3>4, <3>5 DEF FrameInv, Begin, AtOrBefore
  <2>9. PagesOK' /\ OneStack' /\ tokens' \in Seq(Positions) /\ TokenInv'
    BY <1>1, <2>1 DEF Core, PagesOK, OneStack, Full, Empty, TokenInv, TokensLive
  <2>10. PagesFreed
    BY <2>1, PagesFacts DEF PagesFreed, Core
  <2> QED  BY <2>5, <2>8, <2>9, <2>10 DEF Core
<1> QED
  BY <1>2, <1>3

-----------------------------------------------------------------------------
(***************************************************************************)
(* Theorems                                                                *)
(***************************************************************************)

LEMMA InvIsCore ==
  PoolInv <=> Core /\ OneSparePage /\ calls \in 0..MaxCalls
BY DEF PoolInv, TypeOK, Core, PagesOK

LEMMA InitKeeps ==
  ASSUME Init
  PROVE  PoolInv
<1>1. Core /\ OneSparePage /\ calls \in 0..MaxCalls
  BY DEF Init, Core, PagesOK, OneStack, TokenInv, TokensLive, FrameInv,
     OneSparePage, NoPage, EmptyPoolPlaceholder
<1> QED
  BY <1>1, InvIsCore

\* Every step keeps the invariant and frees only pages that are not in use.
LEMMA NextKeeps ==
  ASSUME PoolInv, [Next]_vars
  PROVE  PoolInv' /\ PagesFreed
<1>1. Core /\ OneSparePage /\ calls \in 0..MaxCalls /\ Len(pages) \in Nat
  BY InvIsCore, PagesFacts DEF Core
<1> SUFFICES Core' /\ OneSparePage' /\ calls' \in 0..MaxCalls /\ PagesFreed
  BY DEF PoolInv, TypeOK, Core, PagesOK
<1>2. CASE Push
  <2>1. Core' /\ Len(pages') >= Len(pages) /\ (OneSpare => OneSpare')
    BY <1>1, <1>2, PushKeeps
  <2>2. frames' = frames /\ calls' \in 0..MaxCalls
    BY <1>1, <1>2 DEF Push, MayCall
  <2> QED  BY <1>1, <2>1, <2>2, NextPagesFacts DEF PagesFreed, OneSparePage, OneSpare, Core
<1>3. ASSUME NEW o \in Objects, Autorelease(o)
      PROVE  Core' /\ OneSparePage' /\ calls' \in 0..MaxCalls /\ PagesFreed
  <2>1. Core' /\ Len(pages') >= Len(pages) /\ (OneSpare => OneSpare')
    BY <1>1, <1>3, AutoreleaseKeeps
  <2>2. frames' = frames /\ calls' \in 0..MaxCalls
    BY <1>1, <1>3 DEF Autorelease, MayCall
  <2> QED  BY <1>1, <2>1, <2>2, NextPagesFacts DEF PagesFreed, OneSparePage, OneSpare, Core
<1>4. ASSUME NEW i \in 1..Len(tokens), PopPlaceholder(i)
      PROVE  Core' /\ OneSparePage' /\ calls' \in 0..MaxCalls /\ PagesFreed
  <2>1. Core' /\ pages' = pages /\ hot' = NoPage
    BY <1>1, <1>4, PopPlaceholderKeeps
  <2> QED  BY <1>1, <1>4, <2>1 DEF PagesFreed, OneSparePage, NoPage, PopPlaceholder
<1>5. ASSUME NEW i \in 1..Len(tokens), StartPop(i)
      PROVE  Core' /\ OneSparePage' /\ calls' \in 0..MaxCalls /\ PagesFreed
  <2>1. Core' /\ pages' = pages /\ frames' # <<>>
    BY <1>1, <1>5, StartPopKeeps
  <2>2. calls' = calls
    BY <1>5 DEF StartPop
  <2> QED  BY <1>1, <2>1, <2>2 DEF PagesFreed, OneSparePage
<1>6. CASE ThreadExit
  <2>1. Core' /\ PagesFreed /\ (frames' = <<>> => hot' = NoPage)
    BY <1>1, <1>6, ThreadExitKeeps
  <2> QED  BY <1>1, <1>6, <2>1 DEF OneSparePage, NoPage, ThreadExit
<1>7. CASE TakeEntry
  <2>1. Core' /\ Len(pages') = Len(pages) /\ frames' # <<>>
    BY <1>1, <1>7, TakeEntryKeeps
  <2> QED  BY <1>1, <1>7, <2>1 DEF PagesFreed, OneSparePage, TakeEntry
<1>8. CASE Release
  <2>1. Core' /\ pages' = pages /\ frames' # <<>>
    BY <1>1, <1>8, ReleaseKeeps
  <2> QED  BY <1>1, <1>8, <2>1 DEF PagesFreed, OneSparePage, Release
<1>9. CASE ReleaseReturns
  <2>1. Core' /\ pages' = pages /\ frames' # <<>>
    BY <1>1, <1>9, ReleaseReturnsKeeps
  <2> QED  BY <1>1, <1>9, <2>1 DEF PagesFreed, OneSparePage, ReleaseReturns
<1>10. CASE PopPage
  <2>1. Core' /\ PagesFreed /\ Len(pages') <= hot' + 1
    BY <1>1, <1>10, PopPageKeeps
  <2> QED  BY <1>1, <1>10, <2>1 DEF OneSparePage, PopPage
<1>11. CASE KillPages
  <2>1. Core' /\ PagesFreed /\ hot' = NoPage
    BY <1>1, <1>11, KillPagesKeeps
  <2> QED  BY <1>1, <1>11, <2>1 DEF OneSparePage, NoPage, KillPages
<1>12. CASE UNCHANGED vars
  BY <1>1, <1>12 DEF vars, Core, PagesOK, OneStack, Full, Empty, TokenInv, TokensLive,
     IsBoundary, FrameInv, StopInv, InStack, Top, OneSparePage, PagesFreed,
     Before, AtOrBefore, Stop, PlaceholderToken, Begin
<1> QED
  BY <1>2, <1>3, <1>4, <1>5, <1>6, <1>7, <1>8, <1>9, <1>10, <1>11, <1>12
     DEF Next, Program, Pops

LEMMA Invariance == Spec => []PoolInv
<1>1. Init => PoolInv
  BY InitKeeps
<1>2. PoolInv /\ [Next]_vars => PoolInv'
  BY NextKeeps
<1> QED
  BY <1>1, <1>2, PTL DEF Spec

\* Types, and that add() never writes beyond the end of a page and the TLS slot
\* never points beyond the list.
THEOREM TypeCorrect == Spec => []TypeOK
<1>1. PoolInv => TypeOK
  BY DEF PoolInv
<1> QED
  BY <1>1, Invariance, PTL

\* The pages of a thread are always one stack.
THEOREM PagesAreOneStack == Spec => []OneStack
<1>1. PoolInv => OneStack
  BY DEF PoolInv
<1> QED
  BY <1>1, Invariance, PTL

\* The token of a pool that is still to be popped is always good: badPop() is
\* reached only by a token that the program may not use any more.
THEOREM TokensStayLive == Spec => []TokensLive
<1>1. PoolInv => TokensLive
  BY DEF PoolInv, TokenInv
<1> QED
  BY <1>1, Invariance, PTL

\* Between pops a thread has at most one page to spare.
THEOREM SparesAtMostOne == Spec => []OneSparePage
<1>1. PoolInv => OneSparePage
  BY DEF PoolInv
<1> QED
  BY <1>1, Invariance, PTL

\* The while loop of releaseUntil may be an if.
THEOREM WhileIsIf == Spec => []WhileCanBeIf
<1>1. ASSUME PoolInv PROVE WhileCanBeIf
  <2> SUFFICES ASSUME Releasing, ~Reached(Top), Empty(hot)
               PROVE  hot > 1 /\ ~Empty(hot - 1)
    BY DEF WhileCanBeIf
  <2>1. Core
    BY <1>1, InvIsCore
  <2>2. /\ hot \in 1..Len(pages) /\ Top.stop \in Positions /\ StopInv(Top)
    BY <2>1, TopFacts DEF Releasing
  <2>3. /\ Top.stop.page \in Nat /\ Top.stop.page >= 1 /\ Top.stop.slot \in 1..PageSize
        /\ Top.stop.page < hot \/ (Top.stop.page = hot /\ Top.stop.slot <= Len(pages[hot]) + 1)
    BY <2>2, PositionFacts DEF StopInv, InStack
  <2>4. Len(pages[hot]) = 0
    BY DEF Empty
  <2>5. Top.stop.page < hot
    <3> SUFFICES ASSUME Top.stop.page = hot, Top.stop.slot = 1 PROVE FALSE
      BY <2>3, <2>4
    <3> QED  BY <2>4 DEF Reached
  <2>6. hot - 1 \in 1..Len(pages) /\ hot - 1 < hot /\ hot > 1
    BY <2>2, <2>3, <2>5, PagesFacts, <2>1 DEF Core
  <2>7. Len(pages[hot - 1]) = PageSize
    BY <2>1, <2>6 DEF Core, OneStack, Full
  <2>8. pages[hot - 1] # <<>>
    BY <2>7
  <2> QED  BY <2>6, <2>8 DEF Empty
<1> QED
  BY <1>1, Invariance, PTL

\* No page is freed that holds an entry, or in which a pop has yet to stop.
THEOREM FreedPagesAreUnused == Spec => KilledPagesUnused
<1>1. PoolInv /\ [Next]_vars =>
        [\A p \in Len(pages') + 1..Len(pages) :
           /\ Empty(p)
           /\ \A i \in 1..Len(frames') : frames'[i].stop.page < p]_vars
  BY NextKeeps DEF PagesFreed
<1> QED
  BY <1>1, Invariance, PTL DEF Spec, KilledPagesUnused

-----------------------------------------------------------------------------
(***************************************************************************)
(* The places of the entries, and one more of them.                        *)
(***************************************************************************)

LEMMA PlacesFinite ==
  ASSUME NEW l \in Nat, NEW n \in Nat, NEW m \in Nat
  PROVE  IsFiniteSet([page : l..n, slot : 1..m])
<1> DEFINE S == [page : l..n, slot : 1..m]
           T == (l..n) \X (1..m)
           f == [x \in S |-> <<x.page, x.slot>>]
<1>1. f \in Injection(S, T)
  <2>1. \A x \in S : x.page \in l..n /\ x.slot \in 1..m /\ x = [page |-> x.page, slot |-> x.slot]
    BY SMT
  <2>2. \A x \in S : f[x] = <<x.page, x.slot>>
    BY Zenon
  <2>3. \A x \in S : f[x] \in T
    BY <2>1, <2>2
  <2>4. f \in [S -> T]
    BY <2>3, Zenon
  <2>5. ASSUME NEW x \in S, NEW y \in S, f[x] = f[y] PROVE x = y
    <3>1. x.page = y.page /\ x.slot = y.slot
      BY <2>2, <2>5
    <3> QED  BY <2>1, <3>1, Zenon
  <2> QED  BY <2>4, <2>5, Zenon DEF Injection, IsInjective
<1>2. IsFiniteSet(l..n) /\ IsFiniteSet(1..m)
  BY FS_Interval
<1>3. IsFiniteSet(T)
  BY <1>2, FS_Product
<1> QED
  BY <1>1, <1>3, FS_Injection

LEMMA PlaceFacts ==
  ASSUME PagesOK
  PROVE  /\ IsFiniteSet(Places) /\ IsFiniteSet(Boundaries)
         /\ \A x : x \in Places <=> /\ x \in Positions /\ x.page \in 1..Len(pages)
                                    /\ x.slot \in 1..Len(pages[x.page])
         /\ \A x \in Places : x \in Positions /\ At(x) \in Entries /\ x.page # 0
         /\ \A x : x \in Boundaries <=> x \in Positions /\ IsBoundary(x)
<1>1. Len(pages) \in Nat
  BY PagesFacts
<1>2. IsFiniteSet(Places)
  <2>1. PICK n \in Nat : n = Len(pages)
    BY <1>1
  <2>2. IsFiniteSet([page : 1..n, slot : 1..PageSize])
    <3>1. PageSize \in Nat /\ 1 \in Nat
      OBVIOUS
    <3> QED  BY <3>1, PlacesFinite, Zenon
  <2>3. Places \subseteq [page : 1..n, slot : 1..PageSize]
    BY <2>1, Zenon DEF Places
  <2> QED  BY <2>2, <2>3, FS_Subset
<1>3. ASSUME NEW x
      PROVE  x \in Places <=> /\ x \in Positions /\ x.page \in 1..Len(pages)
                              /\ x.slot \in 1..Len(pages[x.page])
  <2>1. ASSUME x \in Positions, x.page \in 1..Len(pages), x.slot \in 1..Len(pages[x.page])
        PROVE  x \in Places
    <3>1. x.slot <= Len(pages[x.page]) /\ x.slot \in 1..PageSize
      <4>1. Len(pages[x.page]) \in 0..PageSize
        BY <2>1, PagesFacts
      <4> QED  BY <2>1, <4>1
    <3>2. x \in [page : 1..Len(pages), slot : 1..PageSize]
      BY <2>1, <3>1 DEF Positions
    <3> QED  BY <3>1, <3>2 DEF Places
  <2>2. ASSUME x \in Places
        PROVE  x \in Positions /\ x.page \in 1..Len(pages) /\ x.slot \in 1..Len(pages[x.page])
    BY <1>1, <2>2, PagesFacts DEF Places, Positions
  <2> QED  BY <2>1, <2>2
<1>4. ASSUME NEW x \in Places PROVE x \in Positions /\ At(x) \in Entries /\ x.page # 0
  BY <1>3, PagesFacts DEF At
<1>5. \A x : x \in Boundaries <=> x \in Positions /\ IsBoundary(x)
  BY <1>3 DEF Boundaries, IsBoundary, At
<1>6. IsFiniteSet(Boundaries)
  BY <1>2, FS_Subset DEF Boundaries
<1> QED
  BY <1>2, <1>3, <1>4, <1>5, <1>6

\* The same of the next state.
PlacesFact ==
  /\ IsFiniteSet(Places) /\ IsFiniteSet(Boundaries)
  /\ \A x : x \in Places <=> /\ x \in Positions /\ x.page \in 1..Len(pages)
                             /\ x.slot \in 1..Len(pages[x.page])
  /\ \A x \in Places : x \in Positions /\ At(x) \in Entries /\ x.page # 0
  /\ \A x : x \in Boundaries <=> x \in Positions /\ IsBoundary(x)

LEMMA PlacesFactHolds == PagesOK => PlacesFact
BY PlaceFacts DEF PlacesFact

LEMMA NextPlaceFacts ==
  ASSUME PagesOK'
  PROVE  /\ IsFiniteSet(Places') /\ IsFiniteSet(Boundaries')
         /\ \A x : x \in Places' <=> /\ x \in Positions /\ x.page \in 1..Len(pages')
                                     /\ x.slot \in 1..Len(pages'[x.page])
         /\ \A x \in Places' : x \in Positions /\ At(x)' \in Entries /\ x.page # 0
         /\ \A x : x \in Boundaries' <=> x \in Positions /\ IsBoundary(x)'
<1>1. PagesOK' => PlacesFact'
  BY PlacesFactHolds, PTL
<1> QED
  BY <1>1 DEF PlacesFact, IsBoundary, At

\* One more entry: x is a place of the pages Q if it is one of P or the new one.
HoldsEntry(P, x) == x.page \in 1..Len(P) /\ x.slot \in 1..Len(P[x.page])

LEMMA SamePosition ==
  ASSUME NEW x \in Positions, NEW y \in Positions, x.page = y.page, x.slot = y.slot
  PROVE  x = y
BY DEF Positions

OneMore(P, Q, p, s) ==
  /\ p \in 1..Len(Q) /\ s = Len(Q[p]) /\ s >= 1
  /\ Len(P) \in {Len(Q), Len(Q) - 1}
  /\ \A q \in 1..Len(Q) : q # p => q <= Len(P) /\ Q[q] = P[q]
  /\ p > Len(P) => s = 1
  /\ p <= Len(P) => /\ Len(P[p]) = s - 1
                    /\ \A j \in 1..s - 1 : Q[p][j] = P[p][j]

LEMMA OneEntryMore ==
  ASSUME NEW P \in Seq(Seq(Entries)), NEW Q \in Seq(Seq(Entries)),
         NEW n \in Positions, NEW p, p = n.page,
         NEW s \in Nat, s = n.slot, OneMore(P, Q, p, s)
  PROVE  /\ ~HoldsEntry(P, n)
         /\ \A x \in Positions : HoldsEntry(Q, x) <=> HoldsEntry(P, x) \/ x = n
         /\ \A x \in Positions :
              HoldsEntry(P, x) => Q[x.page][x.slot] = P[x.page][x.slot]
<1> USE DEF OneMore
<1>1. Len(P) \in Nat /\ Len(Q) \in Nat /\ p \in Nat /\ p >= 1 /\ p <= Len(Q)
  OBVIOUS
<1>2. ~HoldsEntry(P, n)
  BY <1>1 DEF HoldsEntry
<1>3. ASSUME NEW x \in Positions, HoldsEntry(P, x)
      PROVE  HoldsEntry(Q, x) /\ Q[x.page][x.slot] = P[x.page][x.slot]
  <2>1. x.page \in 1..Len(Q) /\ x.page <= Len(P)
    BY <1>1, <1>3 DEF HoldsEntry
  <2>2. CASE x.page # p
    BY <1>3, <2>1, <2>2 DEF HoldsEntry
  <2>3. CASE x.page = p
    <3>1. p <= Len(P) /\ x.slot \in 1..s - 1
      BY <1>1, <1>3, <2>1, <2>3 DEF HoldsEntry
    <3>2. Q[p][x.slot] = P[p][x.slot]
      BY <3>1
    <3>3. x.slot \in 1..Len(Q[p])
      BY <3>1
    <3> QED  BY <2>3, <3>2, <3>3 DEF HoldsEntry
  <2> QED  BY <2>2, <2>3
<1>4. ASSUME NEW x \in Positions, HoldsEntry(Q, x), x # n
      PROVE  HoldsEntry(P, x)
  <2>1. CASE x.page # p
    <3>1. x.page \in 1..Len(Q) /\ x.slot \in 1..Len(Q[x.page])
      BY <1>4 DEF HoldsEntry
    <3>2. x.page <= Len(P) /\ Q[x.page] = P[x.page]
      BY <2>1, <3>1
    <3> QED  BY <1>1, <3>1, <3>2 DEF HoldsEntry
  <2>2. CASE x.page = p
    <3>1. x.slot # s
      BY <1>4, <2>2, SamePosition
    <3>2. x.slot \in 1..s - 1 /\ s > 1
      BY <1>1, <1>4, <2>2, <3>1 DEF HoldsEntry
    <3>3. p <= Len(P)
      <4>1. p > Len(P) => s = 1
        OBVIOUS
      <4> QED  BY ONLY <1>1, <3>2, <4>1
    <3>4. p \in 1..Len(P) /\ x.slot \in 1..Len(P[p])
      <4>1. Len(P[p]) = s - 1 /\ p >= 1 /\ p \in Nat /\ Len(P) \in Nat
        BY <1>1, <3>3
      <4> QED  BY <3>2, <3>3, <4>1
    <3> QED  BY <2>2, <3>4 DEF HoldsEntry
  <2> QED  BY <2>1, <2>2
<1>5. HoldsEntry(Q, n)
  BY DEF HoldsEntry
<1> QED
  BY <1>2, <1>3, <1>4, <1>5

\* The place above the top of the stack.
LEMMA AboveTop ==
  ASSUME PagesOK, OneStack, NEW n \in Positions,
         n.page > hot \/ (n.page = hot /\ n.slot = Len(pages[hot]) + 1)
  PROVE  /\ \A x \in Places : Before(x, n)
         /\ \A x \in Positions : InStack(x) => ~Before(n, x)
<1>1. /\ n.page \in Nat /\ n.slot \in Nat /\ hot \in Int
      /\ hot > 0 => hot \in 1..Len(pages) /\ Len(pages[hot]) \in Nat
  BY PositionFacts, PagesFacts
<1>2. ASSUME NEW x \in Places PROVE Before(x, n)
  <2>1. x \in Positions /\ x.page \in 1..Len(pages) /\ x.slot \in 1..Len(pages[x.page])
    BY PlaceFacts
  <2>2. Len(pages[x.page]) \in Nat /\ x.page \in Nat /\ x.slot \in Nat
    BY <2>1, PagesFacts, PositionFacts
  <2>3. x.page <= hot
    BY <1>1, <2>1, <2>2, PagesFacts DEF OneStack, Empty
  <2> QED  BY SMTT(30), <1>1, <2>1, <2>2, <2>3 DEF Before
<1>3. ASSUME NEW x \in Positions, InStack(x) PROVE ~Before(n, x)
  <2>1. x.page \in Nat /\ x.slot \in Nat
    BY PositionFacts
  <2> QED  BY <1>1, <1>3, <2>1 DEF InStack, Before
<1> QED
  BY <1>2, <1>3

\* The entries and the place above the top are in the stack.
LEMMA PlaceInStack ==
  ASSUME PagesOK, OneStack, NEW x \in Places
  PROVE  InStack(x)
<1>1. x \in Positions /\ x.page \in 1..Len(pages) /\ x.slot \in 1..Len(pages[x.page])
  BY PlaceFacts
<1>2. Len(pages[x.page]) \in 0..PageSize
  BY <1>1, PagesFacts
<1>3. x.page <= hot
  BY <1>1, <1>2, PagesFacts DEF OneStack, Empty
<1>4. x.page = hot => x.slot <= Len(pages[hot])
  BY <1>1, <1>2
<1>5. x.page \in Nat /\ x.slot \in 1..PageSize /\ x.page >= 1 /\ hot \in Int
  <2>1. ASSUME NEW m \in 0..PageSize, NEW j \in 1..m PROVE j \in 1..PageSize
    <3>1. PageSize \in Nat
      OBVIOUS
    <3> QED  BY ONLY <2>1, <3>1
  <2> QED  BY <1>1, <1>2, <2>1, PagesFacts
<1>6. x.page = hot => x.slot <= Len(pages[hot]) + 1
  BY <1>2, <1>4, <1>5
<1> QED
  BY <1>3, <1>5, <1>6 DEF InStack

\* A new entry e on top of the stack, at n.
NewTop(n, e) ==
  /\ n \in Positions /\ n \notin Places /\ Places' = Places \cup {n}
  /\ \A x \in Places : Before(x, n) /\ At(x)' = At(x)
  /\ At(n)' = e
  /\ \A x \in Positions : InStack(x) => ~Before(n, x)

LEMMA NewTopIf ==
  ASSUME PagesOK, OneStack, PagesOK', NEW p \in Nat, NEW s \in Nat,
         OneMore(pages, pages', p, s),
         p > hot \/ (p = hot /\ s = Len(pages[hot]) + 1)
  PROVE  NewTop(Position(p, s), pages'[p][s])
<1>1. PICK P \in Seq(Seq(Entries)), Q \in Seq(Seq(Entries)) : P = pages /\ Q = pages'
  BY DEF PagesOK
<1>2. PICK n \in Positions : n = Position(p, s) /\ n.page = p /\ n.slot = s
  BY NextPagesFacts, PositionFacts
<1>3. /\ ~HoldsEntry(P, n)
      /\ \A x \in Positions : HoldsEntry(Q, x) <=> HoldsEntry(P, x) \/ x = n
      /\ \A x \in Positions : HoldsEntry(P, x) => Q[x.page][x.slot] = P[x.page][x.slot]
  <2>1. OneMore(P, Q, p, s)
    BY <1>1
  <2>2. P \in Seq(Seq(Entries)) /\ Q \in Seq(Seq(Entries)) /\ s \in Nat
        /\ n \in Positions /\ p = n.page /\ s = n.slot
    BY <1>2
  <2> QED  BY ONLY <2>1, <2>2, OneEntryMore
<1>4. \A x : x \in Places <=> x \in Positions /\ HoldsEntry(P, x)
  BY <1>1, PlaceFacts DEF HoldsEntry
<1>5. \A x : x \in Places' <=> x \in Positions /\ HoldsEntry(Q, x)
  BY <1>1, NextPlaceFacts DEF HoldsEntry
<1>6. /\ \A x \in Places : Before(x, n)
      /\ \A x \in Positions : InStack(x) => ~Before(n, x)
  BY <1>2, AboveTop
<1>7. n \notin Places /\ Places' = Places \cup {n}
  BY <1>3, <1>4, <1>5
<1>8. \A x \in Places : At(x)' = At(x)
  BY <1>1, <1>3, <1>4 DEF At
<1>9. At(n)' = pages'[p][s]
  BY <1>2 DEF At
<1> QED
  BY <1>2, <1>6, <1>7, <1>8, <1>9 DEF NewTop, At

AboveTopFact ==
  \A n \in Positions :
    n.page > hot \/ (n.page = hot /\ n.slot = Len(pages[hot]) + 1) =>
      /\ \A x \in Places : Before(x, n)
      /\ \A x \in Positions : InStack(x) => ~Before(n, x)

LEMMA AboveTopHolds == PagesOK /\ OneStack => AboveTopFact
BY AboveTop DEF AboveTopFact

LEMMA NextAboveTop == PagesOK' /\ OneStack' => AboveTopFact'
BY AboveTopHolds, PTL

\* The entry e, at n, is taken from the top of the stack.
TopTaken(n, e) ==
  /\ n \in Positions /\ n \notin Places' /\ Places = Places' \cup {n}
  /\ \A x \in Places' : Before(x, n) /\ At(x)' = At(x)
  /\ At(n) = e
  /\ \A x \in Positions : InStack(x)' => ~Before(n, x)

LEMMA TopTakenIf ==
  ASSUME PagesOK, PagesOK', OneStack', NEW p \in Nat, NEW s \in Nat,
         OneMore(pages', pages, p, s),
         p > hot' \/ (p = hot' /\ s = Len(pages'[hot']) + 1)
  PROVE  TopTaken(Position(p, s), pages[p][s])
<1>1. PICK P \in Seq(Seq(Entries)), Q \in Seq(Seq(Entries)) : P = pages' /\ Q = pages
  BY DEF PagesOK
<1>2. PICK n \in Positions : n = Position(p, s) /\ n.page = p /\ n.slot = s
  BY PositionFacts
<1>3. /\ ~HoldsEntry(P, n)
      /\ \A x \in Positions : HoldsEntry(Q, x) <=> HoldsEntry(P, x) \/ x = n
      /\ \A x \in Positions : HoldsEntry(P, x) => Q[x.page][x.slot] = P[x.page][x.slot]
  <2>1. OneMore(P, Q, p, s)
    BY <1>1
  <2>2. P \in Seq(Seq(Entries)) /\ Q \in Seq(Seq(Entries)) /\ s \in Nat
        /\ n \in Positions /\ p = n.page /\ s = n.slot
    BY <1>2
  <2> QED  BY ONLY <2>1, <2>2, OneEntryMore
<1>4. \A x : x \in Places <=> x \in Positions /\ HoldsEntry(Q, x)
  BY <1>1, PlaceFacts DEF HoldsEntry
<1>5. \A x : x \in Places' <=> x \in Positions /\ HoldsEntry(P, x)
  BY <1>1, NextPlaceFacts DEF HoldsEntry
<1>6. /\ \A x \in Places' : Before(x, n)
      /\ \A x \in Positions : InStack(x)' => ~Before(n, x)
  BY <1>2, NextAboveTop DEF AboveTopFact, InStack, Before
<1>7. n \notin Places' /\ Places = Places' \cup {n}
  BY <1>3, <1>4, <1>5
<1>8. \A x \in Places' : At(x)' = At(x)
  BY <1>1, <1>3, <1>5 DEF At
<1>9. At(n) = pages[p][s]
  BY <1>2 DEF At
<1> QED
  BY <1>2, <1>6, <1>7, <1>8, <1>9 DEF TopTaken, At, InStack

LEMMA FirstEntry ==
  ASSUME NEW o \in Objects \cup {Boundary}
  PROVE  Add(<<>>, o) = <<Entry(o)>> /\ ~Coalesces(<<>>, o)
<1>1. Candidates(<<>>, o) = {}
  BY DEF Candidates
<1> QED
  BY <1>1 DEF Add, Coalesces

\* Where autoreleaseFast puts an entry that it does not coalesce.
LEMMA AddedOnTop ==
  ASSUME PagesOK, OneStack, PagesOK', NEW o \in Objects \cup {Boundary},
         AutoreleaseFast(o), hot # EmptyPoolPlaceholder, hot' # EmptyPoolPlaceholder,
         hot > 0 /\ ~Full(hot) => ~Coalesces(pages[hot], o)
  PROVE  \E n \in Positions : NewTop(n, Entry(o))
<1>1. /\ Entry(o) \in Entries /\ pages \in Seq(Seq(Entries))
      /\ Len(pages) \in Nat /\ hot \in Int
      /\ hot > 0 => hot \in 1..Len(pages)
  BY EntryType, PagesFacts DEF PagesOK
<1> DEFINE Grows(p, s) ==
             /\ p = hot' /\ s = Len(pages'[p])
             /\ OneMore(pages, pages', p, s) /\ pages'[p][s] = Entry(o)
             /\ p > hot \/ (p = hot /\ s = Len(pages[hot]) + 1)
<1>2. ASSUME NEW p \in 1..Len(pages), NEW page \in Seq(Entries), page = pages[p],
             p = hot', p >= hot,
             pages' = [pages EXCEPT ![p] = Append(page, Entry(o))]
      PROVE  Grows(p, Len(page) + 1)
  <2>1. PICK new \in Seq(Entries) :
          /\ new = Append(page, Entry(o)) /\ Len(new) = Len(page) + 1
          /\ new[Len(page) + 1] = Entry(o)
          /\ \A j \in 1..Len(page) : new[j] = page[j]
    <3>1. /\ Append(page, Entry(o)) \in Seq(Entries)
          /\ Len(Append(page, Entry(o))) = Len(page) + 1
          /\ Append(page, Entry(o))[Len(page) + 1] = Entry(o)
          /\ \A j \in 1..Len(page) : Append(page, Entry(o))[j] = page[j]
      BY <1>1, AppendProperties
    <3> QED  BY <3>1, Zenon
  <2>2. pages' = [pages EXCEPT ![p] = new]
    BY <1>2, <2>1
  <2>3. /\ Len(pages') = Len(pages)
        /\ \A q \in 1..Len(pages) : pages'[q] = IF q = p THEN new ELSE pages[q]
    BY <1>1, <2>2, ExceptSeq
  <2>4. Len(page) \in Nat
    OBVIOUS
  <2>5. pages'[p] = new
    BY <2>3
  <2>6. OneMore(pages, pages', p, Len(page) + 1)
    BY <1>1, <1>2, <2>1, <2>3, <2>4, <2>5 DEF OneMore
  <2>7. p > hot \/ (p = hot /\ Len(page) + 1 = Len(pages[hot]) + 1)
    BY <1>1, <1>2
  <2>8. p = hot' /\ Len(page) + 1 = Len(pages'[p]) /\ pages'[p][Len(page) + 1] = Entry(o)
    BY <1>2, <2>1, <2>5
  <2> QED  BY <2>6, <2>7, <2>8
<1>3. ASSUME NEW page, page = <<Entry(o)>>, pages' = Append(pages, page),
             hot' = Len(pages) + 1
      PROVE  Grows(Len(pages) + 1, 1)
  <2>1. page \in Seq(Entries) /\ Len(page) = 1 /\ page[1] = Entry(o)
    <3>1. PICK e \in Entries : e = Entry(o)
      BY <1>1
    <3>2. <<e>> \in Seq(Entries) /\ Len(<<e>>) = 1 /\ <<e>>[1] = e
      OBVIOUS
    <3> QED  BY <1>3, <3>1, <3>2
  <2>2. /\ Len(pages') = Len(pages) + 1 /\ pages'[Len(pages) + 1] = page
        /\ \A q \in 1..Len(pages) : pages'[q] = pages[q]
    BY <1>1, <1>3, <2>1, AppendProperties
  <2>3. OneMore(pages, pages', Len(pages) + 1, 1)
    BY <1>1, <2>1, <2>2 DEF OneMore
  <2>4. Len(pages) + 1 > hot
    BY <1>1, PagesFacts
  <2> QED  BY <1>3, <2>1, <2>2, <2>3, <2>4
<1>4. \A p \in 1..Len(pages) : pages[p] \in Seq(Entries)
  BY PagesFacts
<1>5. \A page : ~Coalesces(page, o) => Add(page, o) = Append(page, Entry(o))
  BY DEF Add
<1>6. \E p, s \in Nat : Grows(p, s)
  <2>1. CASE AddToHotPage(o)
    <3>1. /\ hot \in 1..Len(pages) /\ hot' = hot /\ ~Coalesces(pages[hot], o)
          /\ pages' = [pages EXCEPT ![hot] = Add(pages[hot], o)]
      <4>1. hot > 0 /\ ~Full(hot) /\ hot' = hot
            /\ pages' = [pages EXCEPT ![hot] = Add(pages[hot], o)]
        BY <2>1 DEF AddToHotPage
      <4> QED  BY <1>1, <4>1
    <3>2. pages' = [pages EXCEPT ![hot] = Append(pages[hot], Entry(o))]
      BY <1>5, <3>1
    <3>3. hot >= hot /\ pages[hot] \in Seq(Entries)
      BY <1>1, <1>4, <3>1
    <3>4. Grows(hot, Len(pages[hot]) + 1)
      BY <1>2, <3>1, <3>2, <3>3
    <3>5. hot \in Nat /\ Len(pages[hot]) + 1 \in Nat
      BY <3>1, <3>3
    <3> HIDE DEF Grows
    <3> QED  BY <3>4, <3>5
  <2>2. CASE AddToChild(o)
    <3>1. PICK p \in hot + 1..Len(pages) :
            /\ \A q \in hot + 1..p - 1 : Full(q)
            /\ pages' = [pages EXCEPT ![p] = Add(@, o)] /\ hot' = p
      BY <2>2 DEF AddToChild
    <3>2. hot > 0 /\ p \in 1..Len(pages) /\ p > hot
      <4>1. hot > 0
        BY <2>2 DEF AddToChild
      <4> QED  BY <1>1, <4>1
    <3>3. pages[p] = <<>>
      BY <3>2 DEF OneStack, Empty
    <3>4. pages' = [pages EXCEPT ![p] = Append(pages[p], Entry(o))]
      BY <1>5, <3>1, <3>3, FirstEntry
    <3>5. pages[p] \in Seq(Entries) /\ p >= hot
      <4>1. p >= hot
        BY <1>1, <3>2
      <4> QED  BY <1>4, <3>2, <4>1
    <3>6. Grows(p, Len(pages[p]) + 1)
      BY <1>2, <3>1, <3>2, <3>4, <3>5
    <3>7. p \in Nat /\ Len(pages[p]) + 1 \in Nat
      BY <3>2, <3>5
    <3> HIDE DEF Grows
    <3> QED  BY <3>6, <3>7
  <2>3. CASE AddToNewPage(o)
    <3>1. Grows(Len(pages) + 1, 1)
      BY <1>3, <2>3, FirstEntry DEF AddToNewPage
    <3>2. Len(pages) + 1 \in Nat /\ 1 \in Nat
      BY <1>1
    <3> HIDE DEF Grows
    <3> QED  BY <3>1, <3>2
  <2>4. CASE InstallPlaceholder(o)
    BY <2>4 DEF InstallPlaceholder
  <2>5. CASE AddToFirstPage(o)
    <3>1. hot = NoPage /\ hot' = 1 /\ pages' = <<Add(<<>>, o)>>
      BY <2>5 DEF AddToFirstPage
    <3>2. pages = <<>> /\ Len(pages) = 0
      BY <3>1 DEF PagesOK
    <3>3. pages' = Append(pages, <<Entry(o)>>) /\ hot' = Len(pages) + 1
      BY <3>1, <3>2, FirstEntry
    <3>4. Grows(Len(pages) + 1, 1)
      BY <1>3, <3>3
    <3>5. Len(pages) + 1 \in Nat /\ 1 \in Nat
      BY <1>1
    <3> HIDE DEF Grows
    <3> QED  BY <3>4, <3>5
  <2> QED
    BY <2>1, <2>2, <2>3, <2>4, <2>5 DEF AutoreleaseFast
<1>7. PICK p \in Nat, s \in Nat : Grows(p, s)
  BY <1>6
<1>8. NewTop(Position(p, s), pages'[p][s])
  BY <1>7, NewTopIf
<1>9. PICK n \in Positions : n = Position(p, s)
  BY <1>8 DEF NewTop
<1>10. NewTop(n, Entry(o))
  BY <1>7, <1>8, <1>9
<1> QED
  BY <1>10

-----------------------------------------------------------------------------
(***************************************************************************)
(* The releases due: how their count moves with the entries and the pops.  *)
(***************************************************************************)

\* K releases at most for each place of H; owed says how many.
ReleasesOf(H, K, owed) == {r \in H \X (1..K) : r[2] <= owed[r[1]]}
Count(R, key, v) == Cardinality({r \in R : key[r[1]] = v})

\* The places are moved, and at one of them one more release is owed (or none).
MovesTo(H, owed, key, owed2, key2, move, h0, d) ==
  /\ \A h \in H : owed2[move[h]] = owed[h] + (IF h = h0 THEN d ELSE 0)
  /\ \A h \in H : owed[h] > 0 => key2[move[h]] = key[h]

OneMoreDue(R, key, R2, key2, v, d) ==
  \A w : Count(R2, key2, w) = Count(R, key, w) + (IF d = 1 /\ v = w THEN 1 ELSE 0)

LEMMA OneLess ==
  ASSUME NEW S, IsFiniteSet(S), NEW x \in S
  PROVE  Cardinality(S \ {x}) = Cardinality(S) - 1 /\ Cardinality(S) \in Nat
BY FS_RemoveElement, FS_CardinalityType

LEMMA OneMoreOwed ==
  ASSUME NEW H, NEW K \in Nat, NEW owed \in [H -> 0..K], NEW owed2 \in [H -> 0..K],
         NEW key, NEW key2, NEW move \in Bijection(H, H), NEW h0 \in H, NEW d \in 0..1,
         IsFiniteSet(ReleasesOf(H, K, owed)), IsFiniteSet(ReleasesOf(H, K, owed2)),
         MovesTo(H, owed, key, owed2, key2, move, h0, d)
  PROVE  OneMoreDue(ReleasesOf(H, K, owed), key, ReleasesOf(H, K, owed2), key2,
                    key2[move[h0]], d)
<1> SUFFICES ASSUME NEW v
             PROVE  Count(ReleasesOf(H, K, owed2), key2, v)
                      = Count(ReleasesOf(H, K, owed), key, v)
                        + (IF d = 1 /\ key2[move[h0]] = v THEN 1 ELSE 0)
  BY DEF OneMoreDue
<1> DEFINE R == {r \in ReleasesOf(H, K, owed) : key[r[1]] = v}
           R2 == {r \in ReleasesOf(H, K, owed2) : key2[r[1]] = v}
           e == <<move[h0], owed[h0] + 1>>
           S == IF d = 1 /\ key2[move[h0]] = v THEN R2 \ {e} ELSE R2
           f == [r \in R |-> <<move[r[1]], r[2]>>]
<1>1. /\ move \in [H -> H] /\ \A g, h \in H : move[g] = move[h] => g = h
      /\ \A y \in H : \E h \in H : move[h] = y
  BY DEF Bijection, Injection, Surjection, IsInjective
<1>2. \A r : r \in R <=> /\ r \in H \X (1..K) /\ r[2] <= owed[r[1]]
                         /\ key[r[1]] = v
  BY DEF ReleasesOf
<1>3. \A r : r \in R2 <=> /\ r \in H \X (1..K) /\ r[2] <= owed2[r[1]]
                          /\ key2[r[1]] = v
  BY DEF ReleasesOf
<1>4. IsFiniteSet(R) /\ IsFiniteSet(R2)
  BY FS_Subset
<1>5. \A h \in H : owed[h] \in 0..K /\ owed2[h] \in 0..K
  OBVIOUS
<1> USE DEF MovesTo
<1> HIDE DEF R, R2
<1>6. ASSUME NEW r \in R
      PROVE  f[r] \in S
  <2>1. r[1] \in H /\ r[2] \in 1..K /\ r[2] <= owed[r[1]] /\ key[r[1]] = v
    BY <1>2
  <2>2. /\ f[r] = <<move[r[1]], r[2]>> /\ move[r[1]] \in H
        /\ f[r][1] = move[r[1]] /\ f[r][2] = r[2]
    BY <1>1, <2>1
  <2>3. key2[move[r[1]]] = v
    BY <1>5, <2>1
  <2>4. r[2] <= owed2[move[r[1]]]
    BY <1>1, <1>5, <2>1
  <2>5. f[r] \in R2
    BY <1>3, <2>1, <2>2, <2>3, <2>4
  <2>6. f[r] # e
    BY <1>1, <1>5, <2>1, <2>2
  <2> QED  BY <2>5, <2>6
<1>7. f \in [R -> S]
  BY <1>6
<1>8. ASSUME NEW q \in R, NEW r \in R, f[q] = f[r]
      PROVE  q = r
  <2>1. q \in H \X (1..K) /\ r \in H \X (1..K)
    BY <1>2
  <2>2. f[q] = <<move[q[1]], q[2]>> /\ f[r] = <<move[r[1]], r[2]>>
    OBVIOUS
  <2>3. q[1] = r[1] /\ q[2] = r[2]
    BY <1>1, <1>8, <2>1, <2>2
  <2> QED  BY <2>1, <2>3
<1>9. ASSUME NEW s \in S
      PROVE  \E r \in R : f[r] = s
  <2>1. s \in R2 /\ (d = 1 /\ key2[move[h0]] = v => s # e)
    OBVIOUS
  <2>2. s \in H \X (1..K) /\ s[2] <= owed2[s[1]] /\ key2[s[1]] = v
    BY <1>3, <2>1
  <2>3. PICK h \in H : move[h] = s[1]
    BY <1>1, <2>2
  <2>4. s[2] <= owed[h]
    <3>1. CASE h # h0 \/ d = 0
      BY <1>5, <2>2, <2>3, <3>1
    <3>2. CASE h = h0 /\ d = 1
      <4>1. s[2] # owed[h0] + 1
        BY <2>1, <2>2, <2>3, <3>2
      <4>2. s[2] <= owed[h0] + 1
        BY <2>2, <2>3, <3>2
      <4> QED  BY <1>5, <2>2, <3>2, <4>1, <4>2
    <3> QED  BY <3>1, <3>2
  <2>5. owed[h] > 0 /\ key[h] = v
    BY <1>5, <2>2, <2>3, <2>4
  <2>6. <<h, s[2]>> \in R
    BY <1>2, <2>2, <2>4, <2>5
  <2>7. f[<<h, s[2]>>] = <<move[h], s[2]>>
    BY <2>6
  <2>8. <<move[h], s[2]>> = s
    BY <2>2, <2>3
  <2> QED  BY <2>6, <2>7, <2>8
<1>10. f \in Bijection(R, S)
  BY <1>7, <1>8, <1>9 DEF Bijection, Injection, Surjection, IsInjective
<1>11. Cardinality(S) = Cardinality(R) /\ Cardinality(R) \in Nat
  BY <1>4, <1>10, FS_Bijection, FS_CardinalityType DEF ExistsBijection
<1>12. Cardinality(R2) = Cardinality(R) + (IF d = 1 /\ key2[move[h0]] = v THEN 1 ELSE 0)
  <2>1. CASE d = 1 /\ key2[move[h0]] = v
    <3>1. e \in R2
      <4>1. owed[h0] + 1 = owed2[move[h0]] /\ owed2[move[h0]] \in 0..K /\ owed[h0] \in 0..K
        BY <1>1, <1>5, <2>1
      <4>2. e \in H \X (1..K) /\ e[1] = move[h0] /\ e[2] = owed[h0] + 1
        BY <1>1, <4>1
      <4> QED  BY <1>3, <2>1, <4>1, <4>2
    <3>2. Cardinality(R2 \ {e}) = Cardinality(R2) - 1 /\ Cardinality(R2) \in Nat
      <4>1. IsFiniteSet(R2)
        BY <1>4
      <4> HIDE DEF R2, e
      <4> QED  BY <3>1, <4>1, OneLess
    <3> QED  BY <1>11, <2>1, <3>2
  <2>2. CASE ~(d = 1 /\ key2[move[h0]] = v)
    BY <1>11, <2>2
  <2> QED  BY <2>1, <2>2
<1> QED
  BY <1>12 DEF Count, R, R2

\* What is owed at a place, to which object and from which pool.
InFrames(x) == x.page = 0 /\ x.slot \in 1..Len(frames)
OwedAt(x) ==
  IF x \in Places THEN Owed(At(x)) ELSE IF InFrames(x) THEN Taken(x).left ELSE 0
To(x) == IF x.page = 0 THEN Taken(x).obj ELSE At(x).obj
From(x) == PoolOf(IF x.page = 0 THEN Taken(x).entry ELSE x)

OwedMap == [x \in Positions |-> OwedAt(x)]
KeyMap == [x \in Positions |-> <<From(x), To(x)>>]

DueOK ==
  /\ PagesOK /\ frames \in Seq(Frames)
  /\ \A i \in 1..Len(frames) : frames[i].left <= MaxCount + 1

\* The places stay where they are.
LEMMA StayPut ==
  \E move \in Bijection(Positions, Positions) : \A x \in Positions : move[x] = x
<1> DEFINE move == [x \in Positions |-> x]
<1>1. move \in Bijection(Positions, Positions) /\ \A x \in Positions : move[x] = x
  BY DEF Bijection, Injection, Surjection, IsInjective
<1> QED
  BY <1>1

ReleasesAre ==
  /\ Releases = ReleasesOf(Positions, MaxCount + 1, OwedMap)
  /\ OwedMap \in [Positions -> 0..MaxCount + 1]
  /\ IsFiniteSet(Releases)
  /\ \A k, o : Due(k, o) = Count(Releases, KeyMap, <<k, o>>)

LEMMA ReleasesFacts == DueOK => ReleasesAre
<1> SUFFICES ASSUME DueOK PROVE ReleasesAre
  OBVIOUS
<1> DEFINE K == MaxCount + 1
           F == [page : {0}, slot : 1..Len(frames)]
<1>1. K \in Nat /\ Len(frames) \in Nat /\ PagesOK
  BY DEF DueOK
<1>2. ASSUME NEW x PROVE x \in F <=> x \in Positions /\ InFrames(x)
  BY <1>1 DEF Positions, InFrames
<1>3. ASSUME NEW x \in Places PROVE x \in Positions /\ ~InFrames(x) /\ Owed(At(x)) \in 0..K
  <2>1. x \in Positions /\ At(x) \in Entries /\ x.page # 0
    BY <1>1, PlaceFacts
  <2> QED  BY <2>1 DEF InFrames, Owed, Entries
<1>4. ASSUME NEW x \in Positions PROVE OwedAt(x) \in 0..K
  <2>1. CASE x \in Places
    BY <1>3, <2>1 DEF OwedAt
  <2>2. CASE x \notin Places /\ InFrames(x)
    <3>1. PICK i \in 1..Len(frames) : i = x.slot
      BY <2>2 DEF InFrames
    <3>2. frames[i] \in Frames /\ frames[i].left <= MaxCount + 1
      BY DEF DueOK
    <3>3. frames[i].left \in 0..K
      BY <1>1, <3>2 DEF Frames
    <3> QED  BY <2>2, <3>1, <3>3 DEF OwedAt, Taken
  <2>3. CASE x \notin Places /\ ~InFrames(x)
    BY <2>3 DEF OwedAt
  <2> QED  BY <2>1, <2>2, <2>3
<1>5. OwedMap \in [Positions -> 0..K]
  BY <1>4 DEF OwedMap
<1>6. ASSUME NEW r
      PROVE  r \in Releases <=> r \in Positions \X (1..K) /\ r[2] <= OwedAt(r[1])
  <2>1. ASSUME r \in Releases
        PROVE  r \in Positions \X (1..K) /\ r[2] <= OwedAt(r[1])
    <3>1. CASE r \in Places \X (1..K) /\ r[2] <= Owed(At(r[1]))
      <4>1. r[1] \in Places /\ r[1] \in Positions
        BY <1>3, <3>1
      <4> QED  BY <3>1, <4>1 DEF OwedAt
    <3>2. CASE r \in F \X (1..K) /\ r[2] <= Taken(r[1]).left
      <4>1. r[1] \in Positions /\ InFrames(r[1]) /\ r[1] \notin Places
        BY <1>2, <1>3, <3>2
      <4> QED  BY <3>2, <4>1 DEF OwedAt
    <3> QED  BY <2>1, <3>1, <3>2 DEF Releases
  <2>2. ASSUME r \in Positions \X (1..K), r[2] <= OwedAt(r[1])
        PROVE  r \in Releases
    <3>1. CASE r[1] \in Places
      BY <2>2, <3>1 DEF OwedAt, Releases
    <3>2. CASE r[1] \notin Places /\ InFrames(r[1])
      <4>1. r[1] \in F
        BY <1>2, <2>2, <3>2
      <4> QED  BY <2>2, <3>2, <4>1 DEF OwedAt, Releases
    <3>3. CASE r[1] \notin Places /\ ~InFrames(r[1])
      BY <1>1, <2>2, <3>3 DEF OwedAt
    <3> QED  BY <3>1, <3>2, <3>3
  <2> QED  BY <2>1, <2>2
<1>7. Releases = ReleasesOf(Positions, K, OwedMap)
  <2>1. \A r : r \in ReleasesOf(Positions, K, OwedMap)
                <=> r \in Positions \X (1..K) /\ r[2] <= OwedAt(r[1])
    BY DEF ReleasesOf, OwedMap
  <2> QED  BY <1>6, <2>1, Zenon
<1>8. IsFiniteSet(Releases)
  <2>1. IsFiniteSet(Places)
    BY <1>1, PlaceFacts
  <2>2. IsFiniteSet(F)
    <3>1. PICK n \in Nat : n = Len(frames)
      BY <1>1
    <3>2. IsFiniteSet([page : 0..0, slot : 1..n])
      <4>1. 0 \in Nat
        OBVIOUS
      <4> QED  BY <4>1, PlacesFinite, Zenon
    <3>3. F \subseteq [page : 0..0, slot : 1..n]
      BY <3>1
    <3> QED  BY <3>2, <3>3, FS_Subset
  <2>3. IsFiniteSet(1..K)
    BY <1>1, FS_Interval
  <2>4. IsFiniteSet(Places \X (1..K)) /\ IsFiniteSet(F \X (1..K))
    BY <2>1, <2>2, <2>3, FS_Product
  <2>5. IsFiniteSet((Places \X (1..K)) \cup (F \X (1..K)))
    BY <2>4, FS_Union
  <2>6. Releases \subseteq (Places \X (1..K)) \cup (F \X (1..K))
    BY DEF Releases
  <2> QED  BY <2>5, <2>6, FS_Subset
<1>9. ASSUME NEW k, NEW o PROVE Due(k, o) = Count(Releases, KeyMap, <<k, o>>)
  <2>1. ASSUME NEW r \in Releases
        PROVE  (Receiver(r) = o /\ Source(r) = k) <=> KeyMap[r[1]] = <<k, o>>
    <3>1. r[1] \in Positions
      BY <1>6
    <3>2. KeyMap[r[1]] = <<From(r[1]), To(r[1])>>
      BY <3>1 DEF KeyMap
    <3> QED  BY <3>2 DEF Receiver, Source, From, To
  <2>2. {r \in Releases : Receiver(r) = o /\ Source(r) = k}
          = {r \in Releases : KeyMap[r[1]] = <<k, o>>}
    BY <2>1
  <2> QED  BY <2>2 DEF Due, Count
<1> QED
  BY <1>5, <1>7, <1>8, <1>9 DEF ReleasesAre

LEMMA NextReleasesFacts == DueOK' => ReleasesAre'
BY ReleasesFacts, PTL

\* The releases that are due change by one at most: the places are moved, and at
\* one of them, h0, one more release is owed (or none: d = 0).
LEMMA DueMoved ==
  ASSUME DueOK, DueOK', NEW move \in Bijection(Positions, Positions),
         NEW h0 \in Positions, NEW d \in 0..1,
         \A h \in Positions : OwedMap[h] > 0 => KeyMap'[move[h]] = KeyMap[h],
         \A h \in Positions :
           OwedMap'[move[h]] = OwedMap[h] + (IF h = h0 THEN d ELSE 0)
  PROVE  \A k, o :
           Due(k, o)' = Due(k, o) +
             (IF d = 1 /\ KeyMap'[move[h0]] = <<k, o>> THEN 1 ELSE 0)
<1>1. PICK K \in Nat : K = MaxCount + 1
  OBVIOUS
<1>2. PICK R, owed, key :
        /\ R = Releases /\ owed = OwedMap /\ key = KeyMap
        /\ R = ReleasesOf(Positions, K, owed) /\ owed \in [Positions -> 0..K]
        /\ IsFiniteSet(R) /\ \A k, o : Due(k, o) = Count(R, key, <<k, o>>)
  BY <1>1, ReleasesFacts DEF ReleasesAre
<1>3. PICK R2, owed2, key2 :
        /\ R2 = Releases' /\ owed2 = OwedMap' /\ key2 = KeyMap'
        /\ R2 = ReleasesOf(Positions, K, owed2) /\ owed2 \in [Positions -> 0..K]
        /\ IsFiniteSet(R2) /\ \A k, o : Due(k, o)' = Count(R2, key2, <<k, o>>)
  BY <1>1, NextReleasesFacts DEF ReleasesAre
<1>4. MovesTo(Positions, owed, key, owed2, key2, move, h0, d)
  BY <1>2, <1>3 DEF MovesTo
<1>5. \A v : Count(R2, key2, v)
              = Count(R, key, v) + (IF d = 1 /\ key2[move[h0]] = v THEN 1 ELSE 0)
  <2>1. /\ owed \in [Positions -> 0..K] /\ owed2 \in [Positions -> 0..K]
        /\ IsFiniteSet(ReleasesOf(Positions, K, owed))
        /\ IsFiniteSet(ReleasesOf(Positions, K, owed2))
        /\ K \in Nat /\ d \in 0..1 /\ h0 \in Positions
        /\ move \in Bijection(Positions, Positions)
    BY <1>1, <1>2, <1>3
  <2>2. OneMoreDue(ReleasesOf(Positions, K, owed), key,
                   ReleasesOf(Positions, K, owed2), key2, key2[move[h0]], d)
    BY ONLY <1>4, <2>1, OneMoreOwed
  <2> QED  BY <1>2, <1>3, <2>2 DEF OneMoreDue
<1>6. ASSUME NEW k, NEW o
      PROVE  Due(k, o)' = Due(k, o) +
               (IF d = 1 /\ KeyMap'[move[h0]] = <<k, o>> THEN 1 ELSE 0)
  <2>1. Due(k, o)' = Count(R2, key2, <<k, o>>) /\ Due(k, o) = Count(R, key, <<k, o>>)
    BY <1>2, <1>3
  <2>2. Count(R2, key2, <<k, o>>)
          = Count(R, key, <<k, o>>) + (IF d = 1 /\ key2[move[h0]] = <<k, o>> THEN 1 ELSE 0)
    BY <1>5
  <2> QED  BY ONLY <1>3, <2>1, <2>2
<1> QED
  BY <1>6

\* One release less is due: the same, backwards, with the places as they are.
LEMMA DueTaken ==
  ASSUME DueOK, DueOK', NEW h0 \in Positions,
         \A h \in Positions : OwedMap'[h] > 0 => KeyMap'[h] = KeyMap[h],
         \A h \in Positions : OwedMap[h] = OwedMap'[h] + (IF h = h0 THEN 1 ELSE 0)
  PROVE  \A k, o :
           Due(k, o) = Due(k, o)' + (IF KeyMap[h0] = <<k, o>> THEN 1 ELSE 0)
<1>1. PICK K \in Nat : K = MaxCount + 1
  OBVIOUS
<1>2. PICK R, owed, key :
        /\ R = Releases /\ owed = OwedMap /\ key = KeyMap
        /\ R = ReleasesOf(Positions, K, owed) /\ owed \in [Positions -> 0..K]
        /\ IsFiniteSet(R) /\ \A k, o : Due(k, o) = Count(R, key, <<k, o>>)
  BY <1>1, ReleasesFacts DEF ReleasesAre
<1>3. PICK R2, owed2, key2 :
        /\ R2 = Releases' /\ owed2 = OwedMap' /\ key2 = KeyMap'
        /\ R2 = ReleasesOf(Positions, K, owed2) /\ owed2 \in [Positions -> 0..K]
        /\ IsFiniteSet(R2) /\ \A k, o : Due(k, o)' = Count(R2, key2, <<k, o>>)
  BY <1>1, NextReleasesFacts DEF ReleasesAre
<1>4. PICK move \in Bijection(Positions, Positions) : \A x \in Positions : move[x] = x
  BY StayPut
<1>5. PICK d \in 0..1 : d = 1
  OBVIOUS
<1>6. MovesTo(Positions, owed2, key2, owed, key, move, h0, d)
  BY <1>2, <1>3, <1>4, <1>5 DEF MovesTo
<1>7. \A v : Count(R, key, v)
              = Count(R2, key2, v) + (IF d = 1 /\ key[move[h0]] = v THEN 1 ELSE 0)
  <2>1. /\ owed \in [Positions -> 0..K] /\ owed2 \in [Positions -> 0..K]
        /\ IsFiniteSet(ReleasesOf(Positions, K, owed))
        /\ IsFiniteSet(ReleasesOf(Positions, K, owed2))
        /\ K \in Nat /\ d \in 0..1 /\ h0 \in Positions
        /\ move \in Bijection(Positions, Positions)
    BY <1>1, <1>2, <1>3
  <2>2. OneMoreDue(ReleasesOf(Positions, K, owed2), key2,
                   ReleasesOf(Positions, K, owed), key, key[move[h0]], d)
    BY ONLY <1>6, <2>1, OneMoreOwed
  <2> QED  BY <1>2, <1>3, <2>2 DEF OneMoreDue
<1>8. ASSUME NEW k, NEW o
      PROVE  Due(k, o) = Due(k, o)' + (IF KeyMap[h0] = <<k, o>> THEN 1 ELSE 0)
  <2>1. Due(k, o)' = Count(R2, key2, <<k, o>>) /\ Due(k, o) = Count(R, key, <<k, o>>)
    BY <1>2, <1>3
  <2>2. Count(R, key, <<k, o>>)
          = Count(R2, key2, <<k, o>>) + (IF d = 1 /\ key[move[h0]] = <<k, o>> THEN 1 ELSE 0)
    BY <1>7
  <2>3. move[h0] = h0
    BY <1>4
  <2> QED  BY ONLY <1>2, <1>5, <2>1, <2>2, <2>3
<1> QED
  BY <1>8

LEMMA Maps ==
  \A x \in Positions :
    /\ OwedMap[x] = OwedAt(x) /\ OwedMap'[x] = OwedAt(x)'
    /\ KeyMap[x] = <<From(x), To(x)>> /\ KeyMap'[x] = <<From(x)', To(x)'>>
BY DEF OwedMap, KeyMap

LEMMA DueAdded ==
  ASSUME DueOK, DueOK', NEW h0 \in Positions, NEW d \in 0..1,
         \A h \in Positions : OwedAt(h)' = OwedAt(h) + (IF h = h0 THEN d ELSE 0),
         \A h \in Positions : OwedAt(h) > 0 => To(h)' = To(h) /\ From(h)' = From(h)
  PROVE  \A k, o :
           Due(k, o)' = Due(k, o) +
             (IF d = 1 /\ From(h0)' = k /\ To(h0)' = o THEN 1 ELSE 0)
<1>1. PICK move \in Bijection(Positions, Positions) : \A x \in Positions : move[x] = x
  BY StayPut
<1>2. \A h \in Positions : OwedMap[h] > 0 => KeyMap'[move[h]] = KeyMap[h]
  BY <1>1, Maps
<1>3. \A h \in Positions : OwedMap'[move[h]] = OwedMap[h] + (IF h = h0 THEN d ELSE 0)
  BY <1>1, Maps
<1>4. \A k, o :
        Due(k, o)' = Due(k, o) +
          (IF d = 1 /\ KeyMap'[move[h0]] = <<k, o>> THEN 1 ELSE 0)
  BY <1>2, <1>3, DueMoved
<1>5. KeyMap'[move[h0]] = <<From(h0)', To(h0)'>>
  BY <1>1, Maps
<1> QED
  BY <1>4, <1>5

LEMMA DueNat ==
  ASSUME DueOK
  PROVE  \A k, o : Due(k, o) \in Nat
<1>1. IsFiniteSet(Releases)
  BY ReleasesFacts DEF ReleasesAre
<1>2. ASSUME NEW k, NEW o PROVE Due(k, o) \in Nat
  <2>1. IsFiniteSet({r \in Releases : Receiver(r) = o /\ Source(r) = k})
    BY <1>1, FS_Subset
  <2> QED  BY <2>1, FS_CardinalityType DEF Due
<1> QED
  BY <1>2

LEMMA DueSame ==
  ASSUME DueOK, DueOK', \A h \in Positions : OwedAt(h)' = OwedAt(h),
         \A h \in Positions : OwedAt(h) > 0 => To(h)' = To(h) /\ From(h)' = From(h)
  PROVE  \A k, o : Due(k, o)' = Due(k, o)
<1>1. \A h \in Positions : OwedAt(h) \in 0..MaxCount + 1
  BY ReleasesFacts, Maps DEF ReleasesAre
<1>2. PICK d \in 0..1 : d = 0
  OBVIOUS
<1>3. \A h \in Positions : OwedAt(h)' = OwedAt(h) + (IF h = Begin THEN d ELSE 0)
  BY <1>1, <1>2
<1>4. \A k, o :
        Due(k, o)' = Due(k, o) +
          (IF d = 1 /\ From(Begin)' = k /\ To(Begin)' = o THEN 1 ELSE 0)
  BY <1>3, PositionFacts, DueAdded
<1> QED
  BY <1>2, <1>4, DueNat

LEMMA DueLess ==
  ASSUME DueOK, DueOK', NEW h0 \in Positions,
         \A h \in Positions : OwedAt(h) = OwedAt(h)' + (IF h = h0 THEN 1 ELSE 0),
         \A h \in Positions : OwedAt(h)' > 0 => To(h)' = To(h) /\ From(h)' = From(h)
  PROVE  \A k, o :
           Due(k, o) = Due(k, o)' + (IF From(h0) = k /\ To(h0) = o THEN 1 ELSE 0)
<1>1. \A h \in Positions : OwedMap'[h] > 0 => KeyMap'[h] = KeyMap[h]
  BY Maps
<1>2. \A h \in Positions : OwedMap[h] = OwedMap'[h] + (IF h = h0 THEN 1 ELSE 0)
  BY Maps
<1>3. \A k, o :
        Due(k, o) = Due(k, o)' + (IF KeyMap[h0] = <<k, o>> THEN 1 ELSE 0)
  BY <1>1, <1>2, DueTaken
<1>4. KeyMap[h0] = <<From(h0), To(h0)>>
  BY Maps
<1> QED
  BY <1>3, <1>4

\* Nothing is due from a pool if no place that is owed a release is in it.
LEMMA NothingDue ==
  ASSUME DueOK, NEW k, \A h \in Positions : OwedAt(h) > 0 => From(h) # k
  PROVE  \A o : Due(k, o) = 0
<1> SUFFICES ASSUME NEW o PROVE Due(k, o) = 0
  OBVIOUS
<1>1. ASSUME NEW r \in Releases PROVE Source(r) # k
  <2>1. r \in ReleasesOf(Positions, MaxCount + 1, OwedMap)
    BY ReleasesFacts DEF ReleasesAre
  <2>2. r[1] \in Positions /\ r[2] \in 1..MaxCount + 1 /\ r[2] <= OwedMap[r[1]]
    BY <2>1 DEF ReleasesOf
  <2>3. OwedMap[r[1]] \in 0..MaxCount + 1 /\ OwedMap[r[1]] = OwedAt(r[1])
    BY <2>2, ReleasesFacts, Maps DEF ReleasesAre
  <2>4. OwedAt(r[1]) > 0
    BY <2>2, <2>3
  <2>5. From(r[1]) # k
    BY <2>2, <2>4
  <2> QED  BY <2>5 DEF From, Source
<1>2. {r \in Releases : Receiver(r) = o /\ Source(r) = k} = {}
  BY <1>1
<1> QED
  BY <1>2, FS_EmptySet DEF Due

-----------------------------------------------------------------------------
\* The pool of a place.
LEMMA PoolFacts ==
  ASSUME PagesOK
  PROVE  /\ Cardinality(Boundaries) \in Nat
         /\ \A x : PoolOf(x) \in 1..1 + Cardinality(Boundaries)
         /\ \A x : (\A b \in Boundaries : Before(b, x)) =>
                      PoolOf(x) = 1 + Cardinality(Boundaries)
         /\ \A b \in Boundaries : PoolOf(b) <= Cardinality(Boundaries)
         /\ \A x, y \in Positions : AtOrBefore(x, y) => PoolOf(x) <= PoolOf(y)
         /\ \A b \in Boundaries, y \in Positions :
              Before(b, y) => PoolOf(b) < PoolOf(y)
<1> DEFINE B == Boundaries
           Under(x) == {b \in B : Before(b, x)}
<1>1. IsFiniteSet(B) /\ Cardinality(B) \in Nat /\ B \subseteq Positions
  BY PlaceFacts, FS_CardinalityType
<1>2. \A x : PoolOf(x) = 1 + Cardinality(Under(x))
  BY DEF PoolOf
<1> HIDE DEF B
<1>3. ASSUME NEW x
      PROVE  /\ IsFiniteSet(Under(x)) /\ Cardinality(Under(x)) \in 0..Cardinality(B)
  <2>1. IsFiniteSet(Under(x)) /\ Cardinality(Under(x)) <= Cardinality(B)
    BY <1>1, FS_Subset
  <2> QED  BY <1>1, <2>1, FS_CardinalityType
<1>4. ASSUME NEW x, \A b \in B : Before(b, x) PROVE PoolOf(x) = 1 + Cardinality(B)
  <2>1. Under(x) = B
    BY <1>4
  <2> QED  BY <1>2, <2>1
<1>5. ASSUME NEW x, NEW y, Under(x) \subseteq Under(y)
      PROVE  PoolOf(x) <= PoolOf(y)
  <2>1. Cardinality(Under(x)) <= Cardinality(Under(y))
    BY <1>3, <1>5, FS_Subset
  <2> QED  BY <1>2, <1>3, <2>1
<1>6. ASSUME NEW x, NEW b \in B, ~Before(b, x), NEW T \in SUBSET B,
             Under(x) \subseteq T, b \in T
      PROVE  PoolOf(x) <= Cardinality(T)
  <2>1. IsFiniteSet(T) /\ Cardinality(T) \in Nat
    BY <1>1, FS_Subset, FS_CardinalityType
  <2>2. Cardinality(Under(x)) <= Cardinality(T) /\ Under(x) # T
    BY <1>6, <2>1, FS_Subset
  <2>3. Cardinality(Under(x)) # Cardinality(T)
    BY <1>6, <2>1, <2>2, FS_Subset
  <2> QED  BY <1>2, <1>3, <2>1, <2>2, <2>3
<1>7. \A x \in Positions : ~Before(x, x)
  BY PositionFacts DEF Before
<1>8. \A x, y, z \in Positions : Before(x, y) /\ AtOrBefore(y, z) => Before(x, z)
  BY PositionFacts DEF Before, AtOrBefore
<1>9. \A b \in B : PoolOf(b) <= Cardinality(B)
  BY <1>1, <1>6, <1>7
<1>10. ASSUME NEW x \in Positions, NEW y \in Positions, AtOrBefore(x, y)
       PROVE  PoolOf(x) <= PoolOf(y)
  BY <1>1, <1>5, <1>8, <1>10
<1>11. ASSUME NEW b \in B, NEW y \in Positions, Before(b, y)
       PROVE  PoolOf(b) < PoolOf(y)
  <2>1. Under(b) \subseteq Under(y)
    <3>1. AtOrBefore(b, y) /\ b \in Positions
      <4>1. b \in Positions /\ b.slot \in Nat /\ y.slot \in Nat
        BY <1>1, PositionFacts
      <4> QED  BY <1>11, <4>1 DEF Before, AtOrBefore
    <3> SUFFICES ASSUME NEW c \in B, Before(c, b) PROVE Before(c, y)
      OBVIOUS
    <3> QED  BY <1>1, <1>8, <3>1
  <2>2. b \in Under(y) /\ Under(y) \in SUBSET B
    BY <1>11
  <2>3. PoolOf(b) <= Cardinality(Under(y))
    BY <1>1, <1>6, <1>7, <2>1, <2>2
  <2>4. Cardinality(Under(y)) \in Nat
    BY <1>1, <1>3
  <2>5. PoolOf(y) = 1 + Cardinality(Under(y))
    BY <1>2
  <2>6. PoolOf(b) = 1 + Cardinality(Under(b)) /\ Cardinality(Under(b)) \in Nat
    BY <1>1, <1>2, <1>3
  <2> QED  BY ONLY <2>3, <2>4, <2>5, <2>6
<1>12. \A x : PoolOf(x) \in 1..1 + Cardinality(B)
  <2> SUFFICES ASSUME NEW x PROVE PoolOf(x) \in 1..1 + Cardinality(B)
    OBVIOUS
  <2>1. PoolOf(x) = 1 + Cardinality(Under(x))
    BY <1>2
  <2>2. Cardinality(Under(x)) \in 0..Cardinality(B)
    BY <1>3
  <2> QED  BY ONLY <1>1, <2>1, <2>2
<1> QED
  BY <1>1, <1>4, <1>9, <1>10, <1>11, <1>12 DEF B

-----------------------------------------------------------------------------
(***************************************************************************)
(* EntryInv: what the pops in progress have taken, and from where.         *)
(***************************************************************************)

\* What a pop in progress took last lies at or above its stop, and at or below
\* the tokens that are younger than the pop; a release that it owes or is in
\* lies above its stop; and its stop is a boundary until it is taken.
EntryOK(f) ==
  /\ f.left <= MaxCount + 1
  /\ f.obj = Boundary => f.left = 0 /\ ~f.running
  /\ InStack(f.entry) /\ AtOrBefore(f.stop, f.entry)
  /\ f.running \/ f.left > 0 => f.exit \/ Before(f.stop, f.entry)
  /\ f.exit \/ IsBoundary(f.stop) \/ (Reached(f) /\ ~f.running /\ f.left = 0)
  /\ \A j \in f.base + 1..Len(tokens) : AtOrBefore(f.entry, tokens[j])

EntryInv ==
  /\ \A i \in 1..Len(frames), f \in Frames : f = frames[i] => EntryOK(f)
  /\ \A i, k \in 1..Len(frames) : i < k => AtOrBefore(frames[i].entry, frames[k].stop)

\* The order of the places is linear.
LEMMA Order ==
  /\ \A x \in Positions : ~Before(x, x) /\ AtOrBefore(x, x)
  /\ \A x, y \in Positions : AtOrBefore(x, y) <=> ~Before(y, x)
  /\ \A x, y \in Positions : AtOrBefore(x, y) <=> Before(x, y) \/ x = y
  /\ \A x, y, z \in Positions : AtOrBefore(x, y) /\ AtOrBefore(y, z) => AtOrBefore(x, z)
  /\ \A x, y, z \in Positions : Before(x, y) /\ AtOrBefore(y, z) => Before(x, z)
  /\ \A x, y, z \in Positions : AtOrBefore(x, y) /\ Before(y, z) => Before(x, z)
<1>1. \A x \in Positions : x.page \in Nat /\ x.slot \in Nat
  BY PositionFacts
<1>2. \A x, y \in Positions : x.page = y.page /\ x.slot = y.slot => x = y
  BY SamePosition
<1> QED
  BY <1>1, <1>2 DEF Before, AtOrBefore

\* A pop in progress, one by one.
LEMMA EntryFacts ==
  ASSUME Core, EntryInv, NEW i \in 1..Len(frames)
  PROVE  /\ EntryOK(frames[i]) /\ frames[i] \in Frames /\ frames[i].left <= MaxCount + 1
         /\ frames[i].entry \in Positions /\ frames[i].stop \in Positions
         /\ frames[i].running =>
              frames[i].obj # Boundary /\ (frames[i].exit \/ IsBoundary(frames[i].stop))
<1>1. frames[i] \in Frames /\ EntryOK(frames[i])
  BY FrameFacts DEF EntryInv
<1> QED
  BY <1>1 DEF EntryOK, Frames

LEMMA DueOKHolds ==
  ASSUME Core, EntryInv
  PROVE  DueOK
BY EntryFacts DEF DueOK, Core

LEMMA DueOKNext == Core' /\ EntryInv' => DueOK'
<1>1. Core /\ EntryInv => DueOK
  BY DueOKHolds
<1> QED  BY <1>1, PTL

\* The tokens are boundaries, so none is younger than what is on top.
LEMMA EntryInvGrown ==
  ASSUME Core, EntryInv, Grown, ProgramRuns, frames' = frames,
         \/ tokens' = tokens
         \/ tokens' = Append(tokens, Position(hot', Len(pages'[hot']))) /\ Pushed
  PROVE  EntryInv'
<1>1. ASSUME NEW i \in 1..Len(frames), NEW f \in Frames, f = frames[i]
      PROVE  EntryOK(f)'
  <2>1. /\ EntryOK(f) /\ f.entry \in Positions /\ f.stop \in Positions
        /\ f.base \in Nat /\ StopInv(f) /\ hot > 0
    BY <1>1, EntryFacts, FrameFacts
  <2>2. f.running
    <3>1. frames # <<>>
      BY <2>1, <1>1
    <3> QED  BY <1>1, <3>1, TopFacts DEF ProgramRuns, Top, Core, FrameInv
  <2>3. f.exit \/ IsBoundary(f.stop)'
    BY <2>1, <2>2 DEF EntryOK, Grown
  <2>4. InStack(f.entry)'
    <3>1. PICK x \in Positions : x = f.entry
      BY <2>1
    <3>2. InStack(x)'
      BY <2>1, <3>1, InStackGrown DEF EntryOK
    <3> QED  BY <3>1, <3>2 DEF InStack
  <2>5. ASSUME NEW j \in f.base + 1..Len(tokens')
        PROVE  AtOrBefore(f.entry, tokens'[j])
    <3>1. CASE tokens' = tokens
      BY <2>1, <2>5, <3>1 DEF EntryOK
    <3>2. CASE tokens' = Append(tokens, Position(hot', Len(pages'[hot']))) /\ Pushed
      <4>1. /\ hot' \in Nat /\ Len(pages'[hot']) \in Nat /\ Len(pages[hot]) \in Nat
            /\ hot \in Nat
        <5>1. hot \in 1..Len(pages) /\ hot \in Nat /\ Len(pages[hot]) \in Nat
          BY <2>1, PagesFacts DEF Core
        <5>2. PagesOK' /\ hot' >= 1
          BY DEF Grown
        <5>3. hot' \in 1..Len(pages') /\ hot' \in Nat
          BY <5>2, NextPagesFacts
        <5>4. Len(pages'[hot']) \in 0..PageSize
          BY <5>2, <5>3, NextPagesFacts
        <5> QED  BY <5>1, <5>3, <5>4
      <4>2. PICK new \in Positions :
              /\ new = Position(hot', Len(pages'[hot']))
              /\ new.page = hot' /\ new.slot = Len(pages'[hot'])
        BY <4>1, PositionFacts
      <4>3. /\ Len(tokens) \in Nat /\ Len(tokens') = Len(tokens) + 1
            /\ \A m \in 1..Len(tokens) : tokens'[m] = tokens[m]
            /\ tokens'[Len(tokens) + 1] = new
        BY <3>2, <4>2, AppendProperties DEF Core
      <4>4. CASE j \in f.base + 1..Len(tokens)
        <5>1. tokens'[j] = tokens[j]
          BY <2>1, <4>3, <4>4
        <5> QED  BY <2>1, <4>4, <5>1 DEF EntryOK
      <4>5. CASE j = Len(tokens) + 1
        <5>1. f.entry.page \in Nat /\ f.entry.slot \in Nat
          BY <2>1, PositionFacts
        <5>2. hot' > hot \/ (hot' = hot /\ new.slot = Len(pages[hot]) + 1)
          BY <2>1, <3>2, <4>2 DEF Pushed
        <5>3. \/ f.entry.page < hot
              \/ f.entry.page = hot /\ f.entry.slot <= Len(pages[hot]) + 1
          BY <2>1 DEF EntryOK, InStack
        <5>4. AtOrBefore(f.entry, new)
          BY <4>1, <4>2, <5>1, <5>2, <5>3 DEF AtOrBefore
        <5> QED  BY <4>3, <4>5, <5>4
      <4>6. j \in f.base + 1..Len(tokens) \/ j = Len(tokens) + 1
        BY <2>1, <2>5, <4>3
      <4> QED  BY <4>4, <4>5, <4>6
    <3> QED  BY <3>1, <3>2
  <2> QED  BY <2>1, <2>2, <2>3, <2>4, <2>5
           DEF EntryOK, InStack, IsBoundary, Reached, AtOrBefore, Before
<1> QED
  BY <1>1 DEF EntryInv, AtOrBefore

\* With the same pages, and no more tokens, a pop is as right as it was.
LEMMA EntryKept ==
  ASSUME Core, pages' = pages, hot' = hot, NEW n \in 0..Len(tokens),
         tokens' = SubSeq(tokens, 1, n)
  PROVE  \A f \in Frames : EntryOK(f) => EntryOK(f)'
<1>1. /\ Len(tokens') = n /\ Len(tokens) \in Nat
      /\ \A j \in 1..n : j \in 1..Len(tokens) /\ tokens'[j] = tokens[j]
  BY FewerTokens DEF Core
<1>2. ASSUME NEW f \in Frames, EntryOK(f) PROVE EntryOK(f)'
  <2>1. f.base \in Nat
    BY DEF Frames
  <2>2. \A j \in f.base + 1..Len(tokens') : AtOrBefore(f.entry, tokens'[j])
    <3> SUFFICES ASSUME NEW j \in f.base + 1..Len(tokens')
                 PROVE  AtOrBefore(f.entry, tokens'[j])
      OBVIOUS
    <3>1. j \in 1..n /\ j \in f.base + 1..Len(tokens)
      BY <1>1, <2>1
    <3> QED  BY <1>1, <1>2, <3>1 DEF EntryOK
  <2> QED  BY <1>2, <2>2 DEF EntryOK, InStack, IsBoundary, Reached, AtOrBefore, Before
<1> QED
  BY <1>2

LEMMA AllTokens == Core => tokens = SubSeq(tokens, 1, Len(tokens)) /\ Len(tokens) \in 0..Len(tokens)
<1>1. tokens \in Seq(Positions) => tokens = SubSeq(tokens, 1, Len(tokens))
  BY SubSeqProperties
<1> QED  BY <1>1 DEF Core

\* The frames that a step which replaces the innermost one leaves.
LEMMA FramesReplaced ==
  ASSUME Core, frames # <<>>, NEW f \in Frames, SetTop(f)
  PROVE  /\ Len(frames') = Len(frames) /\ Len(frames) \in 1..Len(frames)
         /\ \A i \in 1..Len(frames) :
              frames'[i] = IF i = Len(frames) THEN f ELSE frames[i]
         /\ Top' = f /\ Len(frames) \in Nat /\ frames' # <<>>
<1>1. Len(frames) \in 1..Len(frames) /\ Len(frames) \in Nat
  BY TopFacts
<1>2. /\ frames' \in Seq(Frames) /\ Len(frames') = Len(frames)
      /\ \A i \in 1..Len(frames) : frames'[i] = IF i = Len(frames) THEN f ELSE frames[i]
  BY ExceptSeq DEF SetTop, Core
<1> QED
  BY <1>1, <1>2 DEF Top

LEMMA StartPopFacts ==
  ASSUME Core, NEW i \in 1..Len(tokens), StartPop(i)
  PROVE  \E f \in Frames :
           /\ f = Frame(Stop(tokens[i]), i - 1, FALSE) /\ frames' = Append(frames, f)
           /\ f.stop = Stop(tokens[i]) /\ f.stop \in Positions /\ IsBoundary(f.stop)
           /\ pages' = pages /\ hot' = hot /\ tokens' = SubSeq(tokens, 1, i - 1)
           /\ hot > 0 /\ i - 1 \in 0..Len(tokens) /\ i \in Base + 1..Len(tokens)
<1>1. tokens[i] \in Positions /\ i \in Base + 1..Len(tokens) /\ Len(tokens) \in Nat
  BY DEF StartPop, MayPop, Core
<1>2. hot > 0
  <2> SUFFICES ASSUME hot <= 0 PROVE FALSE
    BY PagesFacts DEF Core
  <2>1. pages = <<>> /\ tokens[i] # PlaceholderToken
    BY DEF StartPop, NoPage, Core, PagesOK
  <2> QED  BY <2>1 DEF Core, TokenInv, TokensLive, IsBoundary
<1>3. PICK stop \in Positions : stop = Stop(tokens[i])
  BY <1>1, PositionFacts
<1>4. IsBoundary(stop)
  BY <1>2, <1>3, StopIsBoundary
<1>5. PICK f \in Frames : f = Frame(stop, i - 1, FALSE)
  <2>1. i - 1 \in Nat
    OBVIOUS
  <2> QED  BY <2>1 DEF Frame, Frames
<1>6. frames' = Append(frames, f) /\ pages' = pages /\ hot' = hot
      /\ tokens' = SubSeq(tokens, 1, i - 1)
  BY <1>3, <1>4, <1>5 DEF StartPop, MayPop, BadPop
<1>7. f.stop = stop
  BY <1>5 DEF Frame
<1>8. i - 1 \in 0..Len(tokens)
  BY <1>1
<1> QED
  BY <1>1, <1>2, <1>3, <1>4, <1>5, <1>6, <1>7, <1>8

LEMMA StartPopEntries ==
  ASSUME Core, EntryInv, NEW i \in 1..Len(tokens), StartPop(i)
  PROVE  EntryInv'
<1>1. PICK f \in Frames :
        /\ f = Frame(Stop(tokens[i]), i - 1, FALSE) /\ frames' = Append(frames, f)
        /\ f.stop = Stop(tokens[i]) /\ f.stop \in Positions /\ IsBoundary(f.stop)
        /\ pages' = pages /\ hot' = hot /\ tokens' = SubSeq(tokens, 1, i - 1)
        /\ hot > 0 /\ i - 1 \in 0..Len(tokens) /\ i \in Base + 1..Len(tokens)
  BY StartPopFacts
<1>2. /\ Len(frames) \in Nat /\ Len(frames') = Len(frames) + 1
      /\ \A k \in 1..Len(frames) : frames'[k] = frames[k]
      /\ frames'[Len(frames) + 1] = f
  <2>1. frames \in Seq(Frames) /\ frames' = Append(frames, f)
    BY <1>1 DEF Core
  <2> QED  BY <2>1, AppendProperties
<1>3. \A g \in Frames : EntryOK(g) => EntryOK(g)'
  BY <1>1, EntryKept
<1>4. EntryOK(f)'
  <2>1. /\ f.left = 0 /\ f.obj = Boundary /\ ~f.running /\ f.entry = f.stop
        /\ f.base = i - 1
    BY <1>1 DEF Frame
  <2>2. InStack(f.stop)
    <3>1. f.stop \in Places
      BY <1>1, PlaceFacts DEF Core, IsBoundary
    <3> QED  BY <3>1, PlaceInStack DEF Core
  <2>3. Len(tokens') = i - 1
    BY <1>1, FewerTokens
  <2>4. AtOrBefore(f.stop, f.entry)
    BY <1>1, <2>1, Order
  <2>5. \A j \in f.base + 1..Len(tokens') : FALSE
    BY <2>1, <2>3
  <2>6. InStack(f.stop)' /\ IsBoundary(f.stop)'
    BY <1>1, <2>2 DEF InStack, IsBoundary
  <2>7. f.left <= MaxCount + 1 /\ f.left = 0
    BY <2>1
  <2> QED  BY <2>1, <2>4, <2>5, <2>6, <2>7 DEF EntryOK, AtOrBefore, InStack
<1>5. ASSUME NEW k \in 1..Len(frames)
      PROVE  AtOrBefore(frames[k].entry, f.stop)
  <2>1. /\ EntryOK(frames[k]) /\ StopInv(frames[k]) /\ frames[k].base \in Nat
        /\ frames # <<>>
    BY EntryFacts, FrameFacts
  <2>2. frames[k].base <= Top.base /\ Base = Top.base /\ Top.base \in Nat
    BY <2>1, TopFacts DEF Base, Core, FrameInv, Top
  <2>3. i \in frames[k].base + 1..Len(tokens)
    BY <1>1, <2>1, <2>2
  <2>4. AtOrBefore(frames[k].entry, tokens[i])
    BY <2>1, <2>3 DEF EntryOK
  <2>5. tokens[i] # PlaceholderToken
    BY <2>1, <2>3 DEF StopInv
  <2> QED  BY <1>1, <2>4, <2>5 DEF Stop
<1>6. ASSUME NEW k \in 1..Len(frames'), NEW g \in Frames, g = frames'[k]
      PROVE  EntryOK(g)'
  <2>1. CASE k \in 1..Len(frames)
    BY <1>2, <1>3, <1>6, <2>1 DEF EntryInv
  <2>2. CASE k = Len(frames) + 1
    BY <1>2, <1>4, <1>6, <2>2
  <2> QED  BY <1>2, <2>1, <2>2
<1>7. ASSUME NEW j \in 1..Len(frames'), NEW k \in 1..Len(frames'), j < k
      PROVE  AtOrBefore(frames'[j].entry, frames'[k].stop)
  <2>1. j \in 1..Len(frames) /\ frames'[j] = frames[j]
    BY <1>2, <1>7
  <2>2. CASE k \in 1..Len(frames)
    BY <1>2, <1>7, <2>1, <2>2 DEF EntryInv
  <2>3. CASE k = Len(frames) + 1
    BY <1>2, <1>5, <2>1, <2>3
  <2> QED  BY <1>2, <2>2, <2>3
<1> QED
  BY <1>6, <1>7 DEF EntryInv, AtOrBefore

\* The innermost pop is replaced by f, of the same stop.
LEMMA EntriesReplaced ==
  ASSUME Core, EntryInv, frames # <<>>, NEW f \in Frames, SetTop(f),
         f.stop = Top.stop, EntryOK(f)',
         \A i \in 1..Len(frames), g \in Frames :
           i # Len(frames) /\ g = frames[i] => EntryOK(g)'
  PROVE  EntryInv'
<1>1. /\ Len(frames') = Len(frames) /\ Len(frames) \in 1..Len(frames)
      /\ \A i \in 1..Len(frames) :
           frames'[i] = IF i = Len(frames) THEN f ELSE frames[i]
      /\ Len(frames) \in Nat
  BY FramesReplaced
<1>2. \A i \in 1..Len(frames'), g \in Frames : g = frames'[i] => EntryOK(g)'
  BY <1>1
<1>3. ASSUME NEW i \in 1..Len(frames'), NEW k \in 1..Len(frames'), i < k
      PROVE  AtOrBefore(frames'[i].entry, frames'[k].stop)
  <2>1. i # Len(frames) /\ frames'[i] = frames[i]
    BY <1>1, <1>3
  <2>2. frames'[k].stop = frames[k].stop
    BY <1>1 DEF Top
  <2> QED  BY <1>1, <1>3, <2>1, <2>2 DEF EntryInv
<1> QED
  BY <1>2, <1>3 DEF EntryInv, AtOrBefore

LEMMA ReleaseFacts ==
  ASSUME Core, Release
  PROVE  \E f \in Frames :
           /\ SetTop(f) /\ f = [Top EXCEPT !.left = Top.left - 1, !.running = TRUE]
           /\ f.stop = Top.stop /\ f.base = Top.base /\ f.exit = Top.exit
           /\ f.entry = Top.entry /\ f.obj = Top.obj /\ f.running
           /\ f.left = Top.left - 1 /\ Top.left \in Nat /\ Top.left > 0
           /\ frames # <<>> /\ ~Top.running
           /\ pages' = pages /\ hot' = hot /\ tokens' = tokens
<1>1. Top \in Frames /\ Top.left \in Nat /\ Top.left > 0 /\ frames # <<>> /\ ~Top.running
  BY TopFacts DEF Release
<1>2. PICK f \in Frames : f = [Top EXCEPT !.left = Top.left - 1, !.running = TRUE]
  <2>1. Top.left - 1 \in Nat
    BY <1>1
  <2>2. [Top EXCEPT !.left = Top.left - 1, !.running = TRUE] \in Frames
    BY <1>1, <2>1 DEF Frames
  <2> QED  BY <2>2
<1>3. /\ f.stop = Top.stop /\ f.base = Top.base /\ f.exit = Top.exit
      /\ f.entry = Top.entry /\ f.obj = Top.obj /\ f.running /\ f.left = Top.left - 1
  BY <1>1, <1>2 DEF Frames
<1> QED
  BY <1>1, <1>2, <1>3 DEF Release

LEMMA ReleaseEntries ==
  ASSUME Core, EntryInv, Release
  PROVE  EntryInv'
<1>1. PICK f \in Frames :
        /\ SetTop(f) /\ f = [Top EXCEPT !.left = Top.left - 1, !.running = TRUE]
        /\ f.stop = Top.stop /\ f.base = Top.base /\ f.exit = Top.exit
        /\ f.entry = Top.entry /\ f.obj = Top.obj /\ f.running
        /\ f.left = Top.left - 1 /\ Top.left \in Nat /\ Top.left > 0
        /\ frames # <<>> /\ ~Top.running
        /\ pages' = pages /\ hot' = hot /\ tokens' = tokens
  BY ReleaseFacts
<1>2. \A g \in Frames : EntryOK(g) => EntryOK(g)'
  BY <1>1, EntryKept, AllTokens
<1>3. EntryOK(Top) /\ Top \in Frames
  BY <1>1, TopFacts, EntryFacts DEF Top
<1>4. EntryOK(f)
  <2>1. Top.obj # Boundary /\ (Top.exit \/ Before(Top.stop, Top.entry))
    BY <1>1, <1>3 DEF EntryOK
  <2>2. Top.exit \/ IsBoundary(Top.stop)
    BY <1>1, <1>3 DEF EntryOK
  <2>3. f.left <= MaxCount + 1
    BY <1>1, <1>3 DEF EntryOK
  <2> QED  BY <1>1, <1>3, <2>1, <2>2, <2>3 DEF EntryOK
<1> QED
  BY <1>1, <1>2, <1>4, EntriesReplaced DEF EntryInv

LEMMA ReturnFacts ==
  ASSUME Core, ReleaseReturns
  PROVE  \E f \in Frames :
           /\ SetTop(f) /\ f.stop = Top.stop /\ f.base = Top.base /\ f.exit = Top.exit
           /\ f.entry = Top.entry /\ f.obj = Top.obj /\ ~f.running
           /\ f.left = Top.left /\ Top.base \in 0..Len(tokens)
           /\ frames # <<>> /\ Top.running
           /\ pages' = pages /\ hot' = hot /\ tokens' = SubSeq(tokens, 1, Top.base)
<1>1. Top \in Frames /\ frames # <<>> /\ Top.running /\ Top.base \in 0..Len(tokens)
  BY TopFacts DEF ReleaseReturns
<1>2. PICK f \in Frames : f = [Top EXCEPT !.running = FALSE]
  BY <1>1 DEF Frames
<1>3. /\ f.stop = Top.stop /\ f.base = Top.base /\ f.exit = Top.exit
      /\ f.entry = Top.entry /\ f.obj = Top.obj /\ ~f.running /\ f.left = Top.left
  BY <1>1, <1>2 DEF Frames
<1> QED
  BY <1>1, <1>2, <1>3 DEF ReleaseReturns

LEMMA ReturnEntries ==
  ASSUME Core, EntryInv, ReleaseReturns
  PROVE  EntryInv'
<1>1. PICK f \in Frames :
        /\ SetTop(f) /\ f.stop = Top.stop /\ f.base = Top.base /\ f.exit = Top.exit
        /\ f.entry = Top.entry /\ f.obj = Top.obj /\ ~f.running
        /\ f.left = Top.left /\ Top.base \in 0..Len(tokens)
        /\ frames # <<>> /\ Top.running
        /\ pages' = pages /\ hot' = hot /\ tokens' = SubSeq(tokens, 1, Top.base)
  BY ReturnFacts
<1>2. \A g \in Frames : EntryOK(g) => EntryOK(g)'
  BY <1>1, EntryKept
<1>3. EntryOK(Top) /\ Top \in Frames
  BY <1>1, TopFacts, EntryFacts DEF Top
<1>4. EntryOK(f)
  <2>1. Top.exit \/ IsBoundary(Top.stop)
    BY <1>1, <1>3 DEF EntryOK
  <2>2. f.left > 0 => f.exit \/ Before(f.stop, f.entry)
    BY <1>1, <1>3 DEF EntryOK
  <2>3. f.obj # Boundary
    BY <1>1, <1>3 DEF EntryOK
  <2> QED  BY <1>1, <1>3, <2>1, <2>2, <2>3 DEF EntryOK
<1> QED
  BY <1>1, <1>2, <1>4, EntriesReplaced DEF EntryInv

\* The boundary of the innermost pop has been taken.
Over == frames # <<>> /\ ~Top.exit /\ Reached(Top)

LEMMA PopPageFacts ==
  ASSUME Core, PopPage
  PROVE  /\ Over /\ frames # <<>> /\ ~Top.running /\ Top.left = 0 /\ tokens' = tokens
         /\ hot' = hot /\ hot \in 1..Len(pages) /\ hot \in 1..Len(pages')
         /\ \A q \in 1..Len(pages') : q \in 1..Len(pages) /\ pages'[q] = pages[q]
         /\ \A q \in 1..Len(pages) : q <= hot => q \in 1..Len(pages')
         /\ Len(frames') = Len(frames) - 1 /\ Len(frames) \in Nat
         /\ \A i \in 1..Len(frames') :
              i \in 1..Len(frames) /\ i < Len(frames) /\ frames'[i] = frames[i]
<1>1. /\ frames # <<>> /\ ~Top.running /\ Releasing /\ Reached(Top) /\ ~Top.exit
      /\ hot' = Top.stop.page /\ tokens' = tokens
      /\ pages' = SubSeq(pages, 1, Kept(Top.stop.page)) /\ frames' = Drop(frames)
  BY DEF PopPage, Releasing
<1>2. Top.stop.page = hot /\ hot' = hot /\ hot \in 1..Len(pages) /\ hot \in Nat
  BY <1>1, ReachedIsHot
<1>3. PICK n \in hot..Len(pages) : n = Kept(hot)
  BY <1>2, PagesFacts DEF Kept, Core
<1>4. /\ Len(pages') = n
      /\ \A q \in 1..n : q \in 1..Len(pages) /\ pages'[q] = pages[q]
  BY SMTT(30), <1>1, <1>2, <1>3, SubSeqProperties DEF Core, PagesOK
<1>5. /\ Len(frames') = Len(frames) - 1 /\ Len(frames) \in Nat
      /\ \A i \in 1..Len(frames') :
           i \in 1..Len(frames) /\ i < Len(frames) /\ frames'[i] = frames[i]
  <2>1. Len(frames) \in Nat \ {0} /\ frames \in Seq(Frames)
    BY <1>1, TopFacts DEF Core
  <2>2. PICK m \in 0..Len(frames) : m = Len(frames) - 1 /\ frames' = SubSeq(frames, 1, m)
    BY <1>1, <2>1 DEF Drop
  <2>3. Len(frames') = m /\ \A i \in 1..m : frames'[i] = frames[i]
    BY <2>1, <2>2, SubSeqProperties
  <2> QED  BY <2>1, <2>2, <2>3
<1>6. Over /\ Top.left = 0
  BY <1>1 DEF Over, Releasing
<1>7. /\ hot \in 1..Len(pages')
      /\ \A q \in 1..Len(pages) : q <= hot => q \in 1..Len(pages')
  BY <1>2, <1>3, <1>4
<1> QED
  BY <1>1, <1>2, <1>4, <1>5, <1>6, <1>7

LEMMA PopPageEntries ==
  ASSUME Core, EntryInv, PopPage
  PROVE  EntryInv'
<1>1. /\ tokens' = tokens /\ hot' = hot /\ hot \in 1..Len(pages) /\ hot \in 1..Len(pages')
      /\ \A q \in 1..Len(pages') : q \in 1..Len(pages) /\ pages'[q] = pages[q]
      /\ \A q \in 1..Len(pages) : q <= hot => q \in 1..Len(pages')
      /\ Len(frames') = Len(frames) - 1 /\ Len(frames) \in Nat
      /\ \A i \in 1..Len(frames') :
           i \in 1..Len(frames) /\ i < Len(frames) /\ frames'[i] = frames[i]
  BY PopPageFacts
<1>2. ASSUME NEW x \in Positions, IsBoundary(x) PROVE IsBoundary(x)'
  <2>1. x.page \in 1..Len(pages) /\ x.slot \in 1..Len(pages[x.page])
    BY <1>2 DEF IsBoundary
  <2>2. x.page <= hot
    BY <1>1, <2>1, PagesFacts DEF Core, OneStack, Empty
  <2>3. x.page \in 1..Len(pages')
    BY <1>1, <2>1, <2>2
  <2> QED  BY <1>1, <1>2, <2>3 DEF IsBoundary
<1>3. ASSUME NEW i \in 1..Len(frames'), NEW f \in Frames, f = frames'[i]
      PROVE  EntryOK(f)'
  <2>1. EntryOK(f) /\ f.stop \in Positions /\ f.running
    BY <1>1, <1>3, EntryFacts DEF Core, FrameInv
  <2>2. f.exit \/ IsBoundary(f.stop)'
    BY <1>2, <2>1 DEF EntryOK
  <2>3. InStack(f.entry)'
    <3>1. pages'[hot] = pages[hot]
      BY <1>1
    <3> QED  BY <1>1, <2>1, <3>1 DEF EntryOK, InStack
  <2> QED  BY <1>1, <2>1, <2>2, <2>3 DEF EntryOK, Before, AtOrBefore, InStack, IsBoundary
<1>4. ASSUME NEW i \in 1..Len(frames'), NEW k \in 1..Len(frames'), i < k
      PROVE  AtOrBefore(frames'[i].entry, frames'[k].stop)
  BY <1>1, <1>4 DEF EntryInv
<1> QED
  BY <1>3, <1>4 DEF EntryInv, AtOrBefore

LEMMA NoEntries ==
  ASSUME frames' = <<>>
  PROVE  EntryInv'
BY DEF EntryInv

LEMMA ThreadExitEntries ==
  ASSUME Core, ThreadExit
  PROVE  EntryInv'
<1>1. CASE frames' = <<>>
  BY <1>1, NoEntries
<1>2. CASE frames' # <<>>
  <2>1. /\ frames' = <<Frame(Begin, 0, TRUE)>> /\ pages' = pages /\ hot' = hot
        /\ tokens' = <<>> /\ hot # NoPage /\ hot # EmptyPoolPlaceholder
    BY <1>2 DEF ThreadExit
  <2>2. hot > 0 /\ hot \in 1..Len(pages) /\ Len(pages[hot]) \in Nat
    <3>1. hot > 0 /\ hot \in 1..Len(pages)
      BY <2>1, PagesFacts DEF Core, PagesOK, NoPage, EmptyPoolPlaceholder
    <3> QED  BY <3>1, PagesFacts DEF Core
  <2>3. PICK f \in Frames : f = Frame(Begin, 0, TRUE)
    BY PositionFacts DEF Frame, Frames
  <2>4. /\ f.stop = Begin /\ f.base = 0 /\ f.exit /\ f.left = 0 /\ ~f.running
        /\ f.entry = Begin
    BY <2>3 DEF Frame
  <2>5. Len(frames') = 1 /\ frames'[1] = f
    BY <2>1, <2>3
  <2>6. InStack(Begin)'
    BY <2>1, <2>2, PositionFacts DEF InStack, Begin
  <2>7. EntryOK(f)'
    <3>1. AtOrBefore(f.stop, f.entry)
      BY <2>4, PositionFacts, Order
    <3>2. \A j \in f.base + 1..Len(tokens') : FALSE
      BY <2>1, <2>4
    <3>3. f.left <= MaxCount + 1
      BY <2>4
    <3> QED  BY <2>4, <2>6, <3>1, <3>2, <3>3 DEF EntryOK, Begin, AtOrBefore, InStack
  <2> QED  BY <2>5, <2>7 DEF EntryInv, AtOrBefore
<1> QED
  BY <1>1, <1>2

\* What releaseUntil takes: the entry e, from the top of the stack, at n.
Takes(n, e, f) ==
  /\ TopTaken(n, e) /\ SetTop(f)
  /\ f.obj = e.obj /\ f.left = Owed(e) /\ f.entry = n
  /\ f.stop = Top.stop /\ f.base = Top.base /\ f.exit = Top.exit /\ ~f.running
  /\ AtOrBefore(f.stop, n)
  /\ frames # <<>> /\ ~Top.running /\ Top.left = 0 /\ ~Reached(Top)
  /\ tokens' = tokens /\ hot > 0 /\ hot' > 0
  /\ n.page = hot' /\ Len(pages'[hot']) = n.slot - 1

LEMMA TakeFacts ==
  ASSUME Core, TakeEntry
  PROVE  \E n \in Positions, e \in Entries, f \in Frames :
           /\ Takes(n, e, f)
           /\ \A x \in Positions : InStack(x) /\ AtOrBefore(x, n) => InStack(x)'
<1>1. PICK p \in 1..hot :
        /\ WalkUp(p) /\ hot' = p /\ pages' = [pages EXCEPT ![p] = Drop(@)]
        /\ SetTop([Top EXCEPT !.obj = pages[p][Len(pages[p])].obj,
                              !.left = Owed(pages[p][Len(pages[p])]),
                              !.entry = Position(p, Len(pages[p]))])
  BY DEF TakeEntry
<1>2. /\ frames # <<>> /\ ~Top.running /\ Top.left = 0 /\ ~Reached(Top) /\ Releasing
      /\ tokens' = tokens
  BY DEF TakeEntry, Releasing
<1>3. /\ p \in 1..Len(pages) /\ hot \in Nat /\ Len(pages[p]) \in 1..PageSize
      /\ p = hot \/ (p = hot - 1 /\ Empty(hot) /\ Len(pages[p]) = PageSize)
      /\ \/ Top.stop.page < p
         \/ Top.stop.page = p /\ Top.stop.slot <= Len(pages[p])
  BY <1>1, <1>2, WalkFacts
<1>4. PICK last \in Nat : last = Len(pages[p]) /\ last \in 1..PageSize
  BY <1>3
<1>5. PICK e \in Entries : e = pages[p][last]
  <2>1. pages[p] \in Seq(Entries)
    BY <1>3 DEF Core, PagesOK
  <2> QED  BY <1>3, <1>4, <2>1
<1>6. PICK new \in Seq(Entries) :
        /\ new = Drop(pages[p]) /\ Len(new) = last - 1
        /\ \A j \in 1..last - 1 : new[j] = pages[p][j]
  <2>1. pages[p] \in Seq(Entries)
    BY <1>3 DEF Core, PagesOK
  <2>2. /\ Drop(pages[p]) \in Seq(Entries) /\ Len(Drop(pages[p])) = last - 1
        /\ \A j \in 1..last - 1 : Drop(pages[p])[j] = pages[p][j]
    BY <1>3, <1>4, <2>1, SubSeqProperties DEF Drop
  <2> QED  BY <2>2
<1>7. /\ pages' \in Seq(Seq(Entries)) /\ Len(pages') = Len(pages) /\ Len(pages) \in Nat
      /\ \A q \in 1..Len(pages) : pages'[q] = IF q = p THEN new ELSE pages[q]
  <2>1. pages' = [pages EXCEPT ![p] = new] /\ pages \in Seq(Seq(Entries))
    BY <1>1, <1>6 DEF Core, PagesOK
  <2> QED  BY <1>3, <2>1, ExceptSeq
<1>8. PagesOK' /\ OneStack' /\ hot' = p /\ p \in Nat
  BY <1>1, TakeEntryKeeps DEF Core
<1>9. PICK n \in Positions : n = Position(p, last) /\ n.page = p /\ n.slot = last
  BY <1>8, PositionFacts
<1>10. TopTaken(n, e)
  <2>1. /\ p \in 1..Len(pages) /\ last = Len(pages[p]) /\ last >= 1
        /\ Len(pages') = Len(pages) /\ p <= Len(pages') /\ Len(pages'[p]) = last - 1
        /\ \A j \in 1..last - 1 : pages[p][j] = pages'[p][j]
    BY <1>3, <1>4, <1>6, <1>7
  <2>2. \A q \in 1..Len(pages) : q # p => q <= Len(pages') /\ pages[q] = pages'[q]
    <3>1. \A q \in 1..Len(pages) : pages'[q] = IF q = p THEN new ELSE pages[q]
      BY <1>7
    <3>2. Len(pages') = Len(pages) /\ Len(pages) \in Nat
      BY <1>7
    <3> QED  BY ONLY <3>1, <3>2
  <2>3. OneMore(pages', pages, p, last)
    <3>1. Len(pages') \in {Len(pages), Len(pages) - 1} /\ ~(p > Len(pages'))
      BY <1>4, <1>7, <1>8, <2>1
    <3> QED  BY ONLY <2>1, <2>2, <3>1 DEF OneMore
  <2>4. p = hot' /\ last = Len(pages'[hot']) + 1
    BY <1>4, <1>8, <2>1
  <2>5. TopTaken(Position(p, last), pages[p][last])
    BY <1>4, <1>8, <2>3, <2>4, TopTakenIf DEF Core
  <2> QED  BY <1>5, <1>9, <2>5
<1>11. PICK f \in Frames :
         f = [Top EXCEPT !.obj = e.obj, !.left = Owed(e), !.entry = n]
  <2>1. Owed(e) \in Nat /\ e.obj \in Objects \cup {Boundary}
    BY DEF Owed, Entries
  <2>2. Top \in Frames
    BY <1>2, TopFacts
  <2> QED  BY <2>1, <2>2 DEF Frames
<1>12. /\ SetTop(f) /\ f.stop = Top.stop /\ f.base = Top.base /\ f.exit = Top.exit
       /\ ~f.running /\ f.obj = e.obj /\ f.left = Owed(e) /\ f.entry = n
  <2>1. Top \in Frames
    BY <1>2, TopFacts
  <2>2. f = [Top EXCEPT !.obj = pages[p][Len(pages[p])].obj,
                        !.left = Owed(pages[p][Len(pages[p])]),
                        !.entry = Position(p, Len(pages[p]))]
    BY <1>4, <1>5, <1>9, <1>11
  <2>3. SetTop(f)
    BY <1>1, <2>2
  <2> QED  BY <1>2, <1>11, <2>1, <2>3 DEF Frames
<1>13. AtOrBefore(f.stop, n)
  BY <1>3, <1>4, <1>9, <1>12 DEF AtOrBefore
<1>14. ASSUME NEW x \in Positions, InStack(x), AtOrBefore(x, n)
       PROVE  InStack(x)'
  <2>1. x.page \in Nat /\ x.slot \in Nat /\ x.page >= 1 /\ x.slot \in 1..PageSize
    BY <1>14, PositionFacts DEF InStack
  <2>2. x.page < p \/ (x.page = p /\ x.slot <= last)
    BY <1>9, <1>14 DEF AtOrBefore
  <2>3. Len(pages'[p]) + 1 = last
    BY <1>3, <1>4, <1>6, <1>7
  <2> QED  BY <1>8, <2>1, <2>2, <2>3 DEF InStack
<1>15. Takes(n, e, f)
  <2>1. hot > 0 /\ hot' > 0 /\ n.page = hot' /\ Len(pages'[hot']) = n.slot - 1
    BY <1>3, <1>4, <1>6, <1>7, <1>8, <1>9
  <2> QED  BY <1>2, <1>10, <1>12, <1>13, <2>1 DEF Takes
<1> QED
  BY <1>14, <1>15

\* The boundaries below what is taken stay.
LEMMA BoundaryStays ==
  ASSUME Core, Core', NEW n \in Positions, NEW e, TopTaken(n, e),
         NEW x \in Positions, IsBoundary(x), x # n
  PROVE  IsBoundary(x)'
<1>1. x \in Places /\ At(x).obj = Boundary
  BY PlaceFacts DEF Core, IsBoundary, At
<1>2. x \in Places' /\ At(x)' = At(x)
  BY <1>1 DEF TopTaken
<1> QED
  BY <1>1, <1>2, NextPlaceFacts DEF IsBoundary, At, Core

LEMMA TakeEntries ==
  ASSUME Core, EntryInv, TakeEntry
  PROVE  EntryInv'
<1>1. PICK n \in Positions, e \in Entries, f \in Frames :
        /\ Takes(n, e, f)
        /\ \A x \in Positions : InStack(x) /\ AtOrBefore(x, n) => InStack(x)'
  BY TakeFacts
<1>2. /\ TopTaken(n, e) /\ SetTop(f)
      /\ f.obj = e.obj /\ f.left = Owed(e) /\ f.entry = n
      /\ f.stop = Top.stop /\ f.base = Top.base /\ f.exit = Top.exit /\ ~f.running
      /\ AtOrBefore(f.stop, n)
      /\ frames # <<>> /\ ~Top.running /\ Top.left = 0 /\ ~Reached(Top)
      /\ tokens' = tokens
  BY <1>1 DEF Takes
<1>3. Core'
  BY TakeEntryKeeps
<1>4. /\ EntryOK(Top) /\ Top.stop \in Positions /\ Len(frames) \in 1..Len(frames)
      /\ Len(tokens) \in Nat /\ Top.base \in Nat
  BY <1>2, TopFacts, EntryFacts, LenProperties DEF Top, Core
<1>5. n \in Places /\ At(n) = e
  BY <1>2 DEF TopTaken
<1>6. Top.exit \/ IsBoundary(Top.stop)
  BY <1>2, <1>4 DEF EntryOK
<1>7. EntryOK(f)'
  <2>1. f.left <= MaxCount + 1 /\ (f.obj = Boundary => f.left = 0)
    BY <1>2 DEF Owed, Entries
  <2>2. InStack(n)'
    <3>1. InStack(n) /\ AtOrBefore(n, n)
      BY <1>5, PlaceInStack, Order DEF Core
    <3> QED  BY <1>1, <3>1
  <2>3. f.left > 0 => f.exit \/ Before(f.stop, n)
    <3> SUFFICES ASSUME f.left > 0, ~f.exit PROVE Before(f.stop, n)
      OBVIOUS
    <3>1. f.obj # Boundary
      BY <2>1
    <3>2. Top.stop # n
      BY <1>2, <1>5, <1>6, <3>1 DEF IsBoundary, At
    <3> QED  BY <1>2, <1>4, <3>2, Order
  <2>4. f.exit \/ IsBoundary(f.stop)' \/ (Reached(f)' /\ f.left = 0)
    <3> SUFFICES ASSUME ~f.exit PROVE IsBoundary(f.stop)' \/ (Reached(f)' /\ f.left = 0)
      OBVIOUS
    <3>1. CASE Top.stop # n
      BY <1>2, <1>3, <1>4, <1>6, <3>1, BoundaryStays
    <3>2. CASE Top.stop = n
      <4>1. e.obj = Boundary
        BY <1>2, <1>5, <1>6, <3>2 DEF IsBoundary, At
      <4>2. f.left = 0
        BY <1>2, <2>1, <4>1
      <4>3. Len(pages'[n.page]) = n.slot - 1
        BY <1>1 DEF Takes
      <4> QED  BY <1>2, <3>2, <4>2, <4>3 DEF Reached
    <3> QED  BY <3>1, <3>2
  <2>5. \A j \in f.base + 1..Len(tokens') : FALSE
    <3>1. Len(tokens) <= Top.base
      BY <1>2 DEF Core, FrameInv
    <3> QED  BY <1>2, <1>4, <3>1
  <2> QED  BY <1>2, <2>1, <2>2, <2>3, <2>4, <2>5
           DEF EntryOK, AtOrBefore, Before, InStack, Reached, IsBoundary
<1>8. ASSUME NEW i \in 1..Len(frames), NEW g \in Frames, i # Len(frames), g = frames[i]
      PROVE  EntryOK(g)'
  <2>1. /\ EntryOK(g) /\ g.entry \in Positions /\ g.stop \in Positions /\ g.running
    BY <1>4, <1>8, EntryFacts DEF Core, FrameInv
  <2>2. AtOrBefore(g.entry, Top.stop)
    <3>1. i < Len(frames)
      BY <1>4, <1>8
    <3> QED  BY <1>4, <1>8, <3>1 DEF EntryInv, Top
  <2>3. AtOrBefore(g.entry, n)
    BY <1>2, <1>4, <2>1, <2>2, Order
  <2>4. InStack(g.entry)'
    <3>1. PICK x \in Positions : x = g.entry
      BY <2>1
    <3>2. InStack(x)'
      BY <1>1, <2>1, <2>3, <3>1 DEF EntryOK
    <3> QED  BY <3>1, <3>2 DEF InStack
  <2>5. g.exit \/ IsBoundary(g.stop)'
    <3> SUFFICES ASSUME ~g.exit PROVE IsBoundary(g.stop)'
      OBVIOUS
    <3>1. IsBoundary(g.stop) /\ Before(g.stop, g.entry)
      BY <2>1 DEF EntryOK
    <3>2. g.stop # n
      BY <2>1, <2>3, <3>1, Order
    <3> QED  BY <1>2, <1>3, <2>1, <3>1, <3>2, BoundaryStays
  <2> QED  BY <1>2, <2>1, <2>4, <2>5 DEF EntryOK, AtOrBefore, Before, InStack, IsBoundary
<1> QED
  BY <1>2, <1>7, <1>8, EntriesReplaced

-----------------------------------------------------------------------------
(***************************************************************************)
(* A push or an autorelease, in the pools and in the releases due.         *)
(***************************************************************************)

\* The boundary that a placeholder stands for.
Opened == IF hot = EmptyPoolPlaceholder THEN {Begin} ELSE {}

\* A new entry e on top of the stack, at n, above what the placeholder opens.
GrownBy(n, e) ==
  /\ n \in Positions /\ n \notin Places \cup Opened
  /\ Places' = Places \cup Opened \cup {n}
  /\ \A x \in Places : Before(x, n) /\ At(x)' = At(x)
  /\ \A x \in Opened : Before(x, n) /\ At(x)' = Entry(Boundary)
  /\ At(n)' = e
  /\ \A x \in Positions : InStack(x) => ~Before(n, x)

LEMMA NoPlaces ==
  ASSUME PagesOK, hot <= 0
  PROVE  /\ Places = {} /\ Boundaries = {} /\ pages = <<>>
         /\ \A x \in Positions : ~InStack(x)
<1>1. pages = <<>> /\ Len(pages) = 0
  BY DEF PagesOK, NoPage
<1>2. Places = {}
  BY <1>1, PlaceFacts
<1>3. \A x \in Positions : ~InStack(x)
  BY PagesFacts, PositionFacts DEF InStack
<1> QED
  BY <1>1, <1>2, <1>3 DEF Boundaries

LEMMA FastGrows ==
  ASSUME Core, PagesOK', NEW o \in Objects \cup {Boundary},
         AutoreleaseFast(o), hot' # EmptyPoolPlaceholder,
         hot > 0 /\ ~Full(hot) => ~Coalesces(pages[hot], o)
  PROVE  \E n \in Positions : GrownBy(n, Entry(o))
<1>1. CASE hot # EmptyPoolPlaceholder
  <2>1. PICK n \in Positions : NewTop(n, Entry(o))
    BY <1>1, AddedOnTop DEF Core
  <2>2. Opened = {}
    BY <1>1 DEF Opened
  <2>3. GrownBy(n, Entry(o))
    BY <2>1, <2>2, Zenon DEF NewTop, GrownBy
  <2> QED  BY <2>3
<1>2. CASE hot = EmptyPoolPlaceholder
  <2>1. AddToFirstPage(o)
    BY <1>2 DEF AutoreleaseFast, AddToHotPage, AddToChild, AddToNewPage,
       InstallPlaceholder, EmptyPoolPlaceholder, NoPage
  <2>2. hot' = 1 /\ pages' = <<Add(<<Entry(Boundary)>>, o)>>
    BY <1>2, <2>1 DEF AddToFirstPage, EmptyPoolPlaceholder, NoPage
  <2>3. Candidates(<<Entry(Boundary)>>, o) = {}
    BY DEF Candidates
  <2>4. PICK b \in Entries, e \in Entries : b = Entry(Boundary) /\ e = Entry(o)
    BY EntryType
  <2>5. PICK page : pages' = <<page>> /\ page = Append(<<b>>, e)
    BY <2>2, <2>3, <2>4 DEF Add, Coalesces
  <2>6. /\ Len(pages') = 1 /\ Len(pages'[1]) = 2
        /\ pages'[1][1] = b /\ pages'[1][2] = e
    <3>1. <<b>> \in Seq(Entries) /\ Len(<<b>>) = 1 /\ <<b>>[1] = b
      OBVIOUS
    <3>2. Len(page) = 2 /\ page[1] = b /\ page[2] = e
      BY <2>4, <2>5, <3>1, AppendProperties
    <3> QED  BY <2>5, <3>2
  <2>7. PICK n \in Positions : n = Position(1, 2) /\ n.page = 1 /\ n.slot = 2
    BY PositionFacts
  <2>8. Begin.page = 1 /\ Begin.slot = 1 /\ Begin \in Positions
    BY PositionFacts
  <2>9. \A x : x \in Places' <=> x = Begin \/ x = n
    <3>1. \A x : x \in Places' <=> /\ x \in Positions /\ x.page \in 1..Len(pages')
                                   /\ x.slot \in 1..Len(pages'[x.page])
      BY NextPlaceFacts
    <3>2. \A x \in Positions : x.page \in Nat /\ x.slot \in Nat
      BY PositionFacts
    <3>3. \A x \in Positions : x \in Places' <=> x.page = 1 /\ (x.slot = 1 \/ x.slot = 2)
      <4> SUFFICES ASSUME NEW x \in Positions
                   PROVE  x \in Places' <=> x.page = 1 /\ (x.slot = 1 \/ x.slot = 2)
        OBVIOUS
      <4>1. x.page \in 1..Len(pages') <=> x.page = 1
        BY <2>6, <3>2
      <4>2. x.page = 1 => (x.slot \in 1..Len(pages'[x.page]) <=> x.slot = 1 \/ x.slot = 2)
        <5>1. x.page = 1 => Len(pages'[x.page]) = 2
          BY <2>6
        <5>2. x.slot \in Nat
          BY <3>2
        <5>3. x.slot \in 1..2 <=> x.slot = 1 \/ x.slot = 2
          BY <5>2
        <5> QED  BY <5>1, <5>3
      <4> QED  BY <3>1, <4>1, <4>2
    <3> QED  BY <2>7, <2>8, <3>1, <3>3, SamePosition
  <2>10. Places = {} /\ Opened = {Begin} /\ \A x \in Positions : ~InStack(x)
    BY <1>2, NoPlaces DEF Opened, EmptyPoolPlaceholder, Core
  <2>11. Before(Begin, n) /\ At(Begin)' = b /\ At(n)' = e /\ n # Begin
    BY <2>6, <2>7, <2>8 DEF Before, At
  <2>12. GrownBy(n, e)
    BY <2>4, <2>9, <2>10, <2>11 DEF GrownBy
  <2> QED  BY <2>4, <2>12
<1> QED
  BY <1>1, <1>2

\* The pools, as the stack grows.
LEMMA GrownPools ==
  ASSUME Core, Core', hot' > 0, NEW n \in Positions, NEW e, GrownBy(n, e)
  PROVE  /\ PoolCount \in Nat
         /\ PoolCount' = PoolCount + (IF e.obj = Boundary THEN 1 ELSE 0)
         /\ PoolOf(n)' = PoolCount
         /\ \A x \in Positions : InStack(x) => PoolOf(x)' = PoolOf(x)
<1> DEFINE B == Boundaries \cup Opened
<1>1. \A x : x \in B => x # n /\ Before(x, n) /\ x \in Positions
  BY PlaceFacts, PositionFacts DEF GrownBy, Boundaries, Opened, Core
<1>2. Boundaries' = B \cup (IF e.obj = Boundary THEN {n} ELSE {})
  <2>1. Entry(Boundary).obj = Boundary
    BY DEF Entry
  <2>2. \A x : x \in Boundaries' <=> x \in Places' /\ At(x)'.obj = Boundary
    BY DEF Boundaries
  <2>3. \A x : x \in Boundaries <=> x \in Places /\ At(x).obj = Boundary
    BY DEF Boundaries
  <2> QED  BY <2>1, <2>2, <2>3 DEF GrownBy
<1>3. IsFiniteSet(B) /\ PoolCount = 1 + Cardinality(B) /\ Cardinality(B) \in Nat
  <2>1. CASE hot = EmptyPoolPlaceholder
    <3>1. B = {Begin} /\ Boundaries = {}
      BY <2>1, NoPlaces DEF Opened, EmptyPoolPlaceholder, Core
    <3>2. /\ IsFiniteSet({Begin}) /\ Cardinality({Begin}) = 1
          /\ Cardinality(Boundaries) = 0
      BY <3>1, FS_Singleton, FS_EmptySet
    <3>3. PoolCount = 1 + Cardinality(Boundaries) + 1
      BY <2>1 DEF PoolCount
    <3> QED  BY <3>1, <3>2, <3>3
  <2>2. CASE hot # EmptyPoolPlaceholder
    <3>1. B = Boundaries /\ IsFiniteSet(Boundaries)
      BY <2>2, PlaceFacts DEF Opened, Core
    <3>2. PoolCount = 1 + Cardinality(Boundaries) + 0
      BY <2>2 DEF PoolCount
    <3>3. Cardinality(Boundaries) \in Nat
      BY <3>1, FS_CardinalityType
    <3>4. PoolCount = 1 + Cardinality(Boundaries)
      BY ONLY <3>2, <3>3
    <3> QED  BY <3>1, <3>3, <3>4
  <2> QED  BY <2>1, <2>2
<1>4. PoolCount' = 1 + Cardinality(Boundaries') /\ Cardinality(Boundaries') \in Nat
  <2>1. hot' # EmptyPoolPlaceholder /\ IsFiniteSet(Boundaries')
    BY NextPlaceFacts DEF Core, EmptyPoolPlaceholder
  <2>2. PoolCount' = 1 + Cardinality(Boundaries') + 0
    BY <2>1 DEF PoolCount
  <2> QED  BY <2>1, <2>2, FS_CardinalityType
<1>5. PoolCount' = PoolCount + (IF e.obj = Boundary THEN 1 ELSE 0)
  <2>1. CASE e.obj = Boundary
    <3>1. Boundaries' = B \cup {n} /\ n \notin B
      BY <1>1, <1>2, <2>1
    <3>2. Cardinality(Boundaries') = Cardinality(B) + 1
      BY <1>3, <3>1, FS_AddElement
    <3> QED  BY <1>3, <1>4, <2>1, <3>2
  <2>2. CASE e.obj # Boundary
    BY <1>2, <1>3, <1>4, <2>2
  <2> QED  BY <2>1, <2>2
<1>6. PoolOf(n)' = PoolCount
  <2>1. {b \in Boundaries' : Before(b, n)} = B
    BY <1>1, <1>2, Order
  <2>2. PoolOf(n)' = 1 + Cardinality({b \in Boundaries' : Before(b, n)})
    BY DEF PoolOf, Before
  <2> QED  BY <1>3, <2>1, <2>2
<1>7. ASSUME NEW x \in Positions, InStack(x) PROVE PoolOf(x)' = PoolOf(x)
  <2>1. B = Boundaries
    <3>1. hot > 0
      BY <1>7, NoPlaces, PagesFacts DEF Core
    <3> QED  BY <3>1 DEF Opened, EmptyPoolPlaceholder
  <2>2. ~Before(n, x)
    BY <1>7 DEF GrownBy
  <2>3. {b \in Boundaries' : Before(b, x)} = {b \in Boundaries : Before(b, x)}
    BY <1>2, <2>1, <2>2
  <2> QED  BY <2>3 DEF PoolOf, Before
<1> QED
  BY <1>3, <1>5, <1>6, <1>7

\* The releases due, as the stack grows.
LEMMA GrownDue ==
  ASSUME Core, Core', EntryInv, EntryInv', hot' > 0, frames' = frames,
         NEW n \in Positions, NEW o \in Objects \cup {Boundary}, GrownBy(n, Entry(o))
  PROVE  \A k, p :
           Due(k, p)' = Due(k, p) +
             (IF o # Boundary /\ k = PoolCount /\ p = o THEN 1 ELSE 0)
<1>1. DueOK /\ DueOK'
  BY DueOKHolds, DueOKNext
<1>2. PICK d \in 0..1 : d = (IF o = Boundary THEN 0 ELSE 1) /\ d = Owed(Entry(o))
  BY DEF Owed, Entry
<1>3. \A x \in Places' : x.page # 0
  BY NextPlaceFacts DEF Core
<1>4. \A x : InFrames(x)' <=> InFrames(x)
  BY DEF InFrames
<1>5. \A x : InFrames(x) => Taken(x)' = Taken(x)
  BY DEF Taken
<1>6. ASSUME NEW h \in Positions
      PROVE  OwedAt(h)' = OwedAt(h) + (IF h = n THEN d ELSE 0)
  <2>1. OwedAt(h) \in Nat
    <3>1. OwedMap[h] \in 0..MaxCount + 1 /\ OwedMap[h] = OwedAt(h)
      BY <1>1, ReleasesFacts, Maps DEF ReleasesAre
    <3> QED  BY <3>1
  <2>2. CASE h = n
    <3>1. OwedAt(n)' = d
      BY <1>2 DEF GrownBy, OwedAt
    <3>2. OwedAt(n) = 0
      BY <1>3 DEF GrownBy, OwedAt, InFrames
    <3> QED  BY <2>2, <3>1, <3>2
  <2>3. CASE h \in Places
    <3>1. h # n /\ h \in Places' /\ At(h)' = At(h)
      BY <2>3 DEF GrownBy
    <3>2. OwedAt(h)' = OwedAt(h)
      BY <2>3, <3>1 DEF OwedAt, Owed
    <3> QED  BY <2>1, <3>1, <3>2
  <2>4. CASE h \in Opened /\ h \notin Places
    <3>1. h # n /\ h \in Places' /\ At(h)' = Entry(Boundary)
      BY <2>4 DEF GrownBy
    <3>2. OwedAt(h)' = 0 /\ ~InFrames(h)
      BY <1>3, <3>1 DEF OwedAt, Owed, Entry, InFrames
    <3>3. OwedAt(h) = 0
      BY <2>4, <3>2 DEF OwedAt
    <3> QED  BY <3>1, <3>2, <3>3
  <2>5. CASE h \notin Places \cup Opened \cup {n}
    <3>1. h \notin Places' /\ h \notin Places /\ h # n
      BY <2>5 DEF GrownBy
    <3>2. OwedAt(h)' = OwedAt(h)
      BY <1>4, <1>5, <3>1 DEF OwedAt
    <3> QED  BY <2>1, <3>1, <3>2
  <2> QED  BY <2>2, <2>3, <2>4, <2>5
<1>7. ASSUME NEW h \in Positions, OwedAt(h) > 0
      PROVE  To(h)' = To(h) /\ From(h)' = From(h)
  <2>1. CASE h \in Places
    <3>1. h.page # 0 /\ At(h)' = At(h) /\ InStack(h)
      BY <1>3, <2>1, PlaceInStack DEF Core, GrownBy
    <3>2. PoolOf(h)' = PoolOf(h)
      BY <3>1, GrownPools
    <3> QED  BY <3>1, <3>2 DEF To, From
  <2>2. CASE h \notin Places
    <3>1. InFrames(h)
      BY <1>7, <2>2 DEF OwedAt
    <3>2. h.page = 0 /\ Taken(h)' = Taken(h) /\ Taken(h) = frames[h.slot]
      BY <3>1 DEF InFrames, Taken
    <3>3. PICK x \in Positions : x = Taken(h).entry /\ InStack(x)
      BY <3>1, <3>2, EntryFacts DEF InFrames, EntryOK
    <3>4. PoolOf(x)' = PoolOf(x)
      BY <3>3, GrownPools
    <3>5. From(h) = PoolOf(x) /\ From(h)' = PoolOf(x)'
      BY <3>2, <3>3 DEF From, PoolOf, Before
    <3> QED  BY <3>2, <3>4, <3>5 DEF To
  <2> QED  BY <2>1, <2>2
<1>8. \A k, p : Due(k, p)' = Due(k, p) +
        (IF d = 1 /\ From(n)' = k /\ To(n)' = p THEN 1 ELSE 0)
  BY <1>1, <1>6, <1>7, DueAdded
<1>9. From(n)' = PoolCount /\ To(n)' = o
  <2>1. n.page # 0 /\ At(n)' = Entry(o)
    BY <1>3 DEF GrownBy
  <2>2. PoolOf(n)' = PoolCount
    BY GrownPools
  <2> QED  BY <2>1, <2>2 DEF From, To, Entry
<1> QED
  BY <1>2, <1>8, <1>9

\* The slots from i on, of a page of l entries, turn: i becomes the last one.
TurnedSlot(s, i, l) == IF s = i THEN l ELSE s - 1
Turns(x, p, i, l) == x.page = p /\ x.slot \in i..l
Turned(x, p, i, l) == IF Turns(x, p, i, l) THEN Position(p, TurnedSlot(x.slot, i, l)) ELSE x

LEMMA TurnIsBijection ==
  ASSUME NEW p \in Nat, NEW i \in Nat, NEW l \in Nat, i <= l, i >= 1
  PROVE  \E move \in Bijection(Positions, Positions) :
           \A x \in Positions : move[x] = Turned(x, p, i, l)
<1> DEFINE move == [x \in Positions |-> Turned(x, p, i, l)]
           Back(x) == IF Turns(x, p, i, l)
                        THEN Position(p, IF x.slot = l THEN i ELSE x.slot + 1) ELSE x
<1>1. ASSUME NEW x \in Positions
      PROVE  /\ Turned(x, p, i, l) \in Positions
             /\ Turns(Turned(x, p, i, l), p, i, l) <=> Turns(x, p, i, l)
             /\ Turns(x, p, i, l) =>
                  /\ Turned(x, p, i, l).page = p
                  /\ Turned(x, p, i, l).slot = TurnedSlot(x.slot, i, l)
  <2>1. CASE Turns(x, p, i, l)
    <3>1. TurnedSlot(x.slot, i, l) \in i..l /\ TurnedSlot(x.slot, i, l) \in Nat
      BY <2>1 DEF Turns, TurnedSlot
    <3> QED  BY <2>1, <3>1, PositionFacts DEF Turned, Turns
  <2>2. CASE ~Turns(x, p, i, l)
    BY <2>2 DEF Turned
  <2> QED  BY <2>1, <2>2
<1>2. ASSUME NEW x \in Positions, NEW y \in Positions,
             Turned(x, p, i, l) = Turned(y, p, i, l)
      PROVE  x = y
  <2>1. CASE Turns(x, p, i, l)
    <3>1. Turns(y, p, i, l)
      BY <1>1, <1>2, <2>1
    <3>2. TurnedSlot(x.slot, i, l) = TurnedSlot(y.slot, i, l)
      BY <1>1, <1>2, <2>1, <3>1
    <3>3. x.slot = y.slot /\ x.page = y.page
      BY <2>1, <3>1, <3>2 DEF Turns, TurnedSlot
    <3> QED  BY <3>3, SamePosition
  <2>2. CASE ~Turns(x, p, i, l)
    <3>1. ~Turns(y, p, i, l)
      BY <1>1, <1>2, <2>2
    <3> QED  BY <1>2, <2>2, <3>1 DEF Turned
  <2> QED  BY <2>1, <2>2
<1>3. ASSUME NEW y \in Positions
      PROVE  \E x \in Positions : Turned(x, p, i, l) = y
  <2>1. CASE Turns(y, p, i, l)
    <3>1. PICK s \in i..l : s = IF y.slot = l THEN i ELSE y.slot + 1
      BY <2>1 DEF Turns
    <3>2. PICK x \in Positions : x = Position(p, s) /\ x.page = p /\ x.slot = s
      BY <3>1, PositionFacts
    <3>3. TurnedSlot(s, i, l) = y.slot /\ Turns(x, p, i, l)
      BY <2>1, <3>1, <3>2 DEF Turns, TurnedSlot
    <3>4. Turned(x, p, i, l) = y
      BY <1>1, <2>1, <3>2, <3>3, SamePosition DEF Turns
    <3> QED  BY <3>4
  <2>2. CASE ~Turns(y, p, i, l)
    BY <2>2 DEF Turned
  <2> QED  BY <2>1, <2>2
<1>4. move \in Bijection(Positions, Positions)
  <2>1. \A x \in Positions : move[x] = Turned(x, p, i, l)
    OBVIOUS
  <2>2. move \in [Positions -> Positions]
    BY <1>1
  <2> HIDE DEF move
  <2> QED  BY <1>2, <1>3, <2>1, <2>2 DEF Bijection, Injection, Surjection, IsInjective
<1> QED
  BY <1>4

\* add() counts the autorelease in the entry at i, which becomes the top one.
CoalescedAt(p, i, l, o) ==
  /\ hot = p /\ hot' = p /\ p \in 1..Len(pages) /\ i \in 1..l /\ l = Len(pages[p])
  /\ Places' = Places
  /\ \A x \in Places : ~Turns(x, p, i, l) => At(x)' = At(x)
  /\ \A j \in i..l : /\ Position(p, j) \in Places
                     /\ At(Position(p, j)).obj # Boundary
                     /\ At(Position(p, j))'.obj # Boundary
  /\ \A j \in i + 1..l : At(Position(p, j - 1))' = At(Position(p, j))
  /\ At(Position(p, i)).obj = o /\ At(Position(p, l))'.obj = o
  /\ At(Position(p, l))'.count = At(Position(p, i)).count + 1

LEMMA CoalescedFacts ==
  ASSUME Core, PagesOK', NEW o \in Objects, AddToHotPage(o), Coalesces(pages[hot], o)
  PROVE  \E p, i, l \in Nat : CoalescedAt(p, i, l, o)
<1>1. /\ hot \in 1..Len(pages) /\ pages[hot] \in Seq(Entries) /\ pages \in Seq(Seq(Entries))
      /\ pages' = [pages EXCEPT ![hot] = Add(pages[hot], o)] /\ hot' = hot
  BY PagesFacts DEF AddToHotPage, Core, PagesOK
<1>2. PICK page \in Seq(Entries), l \in Nat : page = pages[hot] /\ l = Len(page)
  BY <1>1, LenProperties
<1>3. PICK i : i = Youngest(Candidates(page, o)) /\ i \in Candidates(page, o)
  <2>1. Candidates(page, o) \subseteq 1..l /\ Candidates(page, o) # {}
    BY <1>2 DEF Coalesces, Candidates
  <2> QED  BY <2>1, YoungestExists
<1>4. /\ i \in 2..l /\ page[i].obj = o /\ page[i].count < MaxCount
      /\ \A j \in i..l : page[j].obj # Boundary
  BY <1>2, <1>3 DEF Candidates
<1>5. PICK new : new = Coalesced(page, i) /\ new = Add(page, o)
  BY <1>2, <1>3 DEF Add
<1>6. \A j \in 1..l : page[j] \in Entries
  BY <1>2
<1>7. /\ Len(new) = l
      /\ \A j \in 1..l : j < i => new[j] = page[j]
      /\ \A j \in i + 1..l : new[j - 1] = page[j]
      /\ new[l].obj = o /\ new[l].count = page[i].count + 1
  <2>1. new = [j \in 1..l |->
                 IF j < i THEN page[j]
                 ELSE IF j < l THEN page[j + 1]
                 ELSE [page[i] EXCEPT !.count = (@ + 1) % (MaxCount + 1)]]
    BY <1>2, <1>5 DEF Coalesced
  <2>2. \A j \in i + 1..l : j - 1 \in 1..l /\ ~(j - 1 < i) /\ j - 1 < l /\ (j - 1) + 1 = j
    BY <1>4
  <2>3. new[l] = [page[i] EXCEPT !.count = (@ + 1) % (MaxCount + 1)]
    BY <1>4, <2>1
  <2>4. page[i] \in Entries /\ page[i].count \in 0..MaxCount
    BY <1>4, <1>6 DEF Entries
  <2>5. (page[i].count + 1) % (MaxCount + 1) = page[i].count + 1
    <3>1. \A c \in Nat : c < MaxCount => (c + 1) % (MaxCount + 1) = c + 1
      OBVIOUS
    <3> QED  BY <1>4, <2>4, <3>1
  <2>6. new[l].obj = o /\ new[l].count = page[i].count + 1
    BY <1>4, <2>3, <2>4, <2>5 DEF Entries
  <2>7. Len(new) = l
    BY <1>2, <2>1
  <2> QED  BY <2>1, <2>2, <2>6, <2>7
<1>8. /\ Len(pages') = Len(pages)
      /\ \A q \in 1..Len(pages) : pages'[q] = IF q = hot THEN new ELSE pages[q]
  <2>1. new \in Seq(Entries)
    BY <1>2, <1>5, AddKeepsBoundaries
  <2>2. pages' = [pages EXCEPT ![hot] = new]
    BY <1>1, <1>2, <1>5
  <2> QED  BY <1>1, <2>1, <2>2, ExceptSeq
<1>9. Places' = Places
  <2>1. \A x : x \in Places <=> x \in Positions /\ x.page \in 1..Len(pages)
                                /\ x.slot \in 1..Len(pages[x.page])
    BY PlaceFacts DEF Core
  <2>2. \A x : x \in Places' <=> x \in Positions /\ x.page \in 1..Len(pages')
                                 /\ x.slot \in 1..Len(pages'[x.page])
    BY NextPlaceFacts
  <2>3. \A q \in 1..Len(pages) : Len(pages'[q]) = Len(pages[q])
    BY <1>2, <1>7, <1>8
  <2> QED  BY <1>8, <2>1, <2>2, <2>3
<1>17. PICK p \in Nat : p = hot
  BY <1>1
<1>10. \A j \in 1..l : /\ Position(p, j) \in Places
                       /\ At(Position(p, j)) = page[j]
                       /\ At(Position(p, j))' = new[j]
  <2> SUFFICES ASSUME NEW j \in 1..l
               PROVE  /\ Position(p, j) \in Places
                      /\ At(Position(p, j)) = page[j]
                      /\ At(Position(p, j))' = new[j]
    OBVIOUS
  <2>2. PICK x \in Positions : x = Position(p, j) /\ x.page = p /\ x.slot = j
    <3>1. j \in Nat
      OBVIOUS
    <3> QED  BY <3>1, PositionFacts
  <2>3. x \in Places
    BY <1>1, <1>2, <1>17, <2>2, PlaceFacts DEF Core
  <2>4. pages'[p] = new
    BY <1>1, <1>8, <1>17
  <2> QED  BY <1>1, <1>2, <1>17, <2>2, <2>3, <2>4 DEF At, Position
<1>11. ASSUME NEW x \in Places, ~Turns(x, p, i, l) PROVE At(x)' = At(x)
  <2>1. x \in Positions /\ x.page \in 1..Len(pages) /\ x.slot \in 1..Len(pages[x.page])
    BY PlaceFacts DEF Core
  <2>2. CASE x.page = p
    <3>1. x.slot \in 1..l /\ x.slot < i
      BY <1>2, <1>4, <1>11, <1>17, <2>1, <2>2 DEF Turns
    <3> QED  BY <1>1, <1>2, <1>7, <1>8, <1>17, <2>2, <3>1 DEF At
  <2>3. CASE x.page # p
    BY <1>8, <1>17, <2>1, <2>3 DEF At
  <2> QED  BY <2>2, <2>3
<1>12. \A j \in i..l : At(Position(p, j))'.obj # Boundary
  <2> SUFFICES ASSUME NEW j \in i..l PROVE At(Position(p, j))'.obj # Boundary
    OBVIOUS
  <2>1. j \in 1..l
    BY <1>4
  <2>2. CASE j = l
    BY <1>7, <1>10, <2>1, <2>2
  <2>3. CASE j < l
    <3>1. j + 1 \in i + 1..l /\ j + 1 \in i..l /\ (j + 1) - 1 = j
      BY <1>4, <2>3
    <3>2. new[j] = page[j + 1]
      BY <1>7, <3>1
    <3> QED  BY <1>4, <1>10, <2>1, <3>1, <3>2
  <2> QED  BY <2>1, <2>2, <2>3
<1>13. \A j \in i + 1..l : At(Position(p, j - 1))' = At(Position(p, j))
  <2> SUFFICES ASSUME NEW j \in i + 1..l
               PROVE  At(Position(p, j - 1))' = At(Position(p, j))
    OBVIOUS
  <2>1. j \in 1..l /\ j - 1 \in 1..l
    BY <1>4
  <2> QED  BY <1>7, <1>10, <2>1
<1>14. \A j \in i..l : j \in 1..l
  BY <1>4
<1>15. i \in 1..l /\ l \in 1..l /\ i \in Nat
  BY <1>4
<1>16. CoalescedAt(p, i, l, o)
  BY <1>1, <1>2, <1>4, <1>7, <1>9, <1>10, <1>11, <1>12, <1>13, <1>14, <1>15, <1>17
     DEF CoalescedAt
<1> QED
  BY <1>15, <1>16

\* With the same boundaries, the pools are the same.
LEMMA SamePools ==
  ASSUME Boundaries' = Boundaries, hot' = hot
  PROVE  PoolCount' = PoolCount /\ \A x : PoolOf(x)' = PoolOf(x)
BY DEF PoolCount, PoolOf, Before

LEMMA CoalescedPools ==
  ASSUME Core, NEW t \in Nat, t > 0, NEW i \in Nat, NEW l \in Nat, NEW o, CoalescedAt(t, i, l, o)
  PROVE  /\ Boundaries' = Boundaries
         /\ PoolCount' = PoolCount /\ \A x : PoolOf(x)' = PoolOf(x)
         /\ \A j \in i..l : PoolOf(Position(t, j)) = PoolCount
<1>1. /\ hot = t /\ hot' = t /\ t \in 1..Len(pages) /\ i \in 1..l /\ l = Len(pages[t])
      /\ Places' = Places
      /\ \A x \in Places : ~Turns(x, t, i, l) => At(x)' = At(x)
      /\ \A j \in i..l : /\ Position(t, j) \in Places
                         /\ At(Position(t, j)).obj # Boundary
                         /\ At(Position(t, j))'.obj # Boundary
  BY DEF CoalescedAt
<1>2. ASSUME NEW x \in Positions, Turns(x, t, i, l)
      PROVE  \E j \in i..l : x = Position(t, j)
  <2>1. x.page = t /\ x.slot \in i..l /\ x.slot \in Nat
    BY <1>2, PositionFacts DEF Turns
  <2>2. Position(t, x.slot) \in Positions /\ Position(t, x.slot).page = t
        /\ Position(t, x.slot).slot = x.slot
    BY <2>1, PositionFacts
  <2>3. x = Position(t, x.slot)
    BY <2>1, <2>2, SamePosition
  <2> QED  BY <2>1, <2>3
<1>3. ASSUME NEW x \in Places, Turns(x, t, i, l)
      PROVE  At(x).obj # Boundary /\ At(x)'.obj # Boundary
  <2>1. PICK j \in i..l : x = Position(t, j)
    BY <1>2, <1>3, PlaceFacts DEF Core
  <2>2. At(Position(t, j))'.obj # Boundary
    BY <1>1
  <2>3. At(x)'.obj # Boundary
    BY <2>1, <2>2 DEF At, Position
  <2> QED  BY <1>1, <2>1, <2>3
<1>4. Boundaries' = Boundaries
  <2>1. \A x : x \in Boundaries <=> x \in Places /\ At(x).obj = Boundary
    BY DEF Boundaries
  <2>2. \A x : x \in Boundaries' <=> x \in Places' /\ At(x)'.obj = Boundary
    BY DEF Boundaries
  <2> QED  BY <1>1, <1>3, <2>1, <2>2
<1>5. PoolCount = 1 + Cardinality(Boundaries)
  <2>1. PoolCount = 1 + Cardinality(Boundaries) + 0
    BY <1>1 DEF PoolCount, EmptyPoolPlaceholder
  <2> QED  BY <2>1, PoolFacts DEF Core
<1>6. ASSUME NEW j \in i..l, NEW b \in Boundaries PROVE Before(b, Position(t, j))
  <2>1. b \in Places /\ b \in Positions /\ ~Turns(b, t, i, l)
    BY <1>3, PlaceFacts DEF Boundaries, Core
  <2>2. /\ b.page \in 1..Len(pages) /\ b.slot \in 1..Len(pages[b.page])
        /\ b.page \in Nat /\ b.slot \in Nat /\ InStack(b)
    BY <2>1, PlaceFacts, PositionFacts, PlaceInStack DEF Core
  <2>3. b.page <= t
    BY <1>1, <2>2 DEF InStack
  <2>4. b.page = t => b.slot < j
    <3> SUFFICES ASSUME b.page = t PROVE b.slot < j
      OBVIOUS
    <3>1. b.slot \in 1..l /\ b.slot \notin i..l
      BY <1>1, <2>1, <2>2 DEF Turns
    <3> QED  BY <3>1
  <2>5. t \in Nat /\ j \in Nat
    BY <1>1
  <2> QED  BY <2>2, <2>3, <2>4, <2>5, PositionFacts DEF Before
<1>7. \A j \in i..l : PoolOf(Position(t, j)) = PoolCount
  BY <1>5, <1>6, PoolFacts DEF Core
<1> QED
  BY <1>1, <1>4, <1>7, SamePools

LEMMA CoalescedDue ==
  ASSUME Core, Core', EntryInv, EntryInv', frames' = frames, NEW t \in Nat, t > 0,
         NEW i \in Nat, NEW l \in Nat, NEW o \in Objects, CoalescedAt(t, i, l, o)
  PROVE  \A k, p :
           Due(k, p)' = Due(k, p) + (IF k = PoolCount /\ p = o THEN 1 ELSE 0)
<1>1. DueOK /\ DueOK'
  BY DueOKHolds, DueOKNext
<1>2. /\ hot = t /\ hot' = t /\ t \in 1..Len(pages) /\ i \in 1..l /\ l = Len(pages[t])
      /\ Places' = Places
      /\ \A x \in Places : ~Turns(x, t, i, l) => At(x)' = At(x)
      /\ \A j \in i..l : /\ Position(t, j) \in Places
                         /\ At(Position(t, j)).obj # Boundary
                         /\ At(Position(t, j))'.obj # Boundary
      /\ \A j \in i + 1..l : At(Position(t, j - 1))' = At(Position(t, j))
      /\ At(Position(t, i)).obj = o /\ At(Position(t, l))'.obj = o
      /\ At(Position(t, l))'.count = At(Position(t, i)).count + 1
  BY DEF CoalescedAt
<1>3. PICK move \in Bijection(Positions, Positions) :
        \A x \in Positions : move[x] = Turned(x, t, i, l)
  <2>1. i <= l /\ i >= 1
    BY <1>2
  <2> QED  BY <2>1, TurnIsBijection
<1>4. /\ \A x : PoolOf(x)' = PoolOf(x)
      /\ \A j \in i..l : PoolOf(Position(t, j)) = PoolCount
  BY CoalescedPools
<1>5. PICK h0 \in Positions : h0 = Position(t, i) /\ h0.page = t /\ h0.slot = i
  BY <1>2, PositionFacts
<1>6. PICK d \in 0..1 : d = 1
  OBVIOUS
<1>7. \A j \in i..l : /\ Position(t, j) \in Places /\ Position(t, j) \in Positions
                      /\ Position(t, j).page = t /\ Position(t, j).slot = j
                      /\ Position(t, j).page # 0
  BY <1>2, PositionFacts
<1>8. \A j \in i..l : /\ OwedAt(Position(t, j)) = At(Position(t, j)).count + 1
                      /\ OwedAt(Position(t, j))' = At(Position(t, j))'.count + 1
                      /\ To(Position(t, j)) = At(Position(t, j)).obj
                      /\ To(Position(t, j))' = At(Position(t, j))'.obj
                      /\ From(Position(t, j)) = PoolCount
                      /\ From(Position(t, j))' = PoolCount
  <2> SUFFICES ASSUME NEW j \in i..l, NEW x \in Positions, x = Position(t, j)
               PROVE  /\ OwedAt(x) = At(x).count + 1
                      /\ OwedAt(x)' = At(x)'.count + 1
                      /\ To(x) = At(x).obj /\ To(x)' = At(x)'.obj
                      /\ From(x) = PoolCount /\ From(x)' = PoolCount
    BY <1>7 DEF OwedAt, To, From, At, Position, InFrames, Taken, PoolOf, Before
  <2>1. x \in Places /\ x \in Places' /\ x.page # 0
    BY <1>2, <1>7
  <2>2. At(x).obj # Boundary /\ At(x)'.obj # Boundary
    <3>1. At(Position(t, j))'.obj # Boundary
      BY <1>2
    <3>2. At(x)'.obj # Boundary
      BY <3>1 DEF At, Position
    <3> QED  BY <1>2, <3>2
  <2>3. PoolOf(x) = PoolCount /\ PoolOf(x)' = PoolCount
    BY <1>4
  <2> QED  BY <2>1, <2>2, <2>3 DEF OwedAt, Owed, To, From
<1>9. ASSUME NEW h \in Positions
      PROVE  OwedMap'[move[h]] = OwedMap[h] + (IF h = h0 THEN d ELSE 0)
  <2>1. OwedMap[h] \in Nat
    <3>1. OwedMap[h] \in 0..MaxCount + 1
      BY <1>1, ReleasesFacts DEF ReleasesAre
    <3> QED  BY <3>1
  <2>2. CASE ~Turns(h, t, i, l)
    <3>1. move[h] = h /\ h # h0
      BY <1>2, <1>3, <1>5, <2>2 DEF Turned, Turns
    <3>2. OwedAt(h)' = OwedAt(h)
      BY <1>2, <2>2 DEF OwedAt, Owed, InFrames, Taken
    <3> QED  BY <2>1, <3>1, <3>2, Maps
  <2>3. CASE Turns(h, t, i, l)
    <3>1. PICK j \in i..l : j = h.slot /\ h = Position(t, j)
      BY <1>7, <2>3, SamePosition DEF Turns
    <3>2. CASE j = i
      <4>1. move[h] = Position(t, l) /\ h = h0 /\ l \in i..l
        BY <1>2, <1>3, <1>5, <2>3, <3>1, <3>2 DEF Turned, TurnedSlot
      <4>2. PICK y \in Positions : y = Position(t, l)
        BY <1>7, <4>1
      <4>3. OwedAt(y)' = OwedAt(Position(t, l))'
        BY <4>2 DEF OwedAt, At, Position, InFrames, Taken
      <4>4. OwedAt(y)' = At(Position(t, i)).count + 1 + 1
        BY <1>2, <1>8, <4>1, <4>3
      <4>5. OwedAt(h) = At(Position(t, i)).count + 1
        BY <1>8, <3>1, <3>2
      <4>6. OwedMap[h] = OwedAt(h) /\ OwedMap'[y] = OwedAt(y)'
        BY Maps
      <4> QED  BY <1>6, <2>1, <4>1, <4>2, <4>4, <4>5, <4>6
    <3>3. CASE j > i
      <4>1. move[h] = Position(t, j - 1) /\ h # h0 /\ j - 1 \in i..l /\ j \in i + 1..l
        BY <1>2, <1>3, <1>5, <2>3, <3>1, <3>3 DEF Turned, TurnedSlot
      <4>2. PICK y \in Positions : y = Position(t, j - 1)
        BY <1>7, <4>1
      <4>3. OwedAt(y)' = OwedAt(Position(t, j - 1))'
        BY <4>2 DEF OwedAt, At, Position, InFrames, Taken
      <4>4. OwedAt(y)' = At(Position(t, j)).count + 1
        BY <1>2, <1>8, <4>1, <4>3
      <4>5. OwedAt(h) = At(Position(t, j)).count + 1
        BY <1>8, <3>1
      <4>6. OwedMap[h] = OwedAt(h) /\ OwedMap'[y] = OwedAt(y)'
        BY Maps
      <4> QED  BY <2>1, <4>1, <4>2, <4>4, <4>5, <4>6
    <3> QED  BY <3>2, <3>3
  <2> QED  BY <2>2, <2>3
<1>10. ASSUME NEW h \in Positions, OwedMap[h] > 0
       PROVE  KeyMap'[move[h]] = KeyMap[h]
  <2>1. CASE ~Turns(h, t, i, l)
    <3>1. move[h] = h
      BY <1>3, <2>1 DEF Turned
    <3>2. OwedAt(h) > 0
      BY <1>10, Maps
    <3>3. To(h)' = To(h)
      <4>1. h \in Places => At(h)' = At(h)
        BY <1>2, <2>1
      <4>2. h \notin Places => h.page = 0
        BY <3>2 DEF OwedAt, InFrames
      <4>3. h \in Places => h.page # 0
        BY PlaceFacts DEF Core
      <4> QED  BY <4>1, <4>2, <4>3 DEF To, Taken
    <3>4. From(h)' = From(h)
      BY <1>4 DEF From, Taken, PoolOf
    <3> QED  BY <3>1, <3>3, <3>4, Maps
  <2>2. CASE Turns(h, t, i, l)
    <3>1. PICK j \in i..l : j = h.slot /\ h = Position(t, j)
      BY <1>7, <2>2, SamePosition DEF Turns
    <3>2. KeyMap[h] = <<PoolCount, At(Position(t, j)).obj>>
      BY <1>8, <3>1, Maps
    <3>3. CASE j = i
      <4>1. move[h] = Position(t, l) /\ l \in i..l
        BY <1>2, <1>3, <2>2, <3>1, <3>3 DEF Turned, TurnedSlot
      <4>2. PICK y \in Positions : y = Position(t, l)
        BY <1>7, <4>1
      <4>3. To(y)' = o /\ From(y)' = PoolCount
        <5>1. To(Position(t, l))' = o /\ From(Position(t, l))' = PoolCount
          BY <1>2, <1>8, <4>1
        <5> QED  BY <4>2, <5>1 DEF To, From, At, Position, Taken, PoolOf, Before
      <4>4. KeyMap'[y] = <<From(y)', To(y)'>>
        BY Maps
      <4> QED  BY <1>2, <3>2, <3>3, <4>1, <4>2, <4>3, <4>4
    <3>4. CASE j > i
      <4>1. move[h] = Position(t, j - 1) /\ j - 1 \in i..l /\ j \in i + 1..l
        BY <1>2, <1>3, <2>2, <3>1, <3>4 DEF Turned, TurnedSlot
      <4>2. PICK y \in Positions : y = Position(t, j - 1)
        BY <1>7, <4>1
      <4>3. To(y)' = At(Position(t, j)).obj /\ From(y)' = PoolCount
        <5>1. /\ To(Position(t, j - 1))' = At(Position(t, j)).obj
              /\ From(Position(t, j - 1))' = PoolCount
          BY <1>2, <1>8, <4>1
        <5> QED  BY <4>2, <5>1 DEF To, From, At, Position, Taken, PoolOf, Before
      <4>4. KeyMap'[y] = <<From(y)', To(y)'>>
        BY Maps
      <4> QED  BY <3>2, <4>1, <4>2, <4>3, <4>4
    <3> QED  BY <3>3, <3>4
  <2> QED  BY <2>1, <2>2
<1>11. \A k, p : Due(k, p)' = Due(k, p) +
         (IF d = 1 /\ KeyMap'[move[h0]] = <<k, p>> THEN 1 ELSE 0)
  BY <1>1, <1>9, <1>10, DueMoved
<1>12. KeyMap'[move[h0]] = <<PoolCount, o>>
  <2>1. OwedMap[h0] > 0 /\ KeyMap[h0] = <<PoolCount, o>>
    <3>1. i \in i..l
      BY <1>2
    <3>2. OwedAt(h0) = At(h0).count + 1 /\ At(h0) \in Entries
      BY <1>5, <1>8, <1>7, <3>1, PlaceFacts DEF Core
    <3>3. At(h0).count + 1 > 0
      BY <3>2 DEF Entries
    <3> QED  BY <1>2, <1>5, <1>8, <3>1, <3>2, <3>3, Maps
  <2> QED  BY <1>10, <2>1
<1> QED
  BY <1>6, <1>11, <1>12

-----------------------------------------------------------------------------
(***************************************************************************)
(* The stack of pools that a state stands for.                             *)
(***************************************************************************)

PopsLeft == IF Over THEN Len(frames) - 1 ELSE Len(frames)
Sent == IF frames # <<>> /\ ~Top.running THEN Len(frames) - 1 ELSE Len(frames)
PopOf(f) == IF f.exit THEN 1 ELSE 1 + PoolOf(f.stop)

StackFact ==
  /\ PoolCount \in Nat \ {0}
  /\ hot # EmptyPoolPlaceholder => PoolCount = 1 + Cardinality(Boundaries)
  /\ Pools = [k \in 1..PoolCount |-> [o \in Objects |-> Due(k, o)]]
  /\ \A k, o : Due(k, o) \in Nat
  /\ \A k, o : k \in Nat /\ k > PoolCount => Due(k, o) = 0
  /\ \A x : PoolOf(x) \in 1..PoolCount
  /\ Len(frames) \in Nat /\ PopsLeft \in Nat /\ Sent \in Nat
  /\ Sent <= PopsLeft /\ PopsLeft <= Len(frames)
  /\ Popping = [i \in 1..PopsLeft |-> PopOf(frames[i])]
  /\ Receiving = [i \in 1..Sent |-> frames[i].obj]
  /\ ProgramRuns => PopsLeft = Len(frames) /\ Sent = Len(frames)

\* A pop that is over neither runs nor owes a release.
LEMMA OverFacts ==
  ASSUME Core, EntryInv, Over
  PROVE  ~Top.running /\ Top.left = 0 /\ ~IsBoundary(Top.stop)
<1>1. EntryOK(Top) /\ Top.stop \in Positions /\ Top.stop.page \in 1..Len(pages)
      /\ Top.stop.slot \in Nat
  <2>1. frames # <<>>
    BY DEF Over
  <2>2. EntryOK(Top) /\ Top.stop \in Positions /\ InStack(Top.stop) /\ hot \in 1..Len(pages)
    BY <2>1, TopFacts, EntryFacts DEF Top, StopInv
  <2>3. Top.stop.page \in Nat /\ Top.stop.slot \in Nat /\ Len(pages) \in Nat
    BY <2>2, PositionFacts, PagesFacts DEF Core
  <2>4. Top.stop.page \in 1..Len(pages)
    BY <2>2, <2>3 DEF InStack
  <2> QED  BY <2>2, <2>3, <2>4
<1>2. ~IsBoundary(Top.stop)
  <2>1. Len(pages[Top.stop.page]) = Top.stop.slot - 1
    BY DEF Over, Reached
  <2> QED  BY <1>1, <2>1 DEF IsBoundary
<1> QED
  BY <1>1, <1>2 DEF Over, EntryOK

LEMMA StackHolds ==
  ASSUME Core, EntryInv
  PROVE  StackFact
<1>1. DueOK /\ PagesOK
  BY DueOKHolds DEF Core
<1>2. Cardinality(Boundaries) \in Nat /\ \A x : PoolOf(x) \in 1..1 + Cardinality(Boundaries)
  BY <1>1, PoolFacts
<1>3. /\ PoolCount \in Nat \ {0} /\ PoolCount >= 1 + Cardinality(Boundaries)
      /\ hot # EmptyPoolPlaceholder => PoolCount = 1 + Cardinality(Boundaries)
  BY <1>2 DEF PoolCount
<1>4. \A x : PoolOf(x) \in 1..PoolCount
  <2> SUFFICES ASSUME NEW x PROVE PoolOf(x) \in 1..PoolCount
    OBVIOUS
  <2>1. PoolOf(x) \in 1..1 + Cardinality(Boundaries)
    BY <1>2
  <2> QED  BY <1>2, <1>3, <2>1
<1>5. ASSUME NEW k \in Nat, k > PoolCount PROVE \A o : Due(k, o) = 0
  <2>1. \A h \in Positions : From(h) # k
    <3> SUFFICES ASSUME NEW h \in Positions PROVE From(h) # k
      OBVIOUS
    <3>1. From(h) \in 1..PoolCount
      BY <1>4 DEF From
    <3> QED  BY <1>3, <1>5, <3>1
  <2> QED  BY <1>1, <2>1, NothingDue
<1>6. \A k, o : Due(k, o) \in Nat
  BY <1>1, DueNat
<1>7. frames \in Seq(Frames) /\ Len(frames) \in Nat /\ (frames # <<>> => Len(frames) > 0)
  BY TopFacts DEF Core
<1>8. Over => ~Top.running
  BY OverFacts
<1>9. /\ PopsLeft \in Nat /\ Sent \in Nat /\ Sent <= PopsLeft /\ PopsLeft <= Len(frames)
      /\ ProgramRuns => PopsLeft = Len(frames) /\ Sent = Len(frames)
  <2>1. Over => frames # <<>> /\ ~ProgramRuns
    BY <1>8 DEF Over, ProgramRuns
  <2>2. ProgramRuns <=> ~(frames # <<>> /\ ~Top.running)
    BY DEF ProgramRuns
  <2> QED  BY <1>7, <2>1, <2>2 DEF PopsLeft, Sent
<1>10. Popping = [i \in 1..PopsLeft |-> PopOf(frames[i])]
  <2>1. CASE Over
    <3>1. PICK n \in 0..Len(frames) : n = Len(frames) - 1 /\ n = PopsLeft
      <4>1. frames # <<>> /\ PopsLeft = Len(frames) - 1
        BY <2>1 DEF Over, PopsLeft
      <4>2. Len(frames) \in Nat /\ Len(frames) > 0
        BY <1>7, <4>1
      <4> QED  BY <4>1, <4>2
    <3>2. Unfinished = SubSeq(frames, 1, n)
      BY <2>1, <3>1 DEF Unfinished, Over, Drop
    <3>3. Len(Unfinished) = n /\ \A i \in 1..n : Unfinished[i] = frames[i]
      BY <1>7, <3>2, SubSeqProperties
    <3> QED  BY <3>1, <3>3 DEF Popping, PopOf
  <2>2. CASE ~Over
    <3>1. Unfinished = frames
      BY <2>2 DEF Unfinished, Over
    <3> QED  BY <2>2, <3>1 DEF Popping, PopOf, PopsLeft
  <2> QED  BY <2>1, <2>2
<1>11. Receiving = [i \in 1..Sent |-> frames[i].obj]
  <2>1. Running = 1..Sent
    <3>1. ASSUME NEW i \in 1..Len(frames) PROVE frames[i].running <=> i \in 1..Sent
      <4>1. frames # <<>> /\ Len(frames) \in 1..Len(frames) /\ i <= Len(frames) /\ i \in Nat
        BY <1>7
      <4>2. CASE i < Len(frames)
        <5>1. frames[i].running
          BY <4>2 DEF Core, FrameInv
        <5> QED  BY <1>7, <4>1, <4>2, <5>1 DEF Sent
      <4>3. CASE i = Len(frames)
        BY <1>7, <4>1, <4>3 DEF Sent, Top
      <4> QED  BY <4>1, <4>2, <4>3
    <3>2. \A i \in 1..Sent : i \in 1..Len(frames)
      BY <1>7, <1>9
    <3> QED  BY <3>1, <3>2 DEF Running
  <2>2. Cardinality(1..Sent) = Sent
    <3>1. 1 <= Sent \/ Sent = 0
      BY <1>9
    <3>2. Cardinality(1..Sent) = IF 1 > Sent THEN 0 ELSE Sent - 1 + 1
      BY <1>9, FS_Interval
    <3> QED  BY <1>9, <3>1, <3>2
  <2> QED  BY <2>1, <2>2 DEF Receiving
<1>12. Pools = [k \in 1..PoolCount |-> [o \in Objects |-> Due(k, o)]]
  BY DEF Pools
<1> QED
  BY <1>3, <1>4, <1>5, <1>6, <1>7, <1>9, <1>10, <1>11, <1>12 DEF StackFact

LEMMA NextStack == Core' /\ EntryInv' => StackFact'
<1>1. Core /\ EntryInv => StackFact
  BY StackHolds
<1> QED  BY <1>1, PTL

\* The bag of a pool.
DueTo(k) == [o \in Objects |-> Due(k, o)]

LEMMA PoolsFacts ==
  ASSUME StackFact
  PROVE  /\ Pools \in Seq([Objects -> Nat]) /\ Len(Pools) = PoolCount
         /\ PoolCount \in Nat \ {0}
         /\ \A k \in 1..PoolCount : Pools[k] = DueTo(k)
<1>1. \A k \in 1..PoolCount : DueTo(k) \in [Objects -> Nat]
  BY DEF StackFact, DueTo
<1>2. Pools = [k \in 1..PoolCount |-> DueTo(k)] /\ PoolCount \in Nat \ {0}
  BY DEF StackFact, DueTo
<1>3. Pools \in Seq([Objects -> Nat])
  BY <1>1, <1>2
<1> QED
  BY <1>2, <1>3

LEMMA NextPoolsFacts ==
  ASSUME StackFact'
  PROVE  /\ Pools' \in Seq([Objects -> Nat]) /\ Len(Pools') = PoolCount'
         /\ PoolCount' \in Nat \ {0}
         /\ \A k \in 1..PoolCount' : Pools'[k] = DueTo(k)'
<1>1. \A k \in 1..PoolCount' : DueTo(k)' \in [Objects -> Nat]
  BY DEF StackFact, DueTo
<1>2. Pools' = [k \in 1..PoolCount' |-> DueTo(k)'] /\ PoolCount' \in Nat \ {0}
  BY DEF StackFact, DueTo
<1>3. Pools' \in Seq([Objects -> Nat])
  BY <1>1, <1>2
<1> QED
  BY <1>2, <1>3

LEMMA SameBags ==
  ASSUME \A k, o : Due(k, o)' = Due(k, o)
  PROVE  \A k : DueTo(k)' = DueTo(k)
BY DEF DueTo

LEMMA PoolsKept ==
  ASSUME StackFact, StackFact', PoolCount' = PoolCount,
         \A k, o : Due(k, o)' = Due(k, o)
  PROVE  Pools' = Pools
BY PoolsFacts, NextPoolsFacts, SameBags, SeqEqual

LEMMA PoolOpened ==
  ASSUME StackFact, StackFact', PoolCount' = PoolCount + 1,
         \A k, o : Due(k, o)' = Due(k, o)
  PROVE  Pools' = Append(Pools, Stack!EmptyPool)
<1>1. DueTo(PoolCount + 1) = Stack!EmptyPool
  <2>1. PoolCount + 1 \in Nat /\ PoolCount + 1 > PoolCount
    BY DEF StackFact
  <2>2. \A o : Due(PoolCount + 1, o) = 0
    BY <2>1 DEF StackFact
  <2> QED  BY <2>2 DEF DueTo, Stack!EmptyPool
<1>2. Stack!EmptyPool \in [Objects -> Nat]
  BY DEF Stack!EmptyPool
<1>3. PICK e, P : e \in [Objects -> Nat] /\ P = Append(Pools, e) /\ e = Stack!EmptyPool
  BY <1>2
<1>4. /\ P \in Seq([Objects -> Nat]) /\ Len(P) = PoolCount + 1
      /\ \A k \in 1..PoolCount : P[k] = Pools[k]
      /\ P[PoolCount + 1] = e
  BY <1>3, PoolsFacts, AppendProperties
<1>5. \A k \in 1..PoolCount + 1 : Pools'[k] = DueTo(k)
  BY NextPoolsFacts, SameBags
<1>6. \A k \in 1..PoolCount + 1 : k \in 1..PoolCount \/ k = PoolCount + 1
  BY PoolsFacts
<1>7. \A k \in 1..PoolCount + 1 : Pools'[k] = P[k]
  BY <1>1, <1>3, <1>4, <1>5, <1>6, PoolsFacts
<1> QED
  BY <1>3, <1>4, <1>7, NextPoolsFacts, SeqEqual

LEMMA PoolClosed ==
  ASSUME StackFact, StackFact', PoolCount' = PoolCount - 1,
         \A k, o : Due(k, o)' = Due(k, o)
  PROVE  /\ Pools' = Stack!Pop(Pools) /\ Stack!Top > 1
         /\ Pools[Stack!Top] = Stack!EmptyPool
<1>1. PoolCount \in Nat /\ PoolCount > PoolCount' /\ PoolCount > 1 /\ Stack!Top = PoolCount
      /\ PoolCount - 1 \in 0..PoolCount
  BY PoolsFacts, NextPoolsFacts DEF Stack!Top
<1>2. Pools[PoolCount] = Stack!EmptyPool
  <2>1. PICK n \in Nat : n = PoolCount
    BY <1>1
  <2>2. \A o : Due(n, o)' = 0
    BY <1>1, <2>1 DEF StackFact
  <2>3. \A o : Due(n, o) = 0
    BY <2>2
  <2>4. DueTo(PoolCount) = Stack!EmptyPool
    BY <2>1, <2>3 DEF DueTo, Stack!EmptyPool
  <2> QED  BY <1>1, <2>4, PoolsFacts
<1>3. PICK n, P : n \in 0..PoolCount /\ n = PoolCount - 1 /\ P = SubSeq(Pools, 1, n)
  BY <1>1
<1>4. /\ P \in Seq([Objects -> Nat]) /\ Len(P) = n /\ \A k \in 1..n : P[k] = Pools[k]
  BY <1>3, PoolsFacts, SubSeqProperties
<1>5. \A k \in 1..n : k \in 1..PoolCount /\ k \in 1..PoolCount'
  BY <1>1, <1>3
<1>6. \A k \in 1..n : Pools'[k] = P[k]
  BY <1>4, <1>5, PoolsFacts, NextPoolsFacts, SameBags
<1>7. Pools' = P
  BY <1>3, <1>4, <1>6, NextPoolsFacts, SeqEqual
<1> QED
  BY <1>1, <1>2, <1>3, <1>7, PoolsFacts DEF Stack!Pop

LEMMA PoolReceives ==
  ASSUME StackFact, StackFact', PoolCount' = PoolCount, NEW o \in Objects,
         \A k, p : Due(k, p)' = Due(k, p) + (IF k = PoolCount /\ p = o THEN 1 ELSE 0)
  PROVE  Pools' = [Pools EXCEPT ![Stack!Top][o] = @ + 1]
<1>1. PICK n \in 1..PoolCount : n = PoolCount /\ Stack!Top = n
  BY PoolsFacts DEF Stack!Top
<1>2. \A k, p : Due(k, p) \in Nat
  BY DEF StackFact
<1>3. ASSUME NEW k \in 1..PoolCount
      PROVE  DueTo(k)' = IF k = n THEN [DueTo(k) EXCEPT ![o] = @ + 1] ELSE DueTo(k)
  <2>1. CASE k = n
    <3>1. \A p \in Objects : Due(k, p)' = IF p = o THEN Due(k, p) + 1 ELSE Due(k, p)
      BY <1>1, <1>2, <2>1
    <3> QED  BY <2>1, <3>1 DEF DueTo
  <2>2. CASE k # n
    <3>1. \A p \in Objects : Due(k, p)' = Due(k, p)
      BY <1>1, <1>2, <2>2
    <3> QED  BY <2>2, <3>1 DEF DueTo
  <2> QED  BY <2>1, <2>2
<1>4. PICK e : e = [DueTo(n) EXCEPT ![o] = @ + 1]
  OBVIOUS
<1>5. e \in [Objects -> Nat] /\ e = [Pools[n] EXCEPT ![o] = @ + 1]
  <2>1. DueTo(n) \in [Objects -> Nat] /\ DueTo(n)[o] + 1 \in Nat /\ Pools[n] = DueTo(n)
    BY <1>2, PoolsFacts DEF DueTo
  <2> QED  BY <1>4, <2>1
<1>6. PICK P : P = [Pools EXCEPT ![n] = e]
  OBVIOUS
<1>7. /\ P \in Seq([Objects -> Nat]) /\ Len(P) = PoolCount
      /\ \A k \in 1..PoolCount : P[k] = IF k = n THEN e ELSE Pools[k]
  BY <1>5, <1>6, PoolsFacts, ExceptSeq
<1>8. \A k \in 1..PoolCount : Pools'[k] = P[k]
  BY <1>3, <1>4, <1>7, PoolsFacts, NextPoolsFacts
<1>9. Pools' = P
  BY <1>7, <1>8, NextPoolsFacts, SeqEqual
<1> QED
  BY <1>1, <1>5, <1>6, <1>9

LEMMA PoolReleases ==
  ASSUME StackFact, StackFact', PoolCount' = PoolCount, NEW o \in Objects,
         NEW n \in 1..PoolCount,
         \A k, p : Due(k, p) = Due(k, p)' + (IF n = k /\ o = p THEN 1 ELSE 0)
  PROVE  Pools' = [Pools EXCEPT ![n][o] = @ - 1] /\ Pools[n][o] > 0
<1>1. \A k, p : Due(k, p) \in Nat /\ Due(k, p)' \in Nat
  BY DEF StackFact
<1>2. \A k, p : Due(k, p)' = IF k = n /\ p = o THEN Due(k, p) - 1 ELSE Due(k, p)
  BY <1>1
<1>3. Due(n, o) > 0
  BY <1>1
<1>4. ASSUME NEW k \in 1..PoolCount
      PROVE  DueTo(k)' = IF k = n THEN [DueTo(k) EXCEPT ![o] = @ - 1] ELSE DueTo(k)
  BY <1>2 DEF DueTo
<1>5. PICK e : e = [DueTo(n) EXCEPT ![o] = @ - 1]
  OBVIOUS
<1>6. e \in [Objects -> Nat] /\ e = [Pools[n] EXCEPT ![o] = @ - 1]
  <2>1. DueTo(n) \in [Objects -> Nat] /\ DueTo(n)[o] - 1 \in Nat /\ Pools[n] = DueTo(n)
    BY <1>1, <1>3, PoolsFacts DEF DueTo
  <2> QED  BY <1>5, <2>1
<1>7. PICK P : P = [Pools EXCEPT ![n] = e]
  OBVIOUS
<1>8. /\ P \in Seq([Objects -> Nat]) /\ Len(P) = PoolCount
      /\ \A k \in 1..PoolCount : P[k] = IF k = n THEN e ELSE Pools[k]
  BY <1>6, <1>7, PoolsFacts, ExceptSeq
<1>9. \A k \in 1..PoolCount : Pools'[k] = P[k]
  BY <1>4, <1>5, <1>8, PoolsFacts, NextPoolsFacts
<1>10. Pools' = P
  BY <1>8, <1>9, NextPoolsFacts, SeqEqual
<1>11. Pools[n][o] > 0
  BY <1>3, PoolsFacts DEF DueTo
<1> QED
  BY <1>6, <1>7, <1>10, <1>11

-----------------------------------------------------------------------------
(***************************************************************************)
(* Every step keeps EntryInv.                                              *)
(***************************************************************************)

\* A push either sets the placeholder or adds a boundary on top.
LEMMA PushFacts ==
  ASSUME Core, Push
  PROVE  /\ frames' = frames /\ ProgramRuns
         /\ \/ /\ hot = NoPage /\ hot' = EmptyPoolPlaceholder
               /\ pages' = pages /\ frames = <<>>
            \/ /\ hot' > 0 /\ Grown /\ Pushed
               /\ \E n \in Positions : GrownBy(n, Entry(Boundary))
               /\ tokens' = Append(tokens, Position(hot', Len(pages'[hot'])))
<1>1. frames' = frames /\ ProgramRuns /\ AutoreleaseFast(Boundary)
  BY DEF Push, MayCall
<1>2. CASE hot' = EmptyPoolPlaceholder
  <2>1. InstallPlaceholder(Boundary)
    BY <1>1, <1>2, PagesFacts DEF AutoreleaseFast, AddToHotPage, AddToChild,
       AddToNewPage, AddToFirstPage, EmptyPoolPlaceholder, Core
  <2> QED  BY <1>1, <1>2, <2>1 DEF InstallPlaceholder, Core, FrameInv, NoPage
<1>3. CASE hot' # EmptyPoolPlaceholder
  <2>1. Boundary \in Objects \cup {Boundary}
    OBVIOUS
  <2>2. Grown /\ Pushed
    BY <1>1, <1>3, <2>1, AddGrows DEF Core
  <2>3. hot' >= 1 /\ hot' \in Int /\ PagesOK'
    BY <2>2, NextPagesFacts DEF Grown
  <2>4. hot > 0 /\ ~Full(hot) => ~Coalesces(pages[hot], Boundary)
    BY DEF Coalesces
  <2>5. \E n \in Positions : GrownBy(n, Entry(Boundary))
    BY <1>1, <1>3, <2>1, <2>3, <2>4, FastGrows
  <2>6. tokens' = Append(tokens, Position(hot', Len(pages'[hot'])))
    BY <1>3 DEF Push
  <2> QED  BY <1>1, <2>2, <2>3, <2>5, <2>6
<1> QED
  BY <1>2, <1>3

\* An autorelease adds an entry on top or is counted in one that is there.
LEMMA AutoreleaseFacts ==
  ASSUME Core, NEW o \in Objects, Autorelease(o)
  PROVE  /\ frames' = frames /\ tokens' = tokens /\ ProgramRuns
         /\ Grown /\ hot' > 0
         /\ \/ \E n \in Positions : GrownBy(n, Entry(o))
            \/ hot > 0 /\ \E p, i, l \in Nat : CoalescedAt(p, i, l, o)
<1>1. frames' = frames /\ tokens' = tokens /\ ProgramRuns
  BY DEF Autorelease, MayCall
<1>2. o \in Objects \cup {Boundary} /\ o # Boundary /\ AutoreleaseFast(o)
  BY DEF Autorelease
<1>3. hot' # EmptyPoolPlaceholder
  <2>1. AddToHotPage(o) \/ AddToChild(o) \/ AddToNewPage(o) \/ AddToFirstPage(o)
    BY <1>2 DEF AutoreleaseFast, InstallPlaceholder
  <2> QED  BY <2>1, PagesFacts DEF AddToHotPage, AddToChild, AddToNewPage,
       AddToFirstPage, EmptyPoolPlaceholder, Core
<1>4. Grown
  BY <1>2, <1>3, AddGrows DEF Core
<1>5. hot' >= 1 /\ hot' \in Int /\ PagesOK'
  BY <1>4, NextPagesFacts DEF Grown
<1>6. CASE hot > 0 /\ ~Full(hot) /\ Coalesces(pages[hot], o)
  <2>1. AddToHotPage(o)
    <3>1. hot \in 1..Len(pages)
      BY <1>6, PagesFacts DEF Core
    <3> QED  BY <1>2, <1>6, <3>1, PagesFacts DEF AutoreleaseFast, AddToChild, AddToNewPage,
       InstallPlaceholder, AddToFirstPage, EmptyPoolPlaceholder, NoPage, Core
  <2> QED  BY <1>1, <1>4, <1>5, <1>6, <2>1, CoalescedFacts
<1>7. CASE ~(hot > 0 /\ ~Full(hot) /\ Coalesces(pages[hot], o))
  <2>1. \E n \in Positions : GrownBy(n, Entry(o))
    BY <1>2, <1>3, <1>5, <1>7, FastGrows
  <2> QED  BY <1>1, <1>4, <1>5, <2>1
<1> QED
  BY <1>6, <1>7

\* EntryInv is kept by every step.
LEMMA NextEntries ==
  ASSUME Core, EntryInv, [Next]_vars
  PROVE  EntryInv'
<1>1. CASE Push
  <2>1. /\ frames' = frames /\ ProgramRuns
        /\ \/ frames = <<>>
           \/ Grown /\ Pushed /\ tokens' = Append(tokens, Position(hot', Len(pages'[hot'])))
    BY <1>1, PushFacts
  <2> QED  BY <2>1, NoEntries, EntryInvGrown
<1>2. ASSUME NEW o \in Objects, Autorelease(o) PROVE EntryInv'
  <2>1. frames' = frames /\ tokens' = tokens /\ ProgramRuns /\ Grown
    BY <1>2, AutoreleaseFacts
  <2> QED  BY <2>1, EntryInvGrown
<1>3. ASSUME NEW i \in 1..Len(tokens), PopPlaceholder(i) PROVE EntryInv'
  <2>1. frames' = frames /\ frames = <<>>
    BY <1>3, PagesFacts DEF PopPlaceholder, Core, FrameInv, NoPage
  <2> QED  BY <2>1, NoEntries
<1>4. ASSUME NEW i \in 1..Len(tokens), StartPop(i) PROVE EntryInv'
  BY <1>4, StartPopEntries
<1>5. CASE ThreadExit
  BY <1>5, ThreadExitEntries
<1>6. CASE TakeEntry
  BY <1>6, TakeEntries
<1>7. CASE Release
  BY <1>7, ReleaseEntries
<1>8. CASE ReleaseReturns
  BY <1>8, ReturnEntries
<1>9. CASE PopPage
  BY <1>9, PopPageEntries
<1>10. CASE KillPages
  <2>1. frames # <<>> /\ Top.exit /\ frames' = Drop(frames)
    BY <1>10 DEF KillPages, Releasing
  <2>2. Len(frames) = 1
    BY <2>1, TopFacts DEF Core, FrameInv, Top
  <2>3. frames' = <<>>
    BY <2>1, <2>2 DEF Drop, Core
  <2> QED  BY <2>3, NoEntries
<1>11. CASE UNCHANGED vars
  BY <1>11 DEF vars, EntryInv, EntryOK, InStack, AtOrBefore, Before, IsBoundary, Reached
<1> QED
  BY <1>1, <1>2, <1>3, <1>4, <1>5, <1>6, <1>7, <1>8, <1>9, <1>10, <1>11
     DEF Next, Program, Pops

-----------------------------------------------------------------------------
(***************************************************************************)
(* Every step is a step of the stack of pools, or leaves it as it is.      *)
(***************************************************************************)

LEMMA PopsFacts ==
  ASSUME StackFact
  PROVE  /\ Popping \in Seq(Nat) /\ Len(Popping) = PopsLeft
         /\ Len(Receiving) = Sent
         /\ \A i \in 1..PopsLeft : Popping[i] = PopOf(frames[i])
         /\ \A i \in 1..Sent : Receiving[i] = frames[i].obj
<1>1. \A i \in 1..PopsLeft : PopOf(frames[i]) \in Nat
  BY DEF StackFact, PopOf
<1> QED
  BY <1>1 DEF StackFact

\* A step of the program that leaves the pops alone.
LEMMA PopsKept ==
  ASSUME Core, StackFact, StackFact', ProgramRuns, frames' = frames,
         \A x \in Positions : InStack(x) => PoolOf(x)' = PoolOf(x)
  PROVE  Popping' = Popping /\ Receiving' = Receiving /\ Stack!ProgramRuns
<1>1. ProgramRuns'
  BY DEF ProgramRuns, Top
<1>2. PICK n \in Nat : /\ n = Len(frames) /\ PopsLeft = n /\ Sent = n
                       /\ PopsLeft' = n /\ Sent' = n
  BY <1>1 DEF StackFact
<1>3. ASSUME NEW i \in 1..n PROVE PopOf(frames[i])' = PopOf(frames[i])
  <2>1. PICK x \in Positions : x = frames[i].stop /\ InStack(x)
    BY <1>2, FrameFacts DEF StopInv
  <2>2. x = frames'[i].stop /\ PoolOf(x)' = PoolOf(x)
    BY <2>1
  <2>3. PopOf(frames[i])' = IF frames[i].exit THEN 1 ELSE 1 + PoolOf(x)'
    BY <2>1, <2>2 DEF PopOf, PoolOf, Before
  <2> QED  BY <2>1, <2>2, <2>3 DEF PopOf
<1>4. Popping' = [i \in 1..n |-> PopOf(frames[i])'] /\ Popping = [i \in 1..n |-> PopOf(frames[i])]
  BY <1>2 DEF StackFact
<1>5. Receiving' = Receiving
  BY <1>2 DEF StackFact
<1> QED
  BY <1>2, <1>3, <1>4, <1>5, PopsFacts DEF Stack!ProgramRuns

\* AutoreleasePoolPage::push opens a pool.
LEMMA PushStep ==
  ASSUME Core, Core', EntryInv, EntryInv', Push
  PROVE  Stack!Push
<1>1. StackFact /\ StackFact' /\ DueOK /\ DueOK'
  BY StackHolds, NextStack, DueOKHolds, DueOKNext
<1>2. frames' = frames /\ ProgramRuns
  BY PushFacts
<1>3. CASE hot = NoPage /\ hot' = EmptyPoolPlaceholder /\ pages' = pages /\ frames = <<>>
  <2>1. Places' = Places /\ Boundaries' = Boundaries /\ \A x \in Places : At(x)' = At(x)
    BY <1>3 DEF Places, Boundaries, At
  <2>2. \A x : PoolOf(x)' = PoolOf(x)
    BY <2>1 DEF PoolOf, Before
  <2>3. PoolCount' = PoolCount + 1
    <3>1. Cardinality(Boundaries) \in Nat
      BY PoolFacts DEF Core
    <3> QED  BY <1>3, <2>1, <3>1 DEF PoolCount, NoPage, EmptyPoolPlaceholder
  <2>4. \A h \in Positions : OwedAt(h) = 0 /\ OwedAt(h)' = 0
    <3>1. Places = {}
      BY <1>3, NoPlaces DEF NoPage, Core
    <3> QED  BY <1>2, <1>3, <2>1, <3>1 DEF OwedAt, InFrames
  <2>5. \A k, o : Due(k, o)' = Due(k, o)
    BY <1>1, <2>4, DueSame
  <2>6. Pools' = Append(Pools, Stack!EmptyPool)
    BY <1>1, <2>3, <2>5, PoolOpened
  <2>7. Popping' = Popping /\ Receiving' = Receiving /\ Stack!ProgramRuns
    BY <1>1, <1>2, <2>2, PopsKept
  <2> QED  BY <2>6, <2>7 DEF Stack!Push
<1>4. CASE hot' > 0 /\ Grown /\ \E n \in Positions : GrownBy(n, Entry(Boundary))
  <2>1. PICK n \in Positions : GrownBy(n, Entry(Boundary))
    BY <1>4
  <2>2. PoolCount' = PoolCount + 1
    <3>1. Entry(Boundary).obj = Boundary
      BY DEF Entry
    <3> QED  BY <1>4, <2>1, <3>1, GrownPools
  <2>3. \A x \in Positions : InStack(x) => PoolOf(x)' = PoolOf(x)
    BY <1>4, <2>1, GrownPools
  <2>4. \A k, p : Due(k, p)' = Due(k, p)
    <3>1. Boundary \in Objects \cup {Boundary}
      OBVIOUS
    <3>2. \A k, p : Due(k, p)' = Due(k, p) + 0
      BY <1>2, <1>4, <2>1, <3>1, GrownDue
    <3>3. \A k, p : Due(k, p) \in Nat
      BY <1>1 DEF StackFact
    <3> QED  BY <3>2, <3>3
  <2>5. Pools' = Append(Pools, Stack!EmptyPool)
    BY <1>1, <2>2, <2>4, PoolOpened
  <2>6. Popping' = Popping /\ Receiving' = Receiving /\ Stack!ProgramRuns
    BY <1>1, <1>2, <2>3, PopsKept
  <2> QED  BY <2>5, <2>6 DEF Stack!Push
<1> QED
  BY <1>3, <1>4, PushFacts

\* autorelease puts the object in the innermost pool.
LEMMA AutoreleaseStep ==
  ASSUME Core, Core', EntryInv, EntryInv', NEW o \in Objects, Autorelease(o)
  PROVE  Stack!Autorelease(o)
<1>1. StackFact /\ StackFact'
  BY StackHolds, NextStack
<1>2. frames' = frames /\ ProgramRuns /\ hot' > 0
  BY AutoreleaseFacts
<1>3. /\ PoolCount' = PoolCount
      /\ \A x \in Positions : InStack(x) => PoolOf(x)' = PoolOf(x)
      /\ \A k, p : Due(k, p)' = Due(k, p) + (IF k = PoolCount /\ p = o THEN 1 ELSE 0)
  <2>1. CASE \E n \in Positions : GrownBy(n, Entry(o))
    <3>1. PICK n \in Positions : GrownBy(n, Entry(o))
      BY <2>1
    <3>2. Entry(o).obj # Boundary /\ o # Boundary /\ o \in Objects \cup {Boundary}
      BY DEF Entry
    <3>3. PoolCount' = PoolCount + 0 /\ PoolCount \in Nat
      BY <1>2, <3>1, <3>2, GrownPools
    <3>4. \A x \in Positions : InStack(x) => PoolOf(x)' = PoolOf(x)
      BY <1>2, <3>1, GrownPools
    <3>5. \A k, p :
            Due(k, p)' = Due(k, p) +
              (IF o # Boundary /\ k = PoolCount /\ p = o THEN 1 ELSE 0)
      BY <1>2, <3>1, <3>2, GrownDue
    <3> QED  BY <3>2, <3>3, <3>4, <3>5
  <2>2. CASE hot > 0 /\ \E p, i, l \in Nat : CoalescedAt(p, i, l, o)
    <3>1. PICK t \in Nat, i \in Nat, l \in Nat : CoalescedAt(t, i, l, o)
      BY <2>2
    <3>2. t > 0
      BY <2>2, <3>1 DEF CoalescedAt
    <3>3. PoolCount' = PoolCount /\ \A x : PoolOf(x)' = PoolOf(x)
      BY <3>1, <3>2, CoalescedPools
    <3>4. \A k, p :
            Due(k, p)' = Due(k, p) + (IF k = PoolCount /\ p = o THEN 1 ELSE 0)
      BY <1>2, <3>1, <3>2, CoalescedDue
    <3> QED  BY <3>3, <3>4
  <2> QED  BY <2>1, <2>2, AutoreleaseFacts
<1>4. Pools' = [Pools EXCEPT ![Stack!Top][o] = @ + 1]
  BY <1>1, <1>3, PoolReceives
<1>5. Popping' = Popping /\ Receiving' = Receiving /\ Stack!ProgramRuns
  BY <1>1, <1>2, <1>3, PopsKept
<1> QED
  BY <1>4, <1>5 DEF Stack!Autorelease

\* A step that leaves the pages alone.
LEMMA SameEntries ==
  ASSUME pages' = pages, hot' = hot
  PROVE  /\ Places' = Places /\ \A x : At(x)' = At(x)
         /\ PoolCount' = PoolCount /\ \A x : PoolOf(x)' = PoolOf(x)
<1>1. Places' = Places /\ \A x : At(x)' = At(x)
  BY DEF Places, At
<1>2. Boundaries' = Boundaries
  BY <1>1 DEF Boundaries
<1> QED
  BY <1>1, <1>2, SamePools

LEMMA SourceKept ==
  ASSUME pages' = pages, hot' = hot, NEW h,
         h.page = 0 => /\ frames'[h.slot].obj = frames[h.slot].obj
                       /\ frames'[h.slot].entry = frames[h.slot].entry
  PROVE  To(h)' = To(h) /\ From(h)' = From(h)
<1>1. \A x : At(x)' = At(x) /\ PoolOf(x)' = PoolOf(x)
  BY SameEntries
<1>2. CASE h.page = 0
  <2>1. PICK x : x = frames[h.slot].entry
    OBVIOUS
  <2>2. From(h) = PoolOf(x) /\ From(h)' = PoolOf(x)'
    BY <1>2, <2>1 DEF From, Taken, PoolOf, Before
  <2>3. To(h)' = To(h)
    BY <1>2 DEF To, Taken
  <2> QED  BY <1>1, <2>2, <2>3
<1>3. CASE h.page # 0
  BY <1>1, <1>3 DEF To, From
<1> QED
  BY <1>2, <1>3

LEMMA StartPopDue ==
  ASSUME Core, Core', EntryInv, EntryInv', pages' = pages, hot' = hot,
         NEW f \in Frames, f.left = 0, frames' = Append(frames, f)
  PROVE  \A k, o : Due(k, o)' = Due(k, o)
<1>1. DueOK /\ DueOK'
  BY DueOKHolds, DueOKNext
<1>2. /\ Len(frames) \in Nat /\ Len(frames') = Len(frames) + 1
      /\ \A k \in 1..Len(frames) : frames'[k] = frames[k]
      /\ frames'[Len(frames) + 1] = f
  <2>1. frames \in Seq(Frames)
    BY DEF Core
  <2> QED  BY <2>1, AppendProperties
<1>3. Places' = Places /\ \A x : At(x)' = At(x)
  BY SameEntries
<1>4. ASSUME NEW h \in Positions PROVE OwedAt(h)' = OwedAt(h)
  <2>1. CASE h \in Places
    BY <1>3, <2>1 DEF OwedAt, Owed
  <2>2. CASE h \notin Places /\ InFrames(h)
    <3>1. InFrames(h)' /\ Taken(h)' = Taken(h)
      BY <1>2, <2>2 DEF InFrames, Taken
    <3> QED  BY <1>3, <2>2, <3>1 DEF OwedAt
  <2>3. CASE h \notin Places /\ ~InFrames(h) /\ InFrames(h)'
    <3>1. h.slot = Len(frames) + 1
      BY <1>2, <2>3 DEF InFrames
    <3>2. Taken(h)' = f
      BY <1>2, <3>1 DEF Taken
    <3> QED  BY <1>3, <2>3, <3>2 DEF OwedAt
  <2>4. CASE h \notin Places /\ ~InFrames(h) /\ ~InFrames(h)'
    BY <1>3, <2>4 DEF OwedAt
  <2> QED  BY <2>1, <2>2, <2>3, <2>4
<1>5. ASSUME NEW h \in Positions, OwedAt(h) > 0
      PROVE  To(h)' = To(h) /\ From(h)' = From(h)
  <2>1. h.page = 0 => InFrames(h)
    BY <1>5, PlaceFacts DEF OwedAt, Core
  <2>2. h.page = 0 => frames'[h.slot] = frames[h.slot]
    BY <1>2, <2>1 DEF InFrames
  <2> QED  BY <2>2, SourceKept
<1> QED
  BY <1>1, <1>4, <1>5, DueSame

\* What the pop of a token starts at is above the innermost pop in progress.
LEMMA PopsNested ==
  ASSUME Core, EntryInv, ProgramRuns, frames # <<>>, NEW i \in Base + 1..Len(tokens),
         i \in 1..Len(tokens), NEW x, x = Stop(tokens[i]), IsBoundary(x)
  PROVE  PopOf(Top) < 1 + PoolOf(x)
<1>1. /\ Len(frames) \in 1..Len(frames) /\ Top.running /\ Base = Top.base /\ hot > 0
      /\ Top.base \in 0..Len(tokens) /\ StopInv(Top)
  BY TopFacts DEF ProgramRuns, Base
<1>2. /\ EntryOK(Top) /\ Top.entry \in Positions /\ Top.stop \in Positions
      /\ Top.exit \/ IsBoundary(Top.stop)
  BY <1>1, EntryFacts DEF Top
<1>3. i \in Top.base + 1..Len(tokens)
  BY <1>1
<1>4. PICK y \in Positions : y = x /\ y = tokens[i]
  <2>1. tokens[i] # PlaceholderToken /\ tokens[i] \in Positions
    BY <1>1, <1>3 DEF StopInv, Core
  <2> QED  BY <2>1 DEF Stop
<1>5. Top.exit \/ Before(Top.stop, y)
  <2>1. Top.exit \/ Before(Top.stop, Top.entry)
    BY <1>1, <1>2 DEF EntryOK
  <2>2. AtOrBefore(Top.entry, y)
    BY <1>2, <1>3, <1>4 DEF EntryOK
  <2> QED  BY <1>2, <2>1, <2>2, Order
<1>6. PoolOf(y) \in Nat /\ PoolOf(y) >= 1
  <2>1. PoolOf(y) \in 1..1 + Cardinality(Boundaries) /\ Cardinality(Boundaries) \in Nat
    BY PoolFacts DEF Core
  <2> QED  BY <2>1
<1>7. CASE Top.exit
  BY <1>4, <1>6, <1>7 DEF PopOf
<1>8. CASE ~Top.exit
  <2>1. Top.stop \in Boundaries
    BY <1>2, <1>8, PlaceFacts DEF Core
  <2>2. PoolOf(Top.stop) < PoolOf(y) /\ PoolOf(Top.stop) \in Nat
    <3>1. PICK t \in Boundaries : t = Top.stop
      BY <2>1
    <3>2. PoolOf(t) < PoolOf(y) /\ PoolOf(t) \in 1..1 + Cardinality(Boundaries)
          /\ Cardinality(Boundaries) \in Nat
      BY <1>4, <1>5, <1>8, <3>1, PoolFacts DEF Core
    <3> QED  BY <3>1, <3>2
  <2> QED  BY <1>4, <1>6, <1>8, <2>2 DEF PopOf
<1> QED
  BY <1>7, <1>8

\* A pop starts: it owes what its pool and those above it hold.
LEMMA StartPopStep ==
  ASSUME Core, Core', EntryInv, EntryInv', NEW i \in 1..Len(tokens), StartPop(i)
  PROVE  \E k \in 1..Stack!Top : Stack!StartPop(k)
<1>1. PICK f \in Frames :
        /\ f = Frame(Stop(tokens[i]), i - 1, FALSE) /\ frames' = Append(frames, f)
        /\ f.stop = Stop(tokens[i]) /\ f.stop \in Positions /\ IsBoundary(f.stop)
        /\ pages' = pages /\ hot' = hot /\ tokens' = SubSeq(tokens, 1, i - 1)
        /\ hot > 0 /\ i - 1 \in 0..Len(tokens) /\ i \in Base + 1..Len(tokens)
  BY StartPopFacts
<1>2. f.left = 0 /\ ~f.running /\ ~f.exit
  BY <1>1 DEF Frame
<1>3. StackFact /\ StackFact' /\ ProgramRuns
  BY StackHolds, NextStack DEF StartPop, MayPop
<1>4. PICK n \in Nat : n = Len(frames) /\ PopsLeft = n /\ Sent = n
  BY <1>3 DEF StackFact
<1>5. /\ Len(frames') = n + 1 /\ frames'[n + 1] = f
      /\ \A k \in 1..n : frames'[k] = frames[k]
  <2>1. frames \in Seq(Frames)
    BY DEF Core
  <2>2. f \in Frames /\ frames' = Append(frames, f)
    BY <1>1
  <2>3. /\ Len(frames') = Len(frames) + 1 /\ frames'[Len(frames) + 1] = f
        /\ \A k \in 1..Len(frames) : frames'[k] = frames[k]
    BY ONLY <2>1, <2>2, AppendProperties
  <2> QED  BY <1>4, <2>3
<1>6. PopsLeft' = n + 1 /\ Sent' = n
  <2>1. Top' = f /\ frames' # <<>>
    <3>1. Top' = frames'[n + 1]
      BY <1>5 DEF Top
    <3>2. frames' # <<>>
      BY <1>4, <1>5
    <3> QED  BY <1>5, <3>1, <3>2
  <2>2. ~Reached(f)'
    <3>1. f.stop.slot \in 1..Len(pages[f.stop.page])
      BY <1>1 DEF IsBoundary
    <3>2. Len(pages[f.stop.page]) # f.stop.slot - 1
      <4>1. f.stop.page \in 1..Len(pages)
        BY <1>1 DEF IsBoundary
      <4>2. Len(pages[f.stop.page]) \in 0..PageSize
        BY <4>1, PagesFacts DEF Core
      <4>3. f.stop.slot \in Nat
        BY <1>1, PositionFacts
      <4> QED  BY <3>1, <4>2, <4>3
    <3> QED  BY <1>1, <3>2 DEF Reached
  <2>3. ~Over'
    BY <2>1, <2>2 DEF Over, Reached
  <2>4. PopsLeft' = Len(frames') /\ Sent' = Len(frames') - 1
    BY <1>2, <2>1, <2>3 DEF PopsLeft, Sent
  <2> QED  BY <1>4, <1>5, <2>4
<1>7. Pools' = Pools
  <2>1. \A k, o : Due(k, o)' = Due(k, o)
    BY <1>1, <1>2, StartPopDue
  <2>2. PoolCount' = PoolCount
    BY <1>1, SameEntries
  <2> QED  BY <1>3, <2>1, <2>2, PoolsKept
<1>8. PICK x \in Positions : x = f.stop
  BY <1>1
<1>9. ASSUME NEW k \in 1..n PROVE PopOf(frames[k])' = PopOf(frames[k])
  <2>1. PICK y : y = frames[k].stop
    OBVIOUS
  <2>2. PoolOf(y)' = PoolOf(y)
    BY <1>1, SameEntries
  <2>3. PopOf(frames[k])' = IF frames[k].exit THEN 1 ELSE 1 + PoolOf(y)'
    BY <1>5, <2>1 DEF PopOf, PoolOf, Before
  <2> QED  BY <2>1, <2>2, <2>3 DEF PopOf
<1>10. PopOf(frames[n + 1])' = 1 + PoolOf(x)
  <2>1. PopOf(frames[n + 1])' = 1 + PoolOf(x)'
    BY <1>2, <1>5, <1>8 DEF PopOf, PoolOf, Before
  <2>2. PoolOf(x)' = PoolOf(x)
    BY <1>1, SameEntries
  <2> QED  BY <2>1, <2>2
<1>11. PICK k : k = 1 + PoolOf(x)
  OBVIOUS
<1>12. k \in 1..Stack!Top /\ k > 1 /\ k \in Nat
  <2>1. x \in Boundaries
    BY <1>1, <1>8, PlaceFacts DEF Core
  <2>2. PoolOf(x) <= Cardinality(Boundaries) /\ Cardinality(Boundaries) \in Nat
        /\ PoolOf(x) \in 1..1 + Cardinality(Boundaries)
    BY <2>1, PoolFacts DEF Core
  <2>3. PoolCount = 1 + Cardinality(Boundaries)
    BY <1>1, <1>3 DEF StackFact, EmptyPoolPlaceholder
  <2>4. Stack!Top = PoolCount
    BY <1>3, PoolsFacts DEF Stack!Top
  <2> QED  BY <1>11, <2>2, <2>3, <2>4
<1>13. Stack!Above(k)
  <2>1. CASE frames = <<>>
    <3>1. n = 0
      BY <1>4, <2>1
    <3>2. Popping = <<>>
      BY <1>3, <1>4, <3>1, PopsFacts
    <3> QED  BY <3>2 DEF Stack!Above
  <2>2. CASE frames # <<>>
    <3>1. n \in 1..n /\ frames[n] = Top
      BY <1>4, <2>2, TopFacts DEF Top
    <3>2. Popping[Len(Popping)] = PopOf(Top)
      BY <1>3, <1>4, <3>1, PopsFacts
    <3>3. PopOf(Top) < k
      BY <1>1, <1>3, <1>8, <1>11, <2>2, PopsNested
    <3> QED  BY <3>2, <3>3 DEF Stack!Above
  <2> QED  BY <2>1, <2>2
<1>14. Popping' = Append(Popping, k)
  <2>1. PICK P : P = Append(Popping, k)
    OBVIOUS
  <2>2. /\ P \in Seq(Nat) /\ Len(P) = n + 1 /\ P[n + 1] = k
        /\ \A j \in 1..n : P[j] = Popping[j]
    BY <1>3, <1>4, <1>12, <2>1, PopsFacts, AppendProperties
  <2>3. \A j \in 1..n + 1 : j \in 1..n \/ j = n + 1
    BY <1>4
  <2>4. Popping' = [j \in 1..n + 1 |-> PopOf(frames[j])']
    BY <1>3, <1>6 DEF StackFact
  <2>5. \A j \in 1..n + 1 : Popping'[j] = P[j]
    BY <1>3, <1>4, <1>9, <1>10, <1>11, <2>2, <2>3, <2>4, PopsFacts
  <2>6. Popping' \in Seq(Nat) /\ Len(Popping') = n + 1
    <3>1. \A j \in 1..n + 1 : P[j] \in Nat
      BY <2>2
    <3> QED  BY <2>4, <2>5, <3>1
  <2> QED  BY <2>1, <2>2, <2>5, <2>6, SeqEqual
<1>15. Receiving' = Receiving
  <2>1. Receiving' = [j \in 1..n |-> frames'[j].obj] /\ Receiving = [j \in 1..n |-> frames[j].obj]
    BY <1>3, <1>4, <1>6 DEF StackFact
  <2> QED  BY <1>5, <2>1
<1>16. Stack!ProgramRuns
  BY <1>3, <1>4, PopsFacts DEF Stack!ProgramRuns
<1> QED
  BY <1>7, <1>11, <1>12, <1>13, <1>14, <1>15, <1>16 DEF Stack!StartPop

LEMMA NextOverFacts ==
  Core' /\ EntryInv' /\ Over' => ~Top'.running /\ Top'.left = 0 /\ ~IsBoundary(Top.stop)'
<1>1. Core /\ EntryInv /\ Over => ~Top.running /\ Top.left = 0 /\ ~IsBoundary(Top.stop)
  BY OverFacts
<1>2. (Core /\ EntryInv /\ Over => ~Top.running /\ Top.left = 0 /\ ~IsBoundary(Top.stop))'
  BY <1>1, PTL
<1> QED
  BY <1>2

\* A step of the innermost pop, of which the others are none the wiser.
LEMMA TopPops ==
  ASSUME Core, frames # <<>>, NEW f \in Frames, SetTop(f),
         f.stop = Top.stop, f.exit = Top.exit,
         \A k \in 1..Len(frames), x \in Positions :
           x = frames[k].stop => PoolOf(x)' = PoolOf(x)
  PROVE  \A k \in 1..Len(frames) : PopOf(frames[k])' = PopOf(frames[k])
<1> SUFFICES ASSUME NEW k \in 1..Len(frames)
             PROVE  PopOf(frames[k])' = PopOf(frames[k])
  OBVIOUS
<1>1. frames'[k].stop = frames[k].stop /\ frames'[k].exit = frames[k].exit
  BY FramesReplaced DEF Top
<1>2. PICK y \in Positions : y = frames[k].stop
  BY FrameFacts
<1>3. PoolOf(y)' = PoolOf(y)
  BY <1>2
<1>4. PopOf(frames[k])' = IF frames[k].exit THEN 1 ELSE 1 + PoolOf(y)'
  BY <1>1, <1>2 DEF PopOf, PoolOf, Before
<1> QED
  BY <1>2, <1>3, <1>4 DEF PopOf

LEMMA PoppingKept ==
  ASSUME StackFact, StackFact', PopsLeft' = PopsLeft,
         \A k \in 1..Len(frames) : PopOf(frames[k])' = PopOf(frames[k])
  PROVE  Popping' = Popping
<1>1. \A k \in 1..PopsLeft : k \in 1..Len(frames)
  BY DEF StackFact
<1>2. Popping' = [k \in 1..PopsLeft |-> PopOf(frames[k])']
  BY DEF StackFact
<1>3. Popping = [k \in 1..PopsLeft |-> PopOf(frames[k])]
  BY DEF StackFact
<1>4. \A k \in 1..PopsLeft : PopOf(frames[k])' = PopOf(frames[k])
  BY <1>1
<1> QED
  BY <1>2, <1>3, <1>4

\* The releases due, when the innermost pop sends one.
LEMMA ReleaseDue ==
  ASSUME Core, Core', EntryInv, EntryInv', pages' = pages, hot' = hot,
         frames # <<>>, NEW f \in Frames, SetTop(f), NEW d \in 0..1,
         f.entry = Top.entry, f.obj = Top.obj, Top.left = f.left + d
  PROVE  \A k, o :
           Due(k, o) = Due(k, o)' +
             (IF d = 1 /\ PoolOf(Top.entry) = k /\ Top.obj = o THEN 1 ELSE 0)
<1>1. DueOK /\ DueOK'
  BY DueOKHolds, DueOKNext
<1>2. PICK n \in Nat \ {0} : n = Len(frames)
  BY TopFacts
<1>3. /\ Len(frames') = n /\ \A i \in 1..n : frames'[i] = IF i = n THEN f ELSE frames[i]
      /\ frames[n] = Top /\ n \in 1..n
  BY <1>2, FramesReplaced DEF Top
<1>4. PICK h0 \in Positions : h0 = Position(0, n) /\ h0.page = 0 /\ h0.slot = n
  BY PositionFacts
<1>5. Places' = Places /\ \A x : At(x)' = At(x)
  BY SameEntries
<1>6. \A h : InFrames(h)' <=> InFrames(h)
  BY <1>2, <1>3 DEF InFrames
<1>7. \A h \in Places : h.page # 0 /\ h # h0
  BY <1>4, PlaceFacts DEF Core
<1>8. f.left \in Nat /\ Top.left \in Nat
  BY TopFacts DEF Frames
<1>9. ASSUME NEW h \in Positions
      PROVE  OwedAt(h) = OwedAt(h)' + (IF h = h0 THEN d ELSE 0)
  <2>1. OwedAt(h)' \in Nat
    <3>1. OwedMap'[h] \in 0..MaxCount + 1 /\ OwedMap'[h] = OwedAt(h)'
      BY <1>1, NextReleasesFacts, Maps DEF ReleasesAre
    <3> QED  BY <3>1
  <2>2. CASE h \in Places
    <3>1. OwedAt(h)' = OwedAt(h)
      BY <1>5, <2>2 DEF OwedAt, Owed
    <3> QED  BY <1>7, <2>1, <2>2, <3>1
  <2>3. CASE h \notin Places /\ h = h0
    <3>1. InFrames(h) /\ InFrames(h)' /\ Taken(h) = Top /\ Taken(h)' = f
      BY <1>2, <1>3, <1>4, <1>6, <2>3 DEF InFrames, Taken
    <3>2. OwedAt(h) = Top.left /\ OwedAt(h)' = f.left
      BY <1>5, <2>3, <3>1 DEF OwedAt
    <3> QED  BY <1>8, <2>3, <3>2
  <2>4. CASE h \notin Places /\ h # h0 /\ InFrames(h)
    <3>1. h.page = 0 /\ h.slot \in 1..n /\ h.slot # n
      BY <1>2, <1>4, <2>4, SamePosition DEF InFrames
    <3>2. Taken(h)' = Taken(h)
      BY <1>3, <3>1 DEF Taken
    <3>3. OwedAt(h)' = OwedAt(h)
      BY <1>5, <1>6, <2>4, <3>2 DEF OwedAt
    <3> QED  BY <2>1, <2>4, <3>3
  <2>5. CASE h \notin Places /\ h # h0 /\ ~InFrames(h)
    <3>1. OwedAt(h)' = OwedAt(h)
      BY <1>5, <1>6, <2>5 DEF OwedAt
    <3> QED  BY <2>1, <2>5, <3>1
  <2> QED  BY <2>2, <2>3, <2>4, <2>5
<1>10. ASSUME NEW h \in Positions, h.page = 0 => InFrames(h)
       PROVE  To(h)' = To(h) /\ From(h)' = From(h)
  <2>1. h.page = 0 => h.slot \in 1..n
    BY <1>2, <1>10 DEF InFrames
  <2>2. h.page = 0 => /\ frames'[h.slot].obj = frames[h.slot].obj
                      /\ frames'[h.slot].entry = frames[h.slot].entry
    BY <1>3, <2>1
  <2> QED  BY <2>2, SourceKept
<1>11. \A h \in Positions : OwedAt(h) > 0 \/ OwedAt(h)' > 0 => (h.page = 0 => InFrames(h))
  BY <1>5, <1>6, <1>7 DEF OwedAt
<1>12. \A k, o : Due(k, o) \in Nat /\ Due(k, o)' \in Nat
  BY <1>1, DueNat, StackHolds, NextStack DEF StackFact
<1>13. CASE d = 0
  <2>1. \A h \in Positions : OwedAt(h)' = OwedAt(h)
    <3>1. \A h \in Positions : OwedAt(h)' \in Nat
      BY <1>1, NextReleasesFacts, Maps DEF ReleasesAre
    <3> QED  BY <1>9, <1>13, <3>1
  <2>2. \A k, o : Due(k, o)' = Due(k, o)
    BY <1>1, <1>10, <1>11, <2>1, DueSame
  <2> QED  BY <1>12, <1>13, <2>2
<1>14. CASE d = 1
  <2>1. \A h \in Positions : OwedAt(h) = OwedAt(h)' + (IF h = h0 THEN 1 ELSE 0)
    BY <1>9, <1>14
  <2>2. \A k, o :
          Due(k, o) = Due(k, o)' + (IF From(h0) = k /\ To(h0) = o THEN 1 ELSE 0)
    BY <1>1, <1>10, <1>11, <2>1, DueLess
  <2>3. From(h0) = PoolOf(Top.entry) /\ To(h0) = Top.obj
    BY <1>3, <1>4 DEF From, To, Taken
  <2> QED  BY <1>14, <2>2, <2>3
<1> QED
  BY <1>13, <1>14

\* The last of the pops and of the releases under way.
LEMMA LastPop ==
  ASSUME Core, StackFact, frames # <<>>, PopsLeft = Len(frames)
  PROVE  /\ Popping # <<>> /\ Popping[Len(Popping)] = PopOf(Top)
         /\ (Top.running => Stack!ProgramRuns) /\ (~Top.running => Stack!PopGoesOn)
<1>1. PICK n \in Nat \ {0} : n = Len(frames) /\ n = PopsLeft /\ frames[n] = Top
  BY TopFacts DEF Top
<1>2. Len(Popping) = n /\ Popping[n] = PopOf(Top)
  BY <1>1, PopsFacts
<1>3. Sent = IF Top.running THEN n ELSE n - 1
  BY <1>1 DEF Sent
<1>4. Len(Receiving) = Sent
  BY PopsFacts
<1>5. Popping # <<>>
  BY <1>1, <1>2, PopsFacts
<1> QED
  BY <1>1, <1>2, <1>3, <1>4, <1>5 DEF Stack!ProgramRuns, Stack!PopGoesOn

\* What a pop takes from comes after where it stops.
LEMMA TakenAbove ==
  ASSUME Core, EntryInv, frames # <<>>, Top.left > 0
  PROVE  PopOf(Top) <= PoolOf(Top.entry) /\ Top.obj \in Objects
<1>1. EntryOK(Top) /\ Top.entry \in Positions /\ Top.stop \in Positions /\ Top \in Frames
  BY TopFacts, EntryFacts DEF Top
<1>2. Top.left # 0
  BY TopFacts
<1>3. Top.obj \in Objects
  BY <1>1, <1>2 DEF EntryOK, Frames
<1>4. PICK x \in Positions, y \in Positions : x = Top.stop /\ y = Top.entry
  BY <1>1
<1>5. /\ Cardinality(Boundaries) \in Nat
      /\ \A z : PoolOf(z) \in 1..1 + Cardinality(Boundaries)
  BY PoolFacts DEF Core
<1>6. PoolOf(x) \in Nat /\ PoolOf(y) \in Nat /\ PoolOf(y) >= 1
  <2>1. PoolOf(x) \in 1..1 + Cardinality(Boundaries) /\ PoolOf(y) \in 1..1 + Cardinality(Boundaries)
    BY <1>5
  <2> QED  BY <1>5, <2>1
<1>7. CASE Top.exit
  BY <1>3, <1>4, <1>6, <1>7 DEF PopOf
<1>8. CASE ~Top.exit
  <2>1. Before(x, y) /\ IsBoundary(x)
    BY <1>1, <1>2, <1>4, <1>8 DEF EntryOK
  <2>2. x \in Boundaries
    BY <2>1, PlaceFacts DEF Core
  <2>3. PoolOf(x) < PoolOf(y)
    BY <2>1, <2>2, PoolFacts DEF Core
  <2> QED  BY <1>3, <1>4, <1>6, <1>8, <2>3 DEF PopOf
<1> QED
  BY <1>7, <1>8

\* releaseUntil sends one of the releases its pop owes.
LEMMA ReleaseStep ==
  ASSUME Core, Core', EntryInv, EntryInv', Release
  PROVE  \E o \in Objects : Stack!Release(o)
<1>1. PICK f \in Frames :
        /\ SetTop(f) /\ f = [Top EXCEPT !.left = Top.left - 1, !.running = TRUE]
        /\ f.stop = Top.stop /\ f.base = Top.base /\ f.exit = Top.exit
        /\ f.entry = Top.entry /\ f.obj = Top.obj /\ f.running
        /\ f.left = Top.left - 1 /\ Top.left \in Nat /\ Top.left > 0
        /\ frames # <<>> /\ ~Top.running
        /\ pages' = pages /\ hot' = hot /\ tokens' = tokens
  BY ReleaseFacts
<1>2. StackFact /\ StackFact'
  BY StackHolds, NextStack
<1>3. PICK n \in Nat \ {0} : n = Len(frames) /\ frames[n] = Top
  BY <1>1, TopFacts DEF Top
<1>4. /\ Len(frames') = n /\ frames' # <<>> /\ Top' = f
      /\ \A i \in 1..n : frames'[i] = IF i = n THEN f ELSE frames[i]
  BY <1>1, <1>3, FramesReplaced
<1>5. PopsLeft = n /\ Sent = n - 1
  <2>1. ~Over
    BY <1>1, OverFacts
  <2> QED  BY <1>1, <1>3, <2>1 DEF PopsLeft, Sent
<1>6. PopsLeft' = n /\ Sent' = n
  <2>1. Top'.running
    BY <1>1, <1>4
  <2>2. ~Over'
    BY <2>1, NextOverFacts
  <2> QED  BY <1>4, <2>1, <2>2 DEF PopsLeft, Sent
<1>7. PICK o \in Objects, k \in Nat : o = Top.obj /\ k = PoolOf(Top.entry) /\ PopOf(Top) <= k
      /\ k \in 1..PoolCount
  <2>1. PopOf(Top) <= PoolOf(Top.entry) /\ Top.obj \in Objects
    BY <1>1, TakenAbove
  <2>2. PoolOf(Top.entry) \in 1..PoolCount
    BY <1>2 DEF StackFact
  <2>3. PoolCount \in Nat
    BY <1>2 DEF StackFact
  <2>4. PoolOf(Top.entry) \in Nat
    BY <2>2, <2>3
  <2> QED  BY <2>1, <2>2, <2>4
<1>8. Pools' = [Pools EXCEPT ![k][o] = @ - 1] /\ Pools[k][o] > 0
  <2>1. 1 \in 0..1 /\ Top.left = f.left + 1
    BY <1>1
  <2>2. \A j, p :
          Due(j, p) = Due(j, p)' +
            (IF 1 = 1 /\ PoolOf(Top.entry) = j /\ Top.obj = p THEN 1 ELSE 0)
    BY <1>1, <2>1, ReleaseDue
  <2>3. \A j, p : Due(j, p) = Due(j, p)' + (IF k = j /\ o = p THEN 1 ELSE 0)
    BY <1>7, <2>2
  <2>4. PoolCount' = PoolCount
    BY <1>1, SameEntries
  <2> QED  BY <1>2, <1>7, <2>3, <2>4, PoolReleases
<1>9. Popping' = Popping
  <2>1. \A x : PoolOf(x)' = PoolOf(x)
    BY <1>1, SameEntries
  <2>2. \A j \in 1..Len(frames) : PopOf(frames[j])' = PopOf(frames[j])
    BY <1>1, <2>1, TopPops
  <2> QED  BY <1>2, <1>5, <1>6, <2>2, PoppingKept
<1>10. Receiving' = Append(Receiving, o)
  <2>1. Receiving = [i \in 1..n - 1 |-> frames[i].obj]
        /\ Receiving' = [i \in 1..n |-> frames'[i].obj]
    BY <1>2, <1>5, <1>6 DEF StackFact
  <2>2. \A i \in 1..n : frames'[i].obj = frames[i].obj
    BY <1>1, <1>3, <1>4
  <2>3. PICK S : S = Objects \cup {Boundary}
    OBVIOUS
  <2>4. \A i \in 1..n : frames[i].obj \in S
    <3>1. \A i \in 1..n : frames[i] \in Frames
      BY <1>3, FrameFacts
    <3> QED  BY <2>3, <3>1 DEF Frames
  <2>5. Receiving \in Seq(S) /\ Len(Receiving) = n - 1
        /\ Receiving' \in Seq(S) /\ Len(Receiving') = n
    <3>1. n - 1 \in Nat /\ \A i \in 1..n - 1 : frames[i].obj \in S
      BY <1>3, <2>4
    <3>2. \A i \in 1..n : frames'[i].obj \in S
      BY <2>2, <2>4
    <3> QED  BY <2>1, <3>1, <3>2
  <2>6. PICK R : R = Append(Receiving, o)
    OBVIOUS
  <2>7. /\ R \in Seq(S) /\ Len(R) = n /\ R[n] = o
        /\ \A i \in 1..n - 1 : R[i] = Receiving[i]
    BY <2>3, <2>5, <2>6, AppendProperties
  <2>8. \A i \in 1..n : i \in 1..n - 1 \/ i = n
    OBVIOUS
  <2>9. \A i \in 1..n : Receiving'[i] = R[i]
    BY <1>3, <1>7, <2>1, <2>2, <2>7, <2>8
  <2> QED  BY <2>5, <2>6, <2>7, <2>9, SeqEqual
<1>11. Stack!PopGoesOn /\ Popping[Len(Popping)] = PopOf(Top)
  BY <1>1, <1>2, <1>3, <1>5, LastPop
<1>12. k \in Popping[Len(Popping)]..Stack!Top
  <2>1. Stack!Top = PoolCount
    BY <1>2, PoolsFacts DEF Stack!Top
  <2>2. PopOf(Top) \in Nat
    <3>1. PoolCount \in Nat /\ \A z : PoolOf(z) \in 1..PoolCount
      BY <1>2 DEF StackFact
    <3>2. PoolOf(Top.stop) \in Nat
      BY <3>1
    <3> QED  BY <3>2 DEF PopOf
  <2> QED  BY <1>2, <1>7, <1>11, <2>1, <2>2 DEF StackFact
<1>13. \E j \in Popping[Len(Popping)]..Stack!Top :
         Pools[j][o] > 0 /\ Pools' = [Pools EXCEPT ![j][o] = @ - 1]
  BY <1>8, <1>12
<1> QED
  BY <1>9, <1>10, <1>11, <1>13 DEF Stack!Release

\* A release returns to the pop that sent it.
LEMMA ReturnStep ==
  ASSUME Core, Core', EntryInv, EntryInv', ReleaseReturns
  PROVE  Stack!ReleaseReturns
<1>1. PICK f \in Frames :
        /\ SetTop(f) /\ f.stop = Top.stop /\ f.base = Top.base /\ f.exit = Top.exit
        /\ f.entry = Top.entry /\ f.obj = Top.obj /\ ~f.running
        /\ f.left = Top.left /\ Top.base \in 0..Len(tokens)
        /\ frames # <<>> /\ Top.running
        /\ pages' = pages /\ hot' = hot /\ tokens' = SubSeq(tokens, 1, Top.base)
  BY ReturnFacts
<1>2. StackFact /\ StackFact'
  BY StackHolds, NextStack
<1>3. PICK n \in Nat \ {0} : n = Len(frames) /\ frames[n] = Top
  BY <1>1, TopFacts DEF Top
<1>4. /\ Len(frames') = n /\ frames' # <<>> /\ Top' = f
      /\ \A i \in 1..n : frames'[i] = IF i = n THEN f ELSE frames[i]
  BY <1>1, <1>3, FramesReplaced
<1>5. PopsLeft = n /\ Sent = n
  <2>1. ~Over
    BY <1>1, OverFacts
  <2> QED  BY <1>1, <1>3, <2>1 DEF PopsLeft, Sent
<1>6. PopsLeft' = n /\ Sent' = n - 1
  <2>1. ~Top'.running /\ Top'.exit = Top.exit /\ Top'.stop = Top.stop
    BY <1>1, <1>4
  <2>2. Top.exit \/ IsBoundary(Top.stop)
    <3>1. n \in 1..Len(frames)
      BY <1>3
    <3> QED  BY <1>1, <1>3, <3>1, EntryFacts
  <2>3. Top.exit \/ IsBoundary(Top.stop)'
    BY <1>1, <1>4, <2>2 DEF IsBoundary
  <2>4. ~Over'
    BY <2>1, <2>3, NextOverFacts DEF Over
  <2> QED  BY <1>4, <2>1, <2>4 DEF PopsLeft, Sent
<1>7. Pools' = Pools
  <2>1. 0 \in 0..1 /\ Top.left = f.left + 0
    BY <1>1, TopFacts
  <2>2. \A j, p : Due(j, p) = Due(j, p)' + 0
    BY <1>1, <2>1, ReleaseDue
  <2>3. \A j, p : Due(j, p)' = Due(j, p)
    BY <1>2, <2>2 DEF StackFact
  <2>4. PoolCount' = PoolCount
    BY <1>1, SameEntries
  <2> QED  BY <1>2, <2>3, <2>4, PoolsKept
<1>8. Popping' = Popping
  <2>1. \A x : PoolOf(x)' = PoolOf(x)
    BY <1>1, SameEntries
  <2>2. \A j \in 1..Len(frames) : PopOf(frames[j])' = PopOf(frames[j])
    BY <1>1, <2>1, TopPops
  <2> QED  BY <1>2, <1>5, <1>6, <2>2, PoppingKept
<1>9. Receiving' = Stack!Pop(Receiving) /\ Receiving # <<>>
  <2>1. Receiving = [i \in 1..n |-> frames[i].obj]
        /\ Receiving' = [i \in 1..n - 1 |-> frames'[i].obj]
    BY <1>2, <1>5, <1>6 DEF StackFact
  <2>2. \A i \in 1..n : frames'[i].obj = frames[i].obj
    BY <1>1, <1>3, <1>4
  <2>3. PICK S : S = Objects \cup {Boundary}
    OBVIOUS
  <2>4. \A i \in 1..n : frames[i].obj \in S
    <3>1. \A i \in 1..n : frames[i] \in Frames
      BY <1>3, FrameFacts
    <3> QED  BY <2>3, <3>1 DEF Frames
  <2>5. Receiving \in Seq(S) /\ Len(Receiving) = n
        /\ Receiving' \in Seq(S) /\ Len(Receiving') = n - 1
    <3>1. n - 1 \in Nat /\ \A i \in 1..n - 1 : frames'[i].obj \in S
      BY <1>3, <2>2, <2>4
    <3> QED  BY <2>1, <2>4, <3>1
  <2>a. n - 1 \in 0..n
    BY <1>3
  <2>6. PICK m, R : m \in 0..n /\ m = n - 1 /\ R = SubSeq(Receiving, 1, m)
    BY <2>a
  <2>7. /\ R \in Seq(S) /\ Len(R) = m /\ \A i \in 1..m : R[i] = Receiving[i]
    BY <2>5, <2>6, SubSeqProperties
  <2>8. \A i \in 1..m : i \in 1..n
    BY <2>6
  <2>9. \A i \in 1..m : Receiving'[i] = R[i]
    BY <2>1, <2>2, <2>6, <2>7, <2>8
  <2>10. Receiving' = R
    BY <2>5, <2>6, <2>7, <2>9, SeqEqual
  <2> QED  BY <2>5, <2>6, <2>10 DEF Stack!Pop
<1>10. Stack!ProgramRuns
  BY <1>1, <1>2, <1>3, <1>5, LastPop
<1> QED
  BY <1>7, <1>8, <1>9, <1>10 DEF Stack!ReleaseReturns

Swapped(x, a, b) == IF x = a THEN b ELSE IF x = b THEN a ELSE x

LEMMA SwapIsBijection ==
  ASSUME NEW a \in Positions, NEW b \in Positions
  PROVE  \E move \in Bijection(Positions, Positions) :
           \A x \in Positions : move[x] = Swapped(x, a, b)
<1>1. \A x \in Positions : Swapped(x, a, b) \in Positions /\ Swapped(Swapped(x, a, b), a, b) = x
  BY DEF Swapped
<1>2. PICK move : move = [x \in Positions |-> Swapped(x, a, b)]
  OBVIOUS
<1>3. move \in [Positions -> Positions] /\ \A x \in Positions : move[x] = Swapped(x, a, b)
  BY <1>1, <1>2
<1>4. \A x, y \in Positions : move[x] = move[y] => x = y
  BY <1>1, <1>3
<1>5. \A y \in Positions : \E x \in Positions : move[x] = y
  BY <1>1, <1>3
<1>6. move \in Bijection(Positions, Positions)
  BY <1>3, <1>4, <1>5 DEF Bijection, Injection, Surjection, IsInjective
<1> QED
  BY <1>3, <1>6

\* The pools, when the top entry is taken.
LEMMA TakePools ==
  ASSUME Core, Core', NEW n \in Positions, NEW e, NEW f \in Frames, Takes(n, e, f)
  PROVE  /\ PoolCount \in Nat
         /\ PoolCount' = PoolCount - (IF e.obj = Boundary THEN 1 ELSE 0)
         /\ PoolOf(n) = IF e.obj = Boundary THEN PoolCount - 1 ELSE PoolCount
         /\ \A x \in Positions : AtOrBefore(x, n) => PoolOf(x)' = PoolOf(x)
<1>1. TopTaken(n, e) /\ hot > 0 /\ hot' > 0
  BY DEF Takes
<1>2. Boundaries = Boundaries' \cup (IF e.obj = Boundary THEN {n} ELSE {})
      /\ n \notin Boundaries'
  <2>1. \A x : x \in Boundaries' <=> x \in Places' /\ At(x)'.obj = Boundary
    BY DEF Boundaries
  <2>2. \A x : x \in Boundaries <=> x \in Places /\ At(x).obj = Boundary
    BY DEF Boundaries
  <2> QED  BY <1>1, <2>1, <2>2 DEF TopTaken
<1>3. /\ IsFiniteSet(Boundaries) /\ IsFiniteSet(Boundaries')
      /\ Cardinality(Boundaries) \in Nat /\ Cardinality(Boundaries') \in Nat
  BY PlaceFacts, NextPlaceFacts, FS_CardinalityType DEF Core
<1>4. PoolCount = 1 + Cardinality(Boundaries) /\ PoolCount' = 1 + Cardinality(Boundaries')
  <2>1. hot # EmptyPoolPlaceholder /\ hot' # EmptyPoolPlaceholder
    BY <1>1 DEF EmptyPoolPlaceholder
  <2>2. PoolCount = 1 + Cardinality(Boundaries) + 0 /\ PoolCount' = 1 + Cardinality(Boundaries') + 0
    BY <2>1 DEF PoolCount
  <2> QED  BY <1>3, <2>2
<1>5. ASSUME NEW x \in Positions, AtOrBefore(x, n) PROVE PoolOf(x)' = PoolOf(x)
  <2>1. ~Before(n, x)
    BY <1>5, Order
  <2>2. {b \in Boundaries : Before(b, x)} = {b \in Boundaries' : Before(b, x)}
    BY <1>2, <2>1
  <2> QED  BY <2>2 DEF PoolOf, Before
<1>6. PoolOf(n) = 1 + Cardinality(Boundaries')
  <2>1. \A b \in Boundaries' : Before(b, n)
    BY <1>1 DEF TopTaken, Boundaries
  <2>2. ~Before(n, n)
    BY Order
  <2>3. {b \in Boundaries : Before(b, n)} = Boundaries'
    BY <1>2, <2>1, <2>2
  <2> QED  BY <2>3 DEF PoolOf
<1>7. CASE e.obj = Boundary
  <2>1. Boundaries = Boundaries' \cup {n}
    BY <1>2, <1>7
  <2>2. Cardinality(Boundaries) = Cardinality(Boundaries') + 1
    BY <1>2, <1>3, <2>1, FS_AddElement
  <2> QED  BY <1>3, <1>4, <1>5, <1>6, <1>7, <2>2
<1>8. CASE e.obj # Boundary
  <2>1. Boundaries = Boundaries'
    BY <1>2, <1>8
  <2> QED  BY <1>3, <1>4, <1>5, <1>6, <1>8, <2>1
<1> QED
  BY <1>7, <1>8

\* What the entry was owed, the pop that takes it owes.
LEMMA TakeDue ==
  ASSUME Core, Core', EntryInv, EntryInv', NEW n \in Positions, NEW e \in Entries,
         NEW f \in Frames, Takes(n, e, f)
  PROVE  \A k, o : Due(k, o)' = Due(k, o)
<1>1. DueOK /\ DueOK'
  BY DueOKHolds, DueOKNext
<1>2. /\ TopTaken(n, e) /\ SetTop(f) /\ frames # <<>> /\ f.left = Owed(e)
      /\ f.obj = e.obj /\ f.entry = n /\ f.stop = Top.stop
      /\ AtOrBefore(f.stop, n) /\ Top.left = 0
  BY DEF Takes
<1>3. PICK m \in Nat \ {0} : m = Len(frames) /\ m = Len(frames')
  BY <1>2, FramesReplaced
<1>4. /\ \A i \in 1..m : frames'[i] = IF i = m THEN f ELSE frames[i]
      /\ frames[m] = Top /\ m \in 1..m
  BY <1>2, <1>3, FramesReplaced DEF Top
<1>5. PICK h0 \in Positions : h0 = Position(0, m) /\ h0.page = 0 /\ h0.slot = m
  BY PositionFacts
<1>6. /\ n \in Places /\ At(n) = e /\ n \notin Places' /\ Places = Places' \cup {n}
      /\ \A x \in Places' : Before(x, n) /\ At(x)' = At(x)
  BY <1>2 DEF TopTaken
<1>7. \A x \in Places : x.page # 0 /\ x # h0
  BY <1>5, PlaceFacts DEF Core
<1>8. \A h : InFrames(h)' <=> InFrames(h)
  BY <1>3 DEF InFrames
<1>9. OwedAt(n) = Owed(e) /\ OwedAt(n)' = 0
  BY <1>6, <1>7, <1>8 DEF OwedAt, InFrames
<1>10. OwedAt(h0) = 0 /\ OwedAt(h0)' = Owed(e)
  <2>1. InFrames(h0) /\ InFrames(h0)' /\ Taken(h0) = Top /\ Taken(h0)' = f
    BY <1>3, <1>4, <1>5 DEF InFrames, Taken
  <2>2. h0 \notin Places /\ h0 \notin Places'
    BY <1>6, <1>7
  <2> QED  BY <1>2, <2>1, <2>2 DEF OwedAt
<1>11. ASSUME NEW h \in Positions, h # n, h # h0 PROVE OwedAt(h)' = OwedAt(h)
  <2>1. CASE h \in Places'
    BY <1>6, <2>1 DEF OwedAt, Owed
  <2>2. CASE h \notin Places' /\ InFrames(h)
    <3>1. h.slot \in 1..m /\ h.slot # m
      BY <1>3, <1>5, <1>11, <2>2, SamePosition DEF InFrames
    <3>2. Taken(h)' = Taken(h)
      BY <1>4, <3>1 DEF Taken
    <3> QED  BY <1>6, <1>8, <1>11, <2>2, <3>2 DEF OwedAt
  <2>3. CASE h \notin Places' /\ ~InFrames(h)
    BY <1>6, <1>8, <1>11, <2>3 DEF OwedAt
  <2> QED  BY <2>1, <2>2, <2>3
<1>12. \A x \in Positions : AtOrBefore(x, n) => PoolOf(x)' = PoolOf(x)
  BY TakePools
<1>13. From(h0)' = From(n) /\ To(h0)' = To(n)
  <2>1. From(h0)' = PoolOf(n)'
    BY <1>2, <1>4, <1>5 DEF From, Taken, PoolOf, Before
  <2>2. To(h0)' = e.obj
    BY <1>2, <1>4, <1>5 DEF To, Taken
  <2>3. From(n) = PoolOf(n) /\ To(n) = e.obj
    BY <1>6, <1>7 DEF From, To
  <2>4. PoolOf(n)' = PoolOf(n)
    BY <1>12, Order
  <2> QED  BY <2>1, <2>2, <2>3, <2>4
<1>14. ASSUME NEW h \in Positions, h # n, h # h0, OwedAt(h) > 0
       PROVE  To(h)' = To(h) /\ From(h)' = From(h)
  <2>1. CASE h \in Places'
    <3>1. PoolOf(h)' = PoolOf(h)
      BY <1>6, <1>12, <2>1, Order
    <3>2. h.page # 0
      BY <1>6, <1>7, <2>1
    <3> QED  BY <1>6, <2>1, <3>1, <3>2 DEF To, From
  <2>2. CASE h \notin Places'
    <3>1. InFrames(h) /\ h \notin Places
      BY <1>6, <1>14, <2>2 DEF OwedAt
    <3>2. h.page = 0 /\ h.slot \in 1..m /\ h.slot # m
      BY <1>3, <1>5, <1>14, <3>1, SamePosition DEF InFrames
    <3>3. Taken(h)' = Taken(h) /\ Taken(h) = frames[h.slot] /\ frames'[h.slot] = frames[h.slot]
      BY <1>4, <3>2 DEF Taken
    <3>4. PICK x \in Positions : x = Taken(h).entry
      BY <1>3, <3>2, <3>3, EntryFacts
    <3>5. AtOrBefore(x, n)
      <4>1. h.slot < m /\ h.slot \in 1..Len(frames) /\ m \in 1..Len(frames)
        BY <1>3, <3>2
      <4>2. AtOrBefore(x, Top.stop)
        BY <1>4, <3>3, <3>4, <4>1 DEF EntryInv
      <4>3. Top.stop \in Positions
        BY <1>2, TopFacts
      <4> QED  BY <1>2, <4>2, <4>3, Order
    <3>6. PoolOf(x)' = PoolOf(x)
      BY <1>12, <3>5
    <3>7. From(h) = PoolOf(x) /\ From(h)' = PoolOf(x)'
      BY <3>2, <3>3, <3>4 DEF From, PoolOf, Before
    <3> QED  BY <3>2, <3>3, <3>6, <3>7 DEF To
  <2> QED  BY <2>1, <2>2
<1>15. PICK move \in Bijection(Positions, Positions) :
         \A x \in Positions : move[x] = Swapped(x, n, h0)
  BY SwapIsBijection
<1>16. n # h0 /\ \A x \in Positions : Swapped(x, n, h0) \in Positions
  BY <1>6, <1>7 DEF Swapped
<1>17. \A h \in Positions : OwedMap[h] > 0 => KeyMap'[move[h]] = KeyMap[h]
  <2> SUFFICES ASSUME NEW h \in Positions, OwedMap[h] > 0
               PROVE  KeyMap'[Swapped(h, n, h0)] = KeyMap[h]
    BY <1>15
  <2>1. OwedAt(h) > 0 /\ KeyMap[h] = <<From(h), To(h)>>
    BY Maps
  <2>2. h # h0
    BY <1>10, <2>1
  <2>3. CASE h = n
    <3>1. Swapped(h, n, h0) = h0
      BY <2>3 DEF Swapped
    <3>2. KeyMap'[h0] = <<From(h0)', To(h0)'>>
      BY Maps
    <3> QED  BY <1>13, <2>1, <2>3, <3>1, <3>2
  <2>4. CASE h # n
    <3>1. Swapped(h, n, h0) = h
      BY <2>2, <2>4 DEF Swapped
    <3>2. KeyMap'[h] = <<From(h)', To(h)'>>
      BY Maps
    <3> QED  BY <1>14, <2>1, <2>2, <2>4, <3>1, <3>2
  <2> QED  BY <2>3, <2>4
<1>18. PICK d \in 0..1 : d = 0
  OBVIOUS
<1>19. \A h \in Positions : OwedMap'[move[h]] = OwedMap[h] + (IF h = n THEN d ELSE 0)
  <2> SUFFICES ASSUME NEW h \in Positions
               PROVE  OwedMap'[Swapped(h, n, h0)] = OwedMap[h]
    <3>1. \A h \in Positions : OwedMap[h] \in 0..MaxCount + 1
      BY <1>1, ReleasesFacts DEF ReleasesAre
    <3> QED  BY <1>15, <1>18, <3>1
  <2>1. OwedAt(Swapped(h, n, h0))' = OwedAt(h)
    <3>1. CASE h = n
      BY <1>9, <1>10, <3>1 DEF Swapped
    <3>2. CASE h = h0
      BY <1>9, <1>10, <1>16, <3>2 DEF Swapped
    <3>3. CASE h # n /\ h # h0
      BY <1>11, <3>3 DEF Swapped
    <3> QED  BY <3>1, <3>2, <3>3
  <2> QED  BY <1>16, <2>1, Maps
<1>20. \A k, o :
         Due(k, o)' = Due(k, o) + (IF d = 1 /\ KeyMap'[move[n]] = <<k, o>> THEN 1 ELSE 0)
  BY <1>1, <1>15, <1>17, <1>19, DueMoved
<1> QED
  BY <1>1, <1>18, <1>20, DueNat

\* A pop is over once it has taken the entry at its stop.
LEMMA TakesStop ==
  ASSUME Core, Core', NEW n \in Positions, NEW e \in Entries, NEW f \in Frames,
         Takes(n, e, f)
  PROVE  Reached(f)' <=> f.stop = n
<1>1. /\ f.stop \in Positions /\ AtOrBefore(f.stop, n) /\ hot' > 0
      /\ n.page = hot' /\ Len(pages'[hot']) = n.slot - 1 /\ f.stop = Top.stop
      /\ frames # <<>>
  BY DEF Takes, Frames
<1>2. PICK x \in Positions : x = f.stop
  BY <1>1
<1>3. x.page \in Nat /\ x.slot \in Nat /\ n.page \in Nat /\ n.slot \in Nat
  BY PositionFacts
<1>4. x.page >= 1 /\ x.slot <= PageSize
  <2>1. InStack(Top.stop)
    BY <1>1, TopFacts DEF StopInv
  <2> QED  BY <1>1, <1>2, <2>1 DEF InStack
<1>5. Reached(f)' <=> Len(pages'[x.page]) = x.slot - 1
  BY <1>2 DEF Reached
<1>6. x.page < n.page \/ (x.page = n.page /\ x.slot <= n.slot)
  BY <1>1, <1>2 DEF AtOrBefore
<1>7. CASE x.page < n.page
  <2>1. x.page \in 1..Len(pages') /\ x.page < hot'
    <3>1. hot' <= Len(pages') /\ Len(pages') \in Nat /\ hot' \in Int
      BY NextPagesFacts DEF Core
    <3> QED  BY <1>1, <1>3, <1>4, <1>7, <3>1
  <2>2. Len(pages'[x.page]) = PageSize
    BY <2>1 DEF Core, OneStack, Full
  <2>3. x # n
    BY <1>3, <1>7
  <2> QED  BY <1>2, <1>3, <1>4, <1>5, <2>2, <2>3
<1>8. CASE x.page = n.page
  <2>1. Reached(f)' <=> x.slot = n.slot
    BY <1>1, <1>3, <1>5, <1>8
  <2> QED  BY <1>2, <1>8, <2>1, SamePosition
<1> QED
  BY <1>6, <1>7, <1>8

LEMMA PopClosed ==
  ASSUME StackFact, StackFact', PopsLeft' = PopsLeft - 1,
         \A k \in 1..Len(frames) : PopOf(frames[k])' = PopOf(frames[k])
  PROVE  Popping' = Stack!Pop(Popping)
<1>1. PICK n \in Nat, m \in Nat :
        n = PopsLeft /\ m = n - 1 /\ m = PopsLeft' /\ m \in 0..n
  <2>1. PopsLeft \in Nat /\ PopsLeft' \in Nat
    BY DEF StackFact
  <2> QED  BY <2>1
<1>2. Popping \in Seq(Nat) /\ Len(Popping) = n /\ \A k \in 1..n : Popping[k] = PopOf(frames[k])
  BY <1>1, PopsFacts
<1>3. Popping' = [k \in 1..m |-> PopOf(frames[k])']
  BY <1>1 DEF StackFact
<1>4. \A k \in 1..m : k \in 1..n /\ k \in 1..Len(frames)
  BY <1>1 DEF StackFact
<1>5. \A k \in 1..m : PopOf(frames[k])' = Popping[k] /\ Popping[k] \in Nat
  BY <1>2, <1>4
<1>6. Popping' \in Seq(Nat) /\ Len(Popping') = m /\ \A k \in 1..m : Popping'[k] = Popping[k]
  BY <1>3, <1>5
<1>7. PICK P : P = SubSeq(Popping, 1, m)
  OBVIOUS
<1>8. P \in Seq(Nat) /\ Len(P) = m /\ \A k \in 1..m : P[k] = Popping[k]
  <2>1. m \in 0..Len(Popping) /\ Popping \in Seq(Nat)
    BY <1>1, <1>2
  <2>2. P \in Seq(Nat) /\ Len(P) = m /\ \A k \in 1..m : P[k] = Popping[k]
    BY ONLY <1>7, <2>1, SubSeqProperties
  <2> QED  BY <2>2
<1>9. Popping' = P
  BY <1>6, <1>8, SeqEqual
<1> QED
  BY <1>1, <1>2, <1>7, <1>9 DEF Stack!Pop

\* releaseUntil takes an entry: a boundary closes a pool, an object is owed.
LEMMA TakeStep ==
  ASSUME Core, Core', EntryInv, EntryInv', TakeEntry
  PROVE  [Stack!CloseInner \/ Stack!EndPop]_(Stack!vars)
<1>1. PICK n \in Positions, e \in Entries, f \in Frames : Takes(n, e, f)
  BY TakeFacts
<1>2. /\ TopTaken(n, e) /\ SetTop(f) /\ frames # <<>> /\ f.left = Owed(e)
      /\ f.exit = Top.exit /\ f.stop = Top.stop /\ ~f.running
      /\ AtOrBefore(f.stop, n) /\ Top.left = 0 /\ ~Top.running /\ ~Reached(Top)
  BY <1>1 DEF Takes
<1>3. StackFact /\ StackFact'
  BY StackHolds, NextStack
<1>4. PICK m \in Nat \ {0} : m = Len(frames) /\ frames[m] = Top
  BY <1>2, TopFacts DEF Top
<1>5. /\ Len(frames') = m /\ frames' # <<>> /\ Top' = f
      /\ \A i \in 1..m : frames'[i] = IF i = m THEN f ELSE frames[i]
  BY <1>2, <1>4, FramesReplaced
<1>6. PopsLeft = m /\ Sent = m - 1 /\ Sent' = m - 1
  <2>1. ~Over
    BY <1>2 DEF Over
  <2> QED  BY <1>2, <1>4, <1>5, <2>1 DEF PopsLeft, Sent
<1>7. PopsLeft' = IF Over' THEN m - 1 ELSE m
  BY <1>5 DEF PopsLeft
<1>8. Over' <=> ~Top.exit /\ f.stop = n
  <2>1. Over' <=> ~f.exit /\ Reached(f)'
    BY <1>5 DEF Over, Reached
  <2> QED  BY <1>1, <1>2, <2>1, TakesStop
<1>9. /\ PoolCount \in Nat
      /\ PoolCount' = PoolCount - (IF e.obj = Boundary THEN 1 ELSE 0)
      /\ PoolOf(n) = IF e.obj = Boundary THEN PoolCount - 1 ELSE PoolCount
      /\ \A x \in Positions : AtOrBefore(x, n) => PoolOf(x)' = PoolOf(x)
  BY <1>1, TakePools
<1>10. \A k, o : Due(k, o)' = Due(k, o)
  BY <1>1, TakeDue
<1>11. \A k \in 1..Len(frames) : PopOf(frames[k])' = PopOf(frames[k])
  <2>1. ASSUME NEW k \in 1..Len(frames), NEW x \in Positions, x = frames[k].stop
        PROVE  PoolOf(x)' = PoolOf(x)
    <3>1. AtOrBefore(x, Top.stop) /\ Top.stop \in Positions
      <4>1. k <= m /\ m \in 1..Len(frames)
        BY <1>4
      <4>2. AtOrBefore(frames[k].stop, frames[m].stop)
        BY <1>4, <4>1 DEF Core, FrameInv
      <4> QED  BY <1>2, <1>4, <2>1, <4>2, TopFacts
    <3>2. AtOrBefore(x, n)
      BY <1>2, <3>1, Order
    <3> QED  BY <1>9, <3>2
  <2> QED  BY <1>2, <2>1, TopPops
<1>12. Receiving' = Receiving
  <2>1. Receiving = [i \in 1..m - 1 |-> frames[i].obj]
        /\ Receiving' = [i \in 1..m - 1 |-> frames'[i].obj]
    BY <1>3, <1>6 DEF StackFact
  <2>2. \A i \in 1..m - 1 : i \in 1..m /\ i # m
    BY <1>4
  <2> QED  BY <1>5, <2>1, <2>2
<1>13. Stack!PopGoesOn /\ Popping # <<>> /\ Popping[Len(Popping)] = PopOf(Top)
  BY <1>2, <1>3, <1>4, <1>6, LastPop
<1>14. Stack!Top = PoolCount
  BY <1>3, PoolsFacts DEF Stack!Top
<1>15. CASE e.obj # Boundary
  <2>1. ~Over'
    <3>1. f.left > 0
      BY <1>2, <1>15 DEF Owed, Entries
    <3> QED  BY <1>5, <3>1, NextOverFacts
  <2>2. Popping' = Popping
    BY <1>3, <1>6, <1>7, <1>11, <2>1, PoppingKept
  <2>3. Pools' = Pools
    <3>1. PoolCount' = PoolCount
      BY <1>9, <1>15
    <3> QED  BY <1>3, <1>10, <3>1, PoolsKept
  <2> QED  BY <1>12, <2>2, <2>3 DEF Stack!vars
<1>16. CASE e.obj = Boundary
  <2>1. PoolCount' = PoolCount - 1 /\ PoolOf(n) = PoolCount - 1
    BY <1>9, <1>16
  <2>2. Pools' = Stack!Pop(Pools) /\ Stack!Top > 1 /\ Pools[Stack!Top] = Stack!EmptyPool
    BY <1>3, <1>10, <2>1, PoolClosed
  <2>3. CASE Over'
    <3>1. Popping' = Stack!Pop(Popping)
      BY <1>3, <1>6, <1>7, <1>11, <2>3, PopClosed
    <3>2. PopOf(Top) = Stack!Top
      BY <1>2, <1>8, <1>9, <1>14, <2>1, <2>3 DEF PopOf
    <3>3. Stack!EndPop
      BY <1>12, <1>13, <2>2, <3>1, <3>2, <1>9, <1>14 DEF Stack!EndPop
    <3> QED  BY <3>3
  <2>4. CASE ~Over'
    <3>1. Popping' = Popping
      BY <1>3, <1>6, <1>7, <1>11, <2>4, PoppingKept
    <3>2. PopOf(Top) < Stack!Top
      <4>1. CASE Top.exit
        BY <2>2, <4>1 DEF PopOf
      <4>2. CASE ~Top.exit
        <5>1. EntryOK(Top) /\ Top.stop \in Positions
          BY <1>2, <1>4, EntryFacts, TopFacts
        <5>2. IsBoundary(Top.stop)
          BY <1>2, <4>2, <5>1 DEF EntryOK
        <5>3. PICK x \in Boundaries : x = Top.stop /\ x \in Positions
          BY <5>1, <5>2, PlaceFacts DEF Core
        <5>4. Before(x, n)
          BY <1>2, <1>8, <2>4, <4>2, <5>3, Order
        <5>5. PoolOf(x) < PoolOf(n)
          BY <5>3, <5>4, PoolFacts DEF Core
        <5>6. PoolOf(x) \in Nat
          <6>1. PoolOf(x) \in 1..PoolCount
            BY <1>3 DEF StackFact
          <6> QED  BY <1>9, <6>1
        <5>7. PopOf(Top) = 1 + PoolOf(x)
          BY <4>2, <5>3 DEF PopOf
        <5> QED  BY <1>9, <1>14, <2>1, <5>5, <5>6, <5>7
      <4> QED  BY <4>1, <4>2
    <3>3. Stack!CloseInner
      BY <1>12, <1>13, <2>2, <3>1, <3>2 DEF Stack!CloseInner, Stack!Above
    <3> QED  BY <3>3
  <2> QED  BY <2>3, <2>4
<1> QED
  BY <1>15, <1>16

\* The pages that popPage frees are empty, so the entries stay.
LEMMA PopPageStep ==
  ASSUME Core, Core', EntryInv, EntryInv', PopPage
  PROVE  UNCHANGED Stack!vars
<1>1. /\ Over /\ frames # <<>> /\ ~Top.running /\ Top.left = 0
      /\ hot' = hot /\ hot \in 1..Len(pages) /\ hot \in 1..Len(pages')
      /\ \A q \in 1..Len(pages') : q \in 1..Len(pages) /\ pages'[q] = pages[q]
      /\ \A q \in 1..Len(pages) : q <= hot => q \in 1..Len(pages')
      /\ Len(frames') = Len(frames) - 1 /\ Len(frames) \in Nat
      /\ \A i \in 1..Len(frames') :
           i \in 1..Len(frames) /\ i < Len(frames) /\ frames'[i] = frames[i]
  BY PopPageFacts
<1>2. StackFact /\ StackFact' /\ DueOK /\ DueOK'
  BY StackHolds, NextStack, DueOKHolds, DueOKNext
<1>3. PICK n \in Nat, m \in Nat : n = Len(frames) /\ m = Len(frames') /\ m = n - 1
  <2>1. Len(frames) # 0
    BY <1>1, TopFacts
  <2> QED  BY <1>1, <2>1
<1>4. PopsLeft = m /\ Sent = m
  BY <1>1, <1>3 DEF PopsLeft, Sent
<1>5. PopsLeft' = m /\ Sent' = m
  <2>1. frames' # <<>> => Top'.running
    <3> SUFFICES ASSUME frames' # <<>> PROVE Top'.running
      OBVIOUS
    <3>1. frames' \in Seq(Frames)
      BY DEF Core
    <3>2. m \in 1..m
      <4>1. Len(frames') # 0
        BY <3>1
      <4> QED  BY <1>3, <4>1
    <3>3. m \in 1..Len(frames) /\ m < Len(frames) /\ frames'[m] = frames[m]
      BY <1>1, <1>3, <3>2
    <3>4. frames[m].running
      BY <3>3 DEF Core, FrameInv
    <3> QED  BY <1>3, <3>3, <3>4 DEF Top
  <2>2. ProgramRuns'
    BY <2>1 DEF ProgramRuns
  <2> QED  BY <1>2, <1>3, <2>2 DEF StackFact
<1>6. Places' = Places
  <2>1. \A x \in Positions : x \in Places' <=> x \in Places
    <3> SUFFICES ASSUME NEW x \in Positions PROVE x \in Places' <=> x \in Places
      OBVIOUS
    <3>1. x \in Places' <=> x.page \in 1..Len(pages') /\ x.slot \in 1..Len(pages'[x.page])
      BY NextPlaceFacts DEF Core
    <3>2. x \in Places <=> x.page \in 1..Len(pages) /\ x.slot \in 1..Len(pages[x.page])
      BY PlaceFacts DEF Core
    <3>3. x.page \in 1..Len(pages) /\ x.slot \in 1..Len(pages[x.page]) => x.page <= hot
      <4> SUFFICES ASSUME x.page \in 1..Len(pages), x.slot \in 1..Len(pages[x.page]), x.page > hot
                   PROVE  FALSE
        BY PagesFacts DEF Core
      <4>1. pages[x.page] = <<>>
        BY DEF Core, OneStack, Empty
      <4> QED  BY <4>1
    <3> QED  BY <1>1, <3>1, <3>2, <3>3
  <2>2. \A x \in Places : x \in Positions
    BY PlaceFacts DEF Core
  <2>3. \A x \in Places' : x \in Positions
    BY NextPlaceFacts DEF Core
  <2> QED  BY <2>1, <2>2, <2>3
<1>7. \A x \in Places : At(x)' = At(x)
  <2> SUFFICES ASSUME NEW x \in Places PROVE At(x)' = At(x)
    OBVIOUS
  <2>1. x \in Places'
    BY <1>6
  <2>2. x.page \in 1..Len(pages')
    BY <2>1, NextPlaceFacts DEF Core
  <2>3. pages'[x.page] = pages[x.page]
    BY <1>1, <2>2
  <2> QED  BY <2>3 DEF At
<1>8. PoolCount' = PoolCount /\ \A x : PoolOf(x)' = PoolOf(x)
  <2>1. Boundaries' = Boundaries
    BY <1>6, <1>7 DEF Boundaries
  <2> QED  BY <1>1, <2>1, SamePools
<1>9. \A k, o : Due(k, o)' = Due(k, o)
  <2>1. ASSUME NEW h \in Positions PROVE OwedAt(h)' = OwedAt(h)
    <3>1. CASE h \in Places
      BY <1>6, <1>7, <3>1 DEF OwedAt, Owed
    <3>2. CASE h \notin Places /\ InFrames(h)'
      <4>1. h.slot \in 1..Len(frames')
        BY <3>2 DEF InFrames
      <4>2. InFrames(h) /\ Taken(h)' = Taken(h)
        BY <1>1, <3>2, <4>1 DEF InFrames, Taken
      <4> QED  BY <1>6, <3>2, <4>2 DEF OwedAt
    <3>3. CASE h \notin Places /\ ~InFrames(h)' /\ InFrames(h)
      <4>1. h.slot = Len(frames)
        BY <1>3, <3>3 DEF InFrames
      <4>2. Taken(h) = Top
        BY <4>1 DEF Taken, Top
      <4> QED  BY <1>1, <1>6, <3>3, <4>2 DEF OwedAt
    <3>4. CASE h \notin Places /\ ~InFrames(h)' /\ ~InFrames(h)
      BY <1>6, <3>4 DEF OwedAt
    <3> QED  BY <3>1, <3>2, <3>3, <3>4
  <2>2. ASSUME NEW h \in Positions, OwedAt(h) > 0 PROVE To(h)' = To(h) /\ From(h)' = From(h)
    <3>1. CASE h \in Places
      <4>1. h.page # 0
        BY <3>1, PlaceFacts DEF Core
      <4> QED  BY <1>7, <1>8, <3>1, <4>1 DEF To, From
    <3>2. CASE h \notin Places
      <4>1. OwedAt(h)' > 0 /\ h \notin Places'
        BY <1>6, <2>1, <2>2, <3>2
      <4>2. InFrames(h)'
        BY <4>1 DEF OwedAt
      <4>3. h.page = 0 /\ Taken(h) = frames[h.slot] /\ frames'[h.slot] = frames[h.slot]
        BY <1>1, <4>2 DEF InFrames, Taken
      <4>4. PICK x : x = frames[h.slot].entry
        OBVIOUS
      <4>5. From(h) = PoolOf(x) /\ From(h)' = PoolOf(x)'
        BY <4>3, <4>4 DEF From, Taken, PoolOf, Before
      <4> QED  BY <1>8, <4>3, <4>5 DEF To, Taken
    <3> QED  BY <3>1, <3>2
  <2> QED  BY <1>2, <2>1, <2>2, DueSame
<1>10. Pools' = Pools
  BY <1>2, <1>8, <1>9, PoolsKept
<1>11. Popping' = Popping /\ Receiving' = Receiving
  <2>1. \A i \in 1..m : frames'[i] = frames[i]
    BY <1>1, <1>3
  <2>2. ASSUME NEW i \in 1..m PROVE PopOf(frames[i])' = PopOf(frames[i])
    <3>1. PICK y : y = frames[i].stop
      OBVIOUS
    <3>2. PopOf(frames[i])' = IF frames[i].exit THEN 1 ELSE 1 + PoolOf(y)'
      BY <2>1, <3>1 DEF PopOf, PoolOf, Before
    <3> QED  BY <1>8, <3>1, <3>2 DEF PopOf
  <2>3. /\ Popping = [i \in 1..m |-> PopOf(frames[i])]
        /\ Popping' = [i \in 1..m |-> PopOf(frames[i])']
        /\ Receiving = [i \in 1..m |-> frames[i].obj]
        /\ Receiving' = [i \in 1..m |-> frames'[i].obj]
    BY <1>2, <1>4, <1>5 DEF StackFact
  <2> QED  BY <2>1, <2>2, <2>3
<1> QED
  BY <1>10, <1>11 DEF Stack!vars

\* No page holds an entry, and no pop owes a release.
Bare ==
  /\ \A p \in 1..Len(pages) : Empty(p)
  /\ \A i \in 1..Len(frames) : frames[i].left = 0

LEMMA BareFacts ==
  ASSUME Core, EntryInv, Bare
  PROVE  /\ PoolCount = IF hot = EmptyPoolPlaceholder THEN 2 ELSE 1
         /\ \A k, o : Due(k, o) = 0
<1>1. DueOK
  BY DueOKHolds
<1>2. Places = {}
  <2> SUFFICES ASSUME NEW x \in Places PROVE FALSE
    OBVIOUS
  <2>1. x.page \in 1..Len(pages) /\ x.slot \in 1..Len(pages[x.page])
    BY PlaceFacts DEF Core
  <2>2. Len(pages[x.page]) = 0
    BY <2>1 DEF Bare, Empty
  <2> QED  BY <2>1, <2>2
<1>3. Boundaries = {} /\ Cardinality(Boundaries) = 0
  <2>1. Boundaries = {}
    BY <1>2 DEF Boundaries
  <2> QED  BY <2>1, FS_EmptySet
<1>4. PoolCount = IF hot = EmptyPoolPlaceholder THEN 2 ELSE 1
  BY <1>3 DEF PoolCount
<1>5. \A h \in Positions : OwedAt(h) = 0
  BY <1>2 DEF OwedAt, InFrames, Taken, Bare
<1>6. \A k : \A o : Due(k, o) = 0
  BY <1>1, <1>5, NothingDue
<1> QED
  BY <1>4, <1>6

LEMMA NextBareFacts ==
  Core' /\ EntryInv' /\ Bare' =>
    /\ PoolCount' = IF hot' = EmptyPoolPlaceholder THEN 2 ELSE 1
    /\ \A k, o : Due(k, o)' = 0
<1>1. Core /\ EntryInv /\ Bare =>
        /\ PoolCount = IF hot = EmptyPoolPlaceholder THEN 2 ELSE 1
        /\ \A k, o : Due(k, o) = 0
  BY BareFacts
<1>2. (Core /\ EntryInv /\ Bare =>
         /\ PoolCount = IF hot = EmptyPoolPlaceholder THEN 2 ELSE 1
         /\ \A k, o : Due(k, o) = 0)'
  BY <1>1, PTL
<1> QED
  BY <1>2

\* No pop in progress, or none any more.
LEMMA NoPops ==
  ASSUME StackFact, frames = <<>>
  PROVE  Popping = <<>> /\ Receiving = <<>> /\ Stack!ProgramRuns
<1>1. PopsLeft = 0 /\ Sent = 0
  BY DEF StackFact, ProgramRuns
<1>2. Popping = <<>> /\ Receiving = <<>>
  BY <1>1 DEF StackFact
<1> QED
  BY <1>2 DEF Stack!ProgramRuns

LEMMA NextNoPops == StackFact' /\ frames' = <<>> => Popping' = <<>> /\ Receiving' = <<>>
<1>1. StackFact /\ frames = <<>> => Popping = <<>> /\ Receiving = <<>>
  BY NoPops
<1>2. (StackFact /\ frames = <<>> => Popping = <<>> /\ Receiving = <<>>)'
  BY <1>1, PTL
<1> QED
  BY <1>2

\* The placeholder stands for a pool that holds nothing.
LEMMA PlaceholderPopped ==
  ASSUME Core, Core', EntryInv, EntryInv', hot = EmptyPoolPlaceholder, hot' = NoPage,
         frames' = frames
  PROVE  Stack!PopUnused
<1>1. StackFact /\ StackFact'
  BY StackHolds, NextStack
<1>2. pages = <<>> /\ pages' = <<>> /\ frames = <<>> /\ frames' = <<>>
  BY DEF Core, PagesOK, FrameInv, EmptyPoolPlaceholder, NoPage
<1>3. Bare /\ Bare'
  BY <1>2 DEF Bare
<1>4. PoolCount = 2 /\ PoolCount' = 1 /\ \A k, o : Due(k, o)' = Due(k, o)
  <2>1. PoolCount = 2 /\ \A k, o : Due(k, o) = 0
    BY <1>3, BareFacts
  <2>2. PoolCount' = 1 /\ \A k, o : Due(k, o)' = 0
    BY <1>3, NextBareFacts DEF NoPage, EmptyPoolPlaceholder
  <2> QED  BY <2>1, <2>2
<1>5. PoolCount' = PoolCount - 1
  BY <1>4
<1>6. Pools' = Stack!Pop(Pools) /\ Stack!Top > 1 /\ Pools[Stack!Top] = Stack!EmptyPool
  BY <1>1, <1>4, <1>5, PoolClosed
<1>7. Popping = <<>> /\ Receiving = <<>> /\ Stack!ProgramRuns
  BY <1>1, <1>2, NoPops
<1>8. Popping' = <<>> /\ Receiving' = <<>>
  BY <1>1, <1>2, NextNoPops
<1> QED
  BY <1>6, <1>7, <1>8 DEF Stack!PopUnused, Stack!Above

\* A pop of EMPTY_POOL_PLACEHOLDER pops a pool that holds nothing.
LEMMA PopPlaceholderStep ==
  ASSUME Core, Core', EntryInv, EntryInv', NEW i \in 1..Len(tokens), PopPlaceholder(i)
  PROVE  Stack!PopUnused
<1>1. tokens # <<>> /\ hot' = NoPage /\ frames' = frames /\ hot <= NoPage
  BY DEF PopPlaceholder
<1>2. hot # NoPage /\ hot \in EmptyPoolPlaceholder..Len(pages) /\ Len(pages) \in Nat
  BY <1>1, PagesFacts DEF Core, TokenInv, PagesOK
<1>3. hot = EmptyPoolPlaceholder
  BY <1>1, <1>2 DEF NoPage, EmptyPoolPlaceholder
<1> QED
  BY <1>1, <1>3, PlaceholderPopped

\* The end of a thread: its pops are one that empties the whole stack.
LEMMA ThreadExitStep ==
  ASSUME Core, Core', EntryInv, EntryInv', ThreadExit
  PROVE  [Stack!ThreadExit \/ Stack!PopUnused]_(Stack!vars)
<1>1. StackFact /\ StackFact' /\ frames = <<>> /\ hot # NoPage
  BY StackHolds, NextStack DEF ThreadExit
<1>2. Popping = <<>> /\ Receiving = <<>>
  BY <1>1, NoPops
<1>3. hot \in EmptyPoolPlaceholder..Len(pages) /\ Len(pages) \in Nat /\ hot \in Int
  BY PagesFacts DEF Core, PagesOK
<1>4. CASE hot = EmptyPoolPlaceholder
  <2>1. hot' = NoPage /\ frames' = frames
    BY <1>4 DEF ThreadExit, KillAll
  <2> QED  BY <1>4, <2>1, PlaceholderPopped
<1>5. CASE hot # EmptyPoolPlaceholder /\ Empty(1)
  <2>1. hot' = NoPage /\ pages' = <<>> /\ frames' = <<>>
    BY <1>1, <1>5 DEF ThreadExit, KillAll
  <2>2. hot > 0
    BY <1>1, <1>3, <1>5 DEF NoPage, EmptyPoolPlaceholder
  <2>3. hot = 1
    <3>1. Len(pages[1]) = 0
      BY <1>5 DEF Empty
    <3>2. 1 \in 1..Len(pages)
      BY <1>3, <2>2
    <3>3. ~(1 < hot)
      BY <3>1, <3>2 DEF Core, OneStack, Full
    <3> QED  BY <1>3, <2>2, <3>3
  <2>4. \A p \in 1..Len(pages) : Empty(p)
    <3> SUFFICES ASSUME NEW p \in 1..Len(pages) PROVE Empty(p)
      OBVIOUS
    <3>1. p > hot \/ p = 1
      BY <1>3, <2>3
    <3> QED  BY <1>5, <3>1 DEF Core, OneStack
  <2>5. Bare /\ Bare'
    BY <1>1, <2>1, <2>4 DEF Bare
  <2>6. PoolCount = 1 /\ PoolCount' = 1
    BY <1>5, <2>1, <2>5, BareFacts, NextBareFacts DEF NoPage, EmptyPoolPlaceholder
  <2>7. \A k, o : Due(k, o) = 0
    BY <2>5, BareFacts
  <2>8. \A k, o : Due(k, o)' = 0
    BY <2>5, NextBareFacts
  <2>9. Pools' = Pools
    BY <1>1, <2>6, <2>7, <2>8, PoolsKept
  <2>10. Popping' = <<>> /\ Receiving' = <<>>
    BY <1>1, <2>1, NextNoPops
  <2> QED  BY <1>2, <2>9, <2>10 DEF Stack!vars
<1>6. CASE hot # EmptyPoolPlaceholder /\ ~Empty(1)
  <2>1. frames' = <<Frame(Begin, 0, TRUE)>> /\ pages' = pages /\ hot' = hot
    BY <1>6 DEF ThreadExit
  <2>2. PICK f \in Frames : f = Frame(Begin, 0, TRUE)
    BY PositionFacts DEF Frame, Frames
  <2>3. f.exit /\ ~f.running /\ f.left = 0
    BY <2>2 DEF Frame
  <2>4. Len(frames') = 1 /\ frames'[1] = f /\ frames' # <<>> /\ Top' = f
    BY <2>1, <2>2 DEF Top
  <2>5. PopsLeft' = 1 /\ Sent' = 0
    <3>1. ~Over'
      BY <2>3, <2>4 DEF Over
    <3> QED  BY <2>3, <2>4, <3>1 DEF PopsLeft, Sent
  <2>6. Popping' = <<1>> /\ Receiving' = <<>>
    <3>1. PopOf(frames[1])' = 1
      BY <2>3, <2>4 DEF PopOf
    <3>2. Popping' = [i \in 1..1 |-> PopOf(frames[i])']
          /\ Receiving' = [i \in 1..0 |-> frames'[i].obj]
      BY <1>1, <2>5 DEF StackFact
    <3>3. Popping' = [i \in 1..1 |-> 1]
      BY <3>1, <3>2
    <3> QED  BY <3>2, <3>3
  <2>7. Pools' = Pools
    <3>1. frames' = Append(frames, f)
      BY <1>1, <2>1, <2>2
    <3>2. \A k, o : Due(k, o)' = Due(k, o)
      BY <2>1, <2>3, <3>1, StartPopDue
    <3>3. PoolCount' = PoolCount
      BY <2>1, SameEntries
    <3> QED  BY <1>1, <3>2, <3>3, PoolsKept
  <2>8. Stack!ThreadExit
    BY <1>2, <2>6, <2>7 DEF Stack!ThreadExit
  <2> QED  BY <2>8
<1> QED
  BY <1>4, <1>5, <1>6

\* kill of the pages above ends the pop.
LEMMA KillPagesStep ==
  ASSUME Core, Core', EntryInv, EntryInv', KillPages
  PROVE  Stack!EndPop
<1>1. /\ frames # <<>> /\ ~Top.running /\ Top.left = 0 /\ Top.exit /\ Reached(Top)
      /\ Releasing /\ pages' = <<>> /\ hot' = NoPage /\ frames' = Drop(frames)
  BY DEF KillPages, Releasing, KillAll
<1>2. StackFact /\ StackFact'
  BY StackHolds, NextStack
<1>3. Len(frames) = 1 /\ frames[1] = Top /\ Top.stop = Begin
  BY <1>1, TopFacts DEF Core, FrameInv, Top
<1>4. frames' = <<>>
  BY <1>1, <1>3 DEF Drop, Core
<1>5. hot = 1 /\ Empty(1) /\ 1 \in 1..Len(pages)
  <2>1. Top.stop.page = hot /\ hot \in 1..Len(pages) /\ Len(pages[hot]) = Top.stop.slot - 1
    BY <1>1, ReachedIsHot
  <2>2. Begin.page = 1 /\ Begin.slot = 1
    BY PositionFacts
  <2>3. hot = 1 /\ Len(pages[1]) = 0
    BY <1>3, <2>1, <2>2
  <2> QED  BY <2>1, <2>3, PagesFacts DEF Empty, Core
<1>6. Bare /\ Bare'
  <2>1. \A p \in 1..Len(pages) : Empty(p)
    <3> SUFFICES ASSUME NEW p \in 1..Len(pages) PROVE Empty(p)
      OBVIOUS
    <3>1. p > hot \/ p = 1
      BY <1>5
    <3> QED  BY <1>5, <3>1 DEF Core, OneStack
  <2> QED  BY <1>1, <1>3, <1>4, <2>1 DEF Bare
<1>7. PoolCount = 1 /\ \A k, o : Due(k, o) = 0
  BY <1>5, <1>6, BareFacts DEF EmptyPoolPlaceholder
<1>8. PoolCount' = 1 /\ \A k, o : Due(k, o)' = 0
  BY <1>1, <1>6, NextBareFacts DEF EmptyPoolPlaceholder, NoPage
<1>9. Pools' = Pools
  BY <1>2, <1>7, <1>8, PoolsKept
<1>10. Stack!Top = 1 /\ Pools[1] = Stack!EmptyPool
  <2>1. Stack!Top = 1 /\ Pools[1] = DueTo(1)
    BY <1>2, <1>7, PoolsFacts DEF Stack!Top
  <2>2. DueTo(1) = Stack!EmptyPool
    BY <1>7 DEF DueTo, Stack!EmptyPool
  <2> QED  BY <2>1, <2>2
<1>11. PopsLeft = 1 /\ Sent = 0
  <2>1. ~Over
    BY <1>1 DEF Over
  <2> QED  BY <1>1, <1>3, <2>1 DEF PopsLeft, Sent
<1>12. Popping = <<1>> /\ Receiving = <<>>
  <2>1. PopOf(frames[1]) = 1
    BY <1>1, <1>3 DEF PopOf
  <2>2. Popping = [i \in 1..1 |-> PopOf(frames[i])] /\ Receiving = [i \in 1..0 |-> frames[i].obj]
    BY <1>2, <1>11 DEF StackFact
  <2>3. Popping = [i \in 1..1 |-> 1]
    BY <2>1, <2>2
  <2> QED  BY <2>2, <2>3
<1>13. Popping' = <<>> /\ Receiving' = <<>>
  BY <1>2, <1>4, NextNoPops
<1>14. Stack!Pop(Popping) = <<>> /\ Stack!PopGoesOn /\ Popping[Len(Popping)] = 1
  BY <1>12 DEF Stack!Pop, Stack!PopGoesOn
<1> QED
  BY <1>9, <1>10, <1>12, <1>13, <1>14 DEF Stack!EndPop

\* At the start there is one pool, which holds nothing.
LEMMA InitStack ==
  ASSUME Init
  PROVE  Stack!Init
<1>1. Core /\ EntryInv
  BY InitKeeps, InvIsCore DEF Init, EntryInv
<1>2. Bare /\ frames = <<>> /\ hot # EmptyPoolPlaceholder
  BY DEF Init, Bare, NoPage, EmptyPoolPlaceholder
<1>3. StackFact
  BY <1>1, StackHolds
<1>4. Popping = <<>> /\ Receiving = <<>>
  BY <1>2, <1>3, NoPops
<1>5. PoolCount = 1 /\ \A k, o : Due(k, o) = 0
  BY <1>1, <1>2, BareFacts
<1>6. Pools = <<Stack!EmptyPool>>
  <2>1. DueTo(1) = Stack!EmptyPool
    BY <1>5 DEF DueTo, Stack!EmptyPool
  <2>2. Pools = [k \in 1..1 |-> DueTo(k)]
    BY <1>3, <1>5 DEF StackFact, DueTo
  <2>3. Pools = [k \in 1..1 |-> Stack!EmptyPool]
    BY <2>1, <2>2
  <2> QED  BY <2>3
<1> QED
  BY <1>4, <1>6 DEF Stack!Init

\* A step that changes nothing changes nothing of the stack of pools.
LEMMA StutterStep ==
  ASSUME Core, Core', EntryInv, EntryInv', UNCHANGED vars
  PROVE  UNCHANGED Stack!vars
<1>1. pages' = pages /\ hot' = hot /\ frames' = frames
  BY DEF vars
<1>2. StackFact /\ StackFact' /\ DueOK /\ DueOK'
  BY StackHolds, NextStack, DueOKHolds, DueOKNext
<1>3. Places' = Places /\ (\A x : At(x)' = At(x)) /\ PoolCount' = PoolCount
      /\ \A x : PoolOf(x)' = PoolOf(x)
  BY <1>1, SameEntries
<1>4. \A h \in Positions : OwedAt(h)' = OwedAt(h)
  BY <1>1, <1>3 DEF OwedAt, Owed, InFrames, Taken
<1>5. \A h \in Positions : To(h)' = To(h) /\ From(h)' = From(h)
  BY <1>1, SourceKept
<1>6. \A k, o : Due(k, o)' = Due(k, o)
  BY <1>2, <1>4, <1>5, DueSame
<1>7. Pools' = Pools
  BY <1>2, <1>3, <1>6, PoolsKept
<1>8. PopsLeft' = PopsLeft /\ Sent' = Sent
  BY <1>1 DEF PopsLeft, Sent, Over, Top, Reached
<1>9. \A k \in 1..Len(frames) : PopOf(frames[k])' = PopOf(frames[k])
  <2> SUFFICES ASSUME NEW k \in 1..Len(frames)
               PROVE  PopOf(frames[k])' = PopOf(frames[k])
    OBVIOUS
  <2>1. PICK y : y = frames[k].stop
    OBVIOUS
  <2>2. PopOf(frames[k])' = IF frames[k].exit THEN 1 ELSE 1 + PoolOf(y)'
    BY <1>1, <2>1 DEF PopOf, PoolOf, Before
  <2> QED  BY <1>3, <2>1, <2>2 DEF PopOf
<1>10. Popping' = Popping
  BY <1>2, <1>8, <1>9, PoppingKept
<1>11. Receiving' = Receiving
  BY <1>1, <1>2, <1>8 DEF StackFact
<1> QED
  BY <1>7, <1>10, <1>11 DEF Stack!vars

\* Every step of the pages is a step of the stack of pools, or none.
LEMMA NextStep ==
  ASSUME Core, Core', EntryInv, EntryInv', [Next]_vars
  PROVE  [Stack!Next]_(Stack!vars)
<1>1. CASE Push
  BY <1>1, PushStep DEF Stack!Next
<1>2. ASSUME NEW o \in Objects, Autorelease(o) PROVE Stack!Next
  BY <1>2, AutoreleaseStep DEF Stack!Next
<1>3. ASSUME NEW i \in 1..Len(tokens), PopPlaceholder(i) PROVE Stack!Next
  BY <1>3, PopPlaceholderStep DEF Stack!Next
<1>4. ASSUME NEW i \in 1..Len(tokens), StartPop(i) PROVE Stack!Next
  BY <1>4, StartPopStep DEF Stack!Next
<1>5. CASE ThreadExit
  BY <1>5, ThreadExitStep DEF Stack!Next
<1>6. CASE TakeEntry
  BY <1>6, TakeStep DEF Stack!Next
<1>7. CASE Release
  BY <1>7, ReleaseStep DEF Stack!Next
<1>8. CASE ReleaseReturns
  BY <1>8, ReturnStep DEF Stack!Next
<1>9. CASE PopPage
  BY <1>9, PopPageStep
<1>10. CASE KillPages
  BY <1>10, KillPagesStep DEF Stack!Next
<1>11. CASE UNCHANGED vars
  BY <1>11, StutterStep
<1> QED
  BY <1>1, <1>2, <1>3, <1>4, <1>5, <1>6, <1>7, <1>8, <1>9, <1>10, <1>11
     DEF Next, Program, Pops

\* EntryInv holds with PoolInv in every state.
LEMMA EntriesAreKept == Spec => [](PoolInv /\ EntryInv)
<1>1. Init => PoolInv /\ EntryInv
  BY InitKeeps DEF Init, EntryInv
<1>2. PoolInv /\ EntryInv /\ [Next]_vars => (PoolInv /\ EntryInv)'
  BY NextKeeps, NextEntries, InvIsCore
<1> QED
  BY <1>1, <1>2, PTL DEF Spec

(***************************************************************************)
(* The pages of a thread implement the stack of pools: each pop releases   *)
(* what was autoreleased in its pool and in those above it, and nothing    *)
(* else, once for every autorelease, whatever the pages, the entries that  *)
(* were coalesced and the pools pushed by the objects' own deallocation    *)
(* (push, autorelease, autoreleaseFast, add, releaseUntil, pop, tls_dealloc*)
(* of AutoreleasePoolPage).                                                *)
(***************************************************************************)
THEOREM StackImplemented == Spec => ImplementsStack
<1>1. Init => Stack!Init
  BY InitStack
<1>2. PoolInv /\ EntryInv /\ (PoolInv /\ EntryInv)' /\ [Next]_vars => [Stack!Next]_(Stack!vars)
  <2>1. PoolInv => Core
    BY InvIsCore
  <2>2. PoolInv' => Core'
    BY <2>1, PTL
  <2> QED  BY <2>1, <2>2, NextStep
<1> QED
  BY <1>1, <1>2, EntriesAreKept, PTL DEF Spec, ImplementsStack, Stack!Spec
=============================================================================
