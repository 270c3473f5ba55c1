----------------------------- MODULE LoadMethods -----------------------------
(***************************************************************************)
(* +load (objc-loadmethod.mm): the images that dyld hands to load_images,  *)
(* the lists of classes and categories that wait for their +load, and the  *)
(* loop that sends it. A +load may open and close images itself, and other *)
(* threads may do so at the same time.                                     *)
(*                                                                         *)
(* A step is a call of schedule_class_load, another critical section under *)
(* loadMethodLock, a call of a +load, its return, or the end of the pop of *)
(* the autorelease pool that the +loads are sent in.                       *)
(***************************************************************************)
EXTENDS Naturals, Sequences, Functions

CONSTANTS
  Threads,
  Images,
  Links,          \* the images that each image links, directly or not
  Bundles,        \* the images that can be closed again
  Classes,
  Categories,
  none,           \* no class, no thread, or a list entry that was removed
  Superclass,     \* the superclass of each class, or none
  Above,          \* the superclasses of each class, up to the root
  ClassOf,        \* the class of each category
  ImageOf,        \* the image of each class and category
  HasLoad,        \* the classes with a +load method of their own
  ClassList,      \* __objc_nlclslist of each image
  CategoryList,   \* __objc_nlcatlist of each image
  MaxOpens,       \* bound: opened images
  ClosesPending   \* whether a bundle is closed while its +load is detached

Items == Classes \cup Categories

ASSUME NoneAssumption == none \notin Items \cup Threads
ASSUME ImagesAssumption ==
  /\ Links \in [Images -> SUBSET Images]
  /\ \A i \in Images :
       i \notin Links[i] /\ \A j \in Links[i] : Links[j] \subseteq Links[i]
  /\ Bundles \subseteq Images /\ \A i \in Images : Links[i] \cap Bundles = {}
ASSUME ClassesAssumption ==
  /\ Classes \cap Categories = {}
  /\ Superclass \in [Classes -> Classes \cup {none}]
  /\ Above \in [Classes -> SUBSET Classes]
  /\ \A c \in Classes :
       /\ c \notin Above[c]
       /\ Above[c] = IF Superclass[c] = none THEN {}
                     ELSE {Superclass[c]} \cup Above[Superclass[c]]
  /\ ClassOf \in [Categories -> Classes]
  /\ ImageOf \in [Items -> Images]
  /\ HasLoad \subseteq Classes
\* The linker lists what has a +load, and links what classes refer to.
ASSUME ListsAssumption ==
  /\ ClassList \in [Images -> Seq(Classes)]
  /\ CategoryList \in [Images -> Seq(Categories)]
  /\ \A i \in Images :
       /\ Range(ClassList[i]) = {c \in HasLoad : ImageOf[c] = i}
       /\ Range(CategoryList[i]) = {c \in Categories : ImageOf[c] = i}
       /\ \A j, k \in 1 .. Len(CategoryList[i]) :
            CategoryList[i][j] = CategoryList[i][k] => j = k
  /\ \A c \in Classes : \A d \in Above[c] :
       ImageOf[d] \in Links[ImageOf[c]] \cup {ImageOf[c]}
  /\ \A c \in Categories :
       ImageOf[ClassOf[c]] \in Links[ImageOf[c]] \cup {ImageOf[c]}
ASSUME MaxOpensAssumption == MaxOpens \in Nat

VARIABLES
  opener,               \* the thread that mapped each image, or none
  prepared,             \* the images that load_images has scheduled
  loaded,               \* RW_LOADED of each class, as a set
  loadable_classes,     \* the classes waiting for +load
  loadable_categories,  \* the categories waiting for +load
  loading,              \* the static flag of call_load_methods
  stack,                \* the calls that each thread is in
  done,                 \* ghost: classes and categories whose +load is over
  missed,               \* ghost: images whose call returned during a pool pop
  opens                 \* images opened so far

vars == <<opener, prepared, loaded, loadable_classes, loadable_categories,
          loading, stack, done, missed, opens>>

Frame(pc, x) == [pc |-> pc, on |-> x, list |-> <<>>]
Calls == [pc   : {"open", "lock", "prepare", "call", "loop", "classes",
                  "categories", "pool", "load"},
          on   : Images \cup Items,
          list : Seq(Items \cup {none})]

Idle(t) == stack[t] = <<>>
Top(t) == stack[t][Len(stack[t])]
At(t, pc) == ~Idle(t) /\ Top(t).pc = pc
Below(t) == SubSeq(stack[t], 1, Len(stack[t]) - 1)
Goto(t, f) == stack' = [stack EXCEPT ![t] = Append(Below(t), f)]
Return(t) == stack' = [stack EXCEPT ![t] = Below(t)]
Frames(t) == Range(stack[t])

\* Code of the program: outside any call, a +load method, or the -dealloc of an
\* object that a +load autoreleased.
InProgram(t) == Idle(t) \/ At(t, "load") \/ At(t, "pool")

(***************************************************************************)
(* loadMethodLock is held from the preparation of an image to the end of   *)
(* its load_images. It is recursive.                                       *)
(***************************************************************************)
Holding == {"prepare", "call", "loop", "classes", "categories", "pool"}
Holds(t) == \E f \in Frames(t) : f.pc \in Holding

LockFree(t) == \A u \in Threads \ {t} : ~Holds(u)

(***************************************************************************)
(* dyld (external). Opening an image maps the images it links too. The     *)
(* images nobody has begun with are this thread's to begin with; it does   *)
(* not open what depends on an image that another thread is beginning.     *)
(***************************************************************************)
Needs(i) == Links[i] \cup {i}

Open(t, i) ==
  /\ InProgram(t) /\ opens < MaxOpens
  /\ i \notin prepared
  /\ \A j \in Needs(i) \ prepared : opener[j] \in {none, t}
  /\ opener' = [j \in Images |->
                  IF j \in Needs(i) /\ opener[j] = none THEN t ELSE opener[j]]
  /\ stack' = [stack EXCEPT ![t] = Append(@, Frame("open", i))]
  /\ opens' = opens + 1
  /\ UNCHANGED <<prepared, loaded, loadable_classes, loadable_categories,
                 loading, done, missed>>

\* The images that an open in progress still has to begin with.
Unprepared(t) == Needs(Top(t).on) \ prepared

OpenReturns(t) ==
  /\ At(t, "open") /\ Unprepared(t) = {}
  /\ Return(t)
  /\ UNCHANGED <<opener, prepared, loaded, loadable_classes,
                 loadable_categories, loading, done, missed, opens>>

HasLoadMethods(i) == ClassList[i] # <<>> \/ CategoryList[i] # <<>>

\* Return without taking locks if there are no +load methods here. An image is
\* begun with after those that it links.
LoadImages(t) ==
  /\ At(t, "open")
  /\ \E i \in Unprepared(t) :
       /\ Links[i] \cap Unprepared(t) = {}
       /\ IF HasLoadMethods(i)
            THEN /\ stack' = [stack EXCEPT ![t] = Append(@, Frame("lock", i))]
                 /\ UNCHANGED prepared
            ELSE /\ prepared' = prepared \cup {i}
                 /\ UNCHANGED stack
  /\ UNCHANGED <<opener, loaded, loadable_classes, loadable_categories,
                 loading, done, missed, opens>>

(***************************************************************************)
(* prepare_load_methods, in load_images, with loadMethodLock and           *)
(* runtimeLock. The list of the call is what is left of __objc_nlclslist,  *)
(* behind the classes that schedule_class_load has been called for.        *)
(***************************************************************************)
\* A call goes on with a list of its own.
WithList(t, pc, list) ==
  Goto(t, [pc |-> pc, on |-> Top(t).on, list |-> list])

Prepare(t) ==
  /\ At(t, "lock") /\ LockFree(t)
  /\ WithList(t, "prepare", ClassList[Top(t).on])
  /\ UNCHANGED <<opener, prepared, loaded, loadable_classes,
                 loadable_categories, loading, done, missed, opens>>

Scheduling(t) == At(t, "prepare") /\ Top(t).list # <<>>

AlreadyLoaded(t) ==
  /\ Scheduling(t) /\ Head(Top(t).list) \in loaded
  /\ WithList(t, "prepare", Tail(Top(t).list))
  /\ UNCHANGED <<opener, prepared, loaded, loadable_classes,
                 loadable_categories, loading, done, missed, opens>>

\* The superclasses of c that schedule_class_load is called for.
ToSchedule(c) == {Superclass[c]} \ (loaded \cup {none})

\* Recursively schedule any un-+load-ed superclass, superclass first.
ScheduleSuperclass(t) ==
  /\ Scheduling(t) /\ Head(Top(t).list) \notin loaded
  /\ \E c \in ToSchedule(Head(Top(t).list)) :
       WithList(t, "prepare", <<c>> \o Top(t).list)
  /\ UNCHANGED <<opener, prepared, loaded, loadable_classes,
                 loadable_categories, loading, done, missed, opens>>

\* add_class_to_loadable_list, and the flag.
ScheduleClass(t) ==
  /\ Scheduling(t) /\ Head(Top(t).list) \notin loaded
  /\ LET c == Head(Top(t).list) IN
       /\ ToSchedule(c) = {}
       /\ loadable_classes' = IF c \in HasLoad THEN Append(loadable_classes, c)
                              ELSE loadable_classes
       /\ loaded' = loaded \cup {c}
  /\ WithList(t, "prepare", Tail(Top(t).list))
  /\ UNCHANGED <<opener, prepared, loadable_categories, loading, done, missed, opens>>

PrepareCategories(t) ==
  /\ At(t, "prepare") /\ Top(t).list = <<>>
  /\ loadable_categories' = loadable_categories \o CategoryList[Top(t).on]
  /\ prepared' = prepared \cup {Top(t).on}
  /\ Goto(t, Frame("call", Top(t).on))
  /\ UNCHANGED <<opener, loaded, loadable_classes, loading, done, missed, opens>>

(***************************************************************************)
(* call_load_methods.                                                      *)
(***************************************************************************)

\* Mutant: a re-entrant call does not leave it to the outermost one.
ReentrantNever == FALSE

\* Re-entrant calls do nothing; the outermost call will finish the job.
Reentrant == loading

Popping == \E t \in Threads : \E f \in Frames(t) : f.pc = "pool"

\* The outermost call pushes an autorelease pool, and pops it at the end.
CallLoadMethods(t) ==
  /\ At(t, "call")
  /\ IF Reentrant THEN Return(t) ELSE Goto(t, Frame("loop", Top(t).on))
  /\ loading' = TRUE
  /\ missed' = IF Popping THEN missed \cup {Top(t).on} ELSE missed
  /\ UNCHANGED <<opener, prepared, loaded, loadable_classes,
                 loadable_categories, done, opens>>

\* Mutant: loadable_classes_used is not reset.
DetachClassesKept(t) ==
  /\ At(t, "loop") /\ loadable_classes # <<>>
  /\ WithList(t, "classes", loadable_classes)
  /\ UNCHANGED <<opener, prepared, loaded, loadable_classes,
                 loadable_categories, loading, done, missed, opens>>

\* call_class_loads: detach the list.
DetachClasses(t) ==
  /\ At(t, "loop") /\ loadable_classes # <<>>
  /\ WithList(t, "classes", loadable_classes)
  /\ loadable_classes' = <<>>
  /\ UNCHANGED <<opener, prepared, loaded, loadable_categories, loading, done, missed,
                 opens>>

\* call_category_loads, when no class is left: detach the list.
DetachCategories(t) ==
  /\ At(t, "loop") /\ loadable_classes = <<>>
  /\ WithList(t, "categories", loadable_categories)
  /\ loadable_categories' = <<>>
  /\ UNCHANGED <<opener, prepared, loaded, loadable_classes, loading, done, missed,
                 opens>>

InList(t) == At(t, "classes") \/ At(t, "categories")

\* Send the next +load of the detached list, or skip a removed entry.
CallLoad(t) ==
  /\ InList(t) /\ Top(t).list # <<>>
  /\ LET x == Head(Top(t).list)
         rest == Append(Below(t), [Top(t) EXCEPT !.list = Tail(@)]) IN
       stack' = [stack EXCEPT
                   ![t] = IF x = none THEN rest
                          ELSE Append(rest, Frame("load", x))]
  /\ UNCHANGED <<opener, prepared, loaded, loadable_classes,
                 loadable_categories, loading, done, missed, opens>>

LoadReturns(t) ==
  /\ At(t, "load")
  /\ done' = done \cup {Top(t).on}
  /\ Return(t)
  /\ UNCHANGED <<opener, prepared, loaded, loadable_classes,
                 loadable_categories, loading, missed, opens>>

\* The end of call_class_loads.
ClassesDone(t) ==
  /\ At(t, "classes") /\ Top(t).list = <<>>
  /\ Goto(t, Frame("loop", Top(t).on))
  /\ UNCHANGED <<opener, prepared, loaded, loadable_classes,
                 loadable_categories, loading, done, missed, opens>>

\* Mutant: forgets the categories that a +load has added.
MoreClasses == loadable_classes # <<>>

\* Run more +loads if there are classes or more untried categories.
MoreLoads == loadable_classes # <<>> \/ loadable_categories # <<>>

\* The end of call_category_loads. Every detached entry was called, since any
\* class registered for +load is loadable, so the new ones are the list.
CategoriesDone(t) ==
  /\ At(t, "categories") /\ Top(t).list = <<>>
  /\ IF MoreLoads
       THEN Goto(t, Frame("loop", Top(t).on)) /\ UNCHANGED missed
       ELSE Goto(t, Frame("pool", Top(t).on)) /\ missed' = {}
  /\ UNCHANGED <<opener, prepared, loaded, loadable_classes,
                 loadable_categories, loading, done, opens>>

\* objc_autoreleasePoolPop has run the last -dealloc, and the flag is reset.
PoolPopped(t) ==
  /\ At(t, "pool")
  /\ Return(t) /\ loading' = FALSE
  /\ UNCHANGED <<opener, prepared, loaded, loadable_classes,
                 loadable_categories, done, missed, opens>>

(***************************************************************************)
(* unmap_image, when the program closes a bundle: its classes and          *)
(* categories are taken out of the lists, and the classes are freed.       *)
(***************************************************************************)
Of(i) == {x \in Items : ImageOf[x] = i}
Without(list, xs) ==
  [k \in DOMAIN list |-> IF list[k] \in xs THEN none ELSE list[k]]

InUse(i) ==
  \/ \E j \in Images : opener[j] # none /\ i \in Links[j]
  \/ \E t \in Threads : \E f \in Frames(t) : f.on \in {i} \cup Of(i)

\* The program closes a bundle that nothing is running in.
MayClose(i) ==
  /\ i \in Bundles \cap prepared /\ ~InUse(i)
  /\ ~ClosesPending =>
       \A t \in Threads : \A f \in Frames(t) : Range(f.list) \cap Of(i) = {}

Close(t, i) ==
  /\ InProgram(t) /\ MayClose(i) /\ LockFree(t)
  /\ loadable_classes' = Without(loadable_classes, Of(i))
  /\ loadable_categories' = Without(loadable_categories, Of(i))
  /\ loaded' = loaded \ Of(i)
  /\ prepared' = prepared \ {i}
  /\ opener' = [opener EXCEPT ![i] = none]
  /\ done' = done \ Of(i)
  /\ missed' = missed \ {i}
  /\ UNCHANGED <<loading, stack, opens>>

-----------------------------------------------------------------------------
Init ==
  /\ opener = [i \in Images |-> none]
  /\ prepared = {} /\ loaded = {} /\ done = {} /\ missed = {}
  /\ loadable_classes = <<>> /\ loadable_categories = <<>>
  /\ loading = FALSE
  /\ stack = [t \in Threads |-> <<>>]
  /\ opens = 0

\* The steps of a thread that is in a call. A +load and a -dealloc return.
Continue(t) ==
  \/ OpenReturns(t) \/ LoadImages(t) \/ Prepare(t) \/ AlreadyLoaded(t)
  \/ ScheduleSuperclass(t) \/ ScheduleClass(t) \/ PrepareCategories(t)
  \/ CallLoadMethods(t)
  \/ DetachClasses(t) \/ DetachCategories(t) \/ CallLoad(t) \/ LoadReturns(t)
  \/ ClassesDone(t) \/ CategoriesDone(t) \/ PoolPopped(t)

\* The program may stop when no call is in progress.
Stopped == (\A t \in Threads : Idle(t)) /\ UNCHANGED vars

Next ==
  \/ \E t \in Threads :
       \/ Continue(t)
       \/ \E i \in Images : Open(t, i) \/ Close(t, i)
  \/ Stopped

Spec == Init /\ [][Next]_vars
FairSpec == Spec /\ \A t \in Threads : WF_vars(Continue(t))
-----------------------------------------------------------------------------
\* Every variable has values of its kind, and a flag is set for each class
\* that was scheduled.
TypeOK ==
  /\ opener \in [Images -> Threads \cup {none}]
  /\ prepared \subseteq {i \in Images : opener[i] # none}
  /\ loaded \subseteq Classes /\ done \subseteq Items /\ missed \subseteq Images
  /\ loadable_classes \in Seq(Classes \cup {none})
  /\ loadable_categories \in Seq(Categories \cup {none})
  /\ \A k \in 1 .. Len(loadable_classes) : loadable_classes[k] \in loaded \cup {none}
  /\ loading \in BOOLEAN
  /\ opens \in 0..MaxOpens
  /\ stack \in [Threads -> Seq(Calls)]

\* What must come before an item.
Earlier(x) ==
  HasLoad \cap (IF x \in Classes THEN Above[x]
                ELSE {ClassOf[x]} \cup Above[ClassOf[x]])

\* A +load is sent once, to code that is mapped, while no other one runs, after
\* those of all superclasses have returned, and that of a category after that
\* of its class (call_load_methods), whatever a +load opens or closes.
RunsInOrder ==
  \A t \in Threads : \A f \in Frames(t) :
    f.pc = "load" =>
      /\ opener[ImageOf[f.on]] # none
      /\ f.on \notin done
      /\ Earlier(f.on) \subseteq done
      /\ \A u \in Threads : \A g \in Frames(u) :
           g.pc = "load" => u = t /\ g = f

WithLoads(i) == Of(i) \cap (HasLoad \cup Categories)
Waiting == Range(loadable_classes) \cup Range(loadable_categories)

\* "No +load method is forgotten because it was added during a +load call":
\* when loadMethodLock is free, every +load of the images that load_images was
\* called for is over, but for the images opened while the pool was popped,
\* after the last look at the lists: their +loads wait for the next call.
NothingForgotten ==
  (\A t \in Threads : ~Holds(t)) =>
    /\ ~loading
    /\ \A i \in prepared : \A x \in WithLoads(i) :
         x \in done \/ (i \in missed /\ x \in Waiting)

\* The same without the exception. It does not hold.
AllSent ==
  (\A t \in Threads : ~Holds(t)) => \A i \in prepared : WithLoads(i) \subseteq done

\* Every open and every +load returns, although a +load opens and closes
\* images while its own thread holds loadMethodLock and others wait for it.
OpensReturn == \A t \in Threads : ~Idle(t) ~> Idle(t)
=============================================================================
