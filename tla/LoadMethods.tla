---------------------------- MODULE LoadMethods ----------------------------
(***************************************************************************)
(* +load methods (objc-loadmethod.mm, prepare_load_methods, load_images    *)
(* and unmap_image): which classes and categories are scheduled, in which  *)
(* order they are called, and what happens when a +load method maps or     *)
(* unmaps further images.                                                  *)
(*                                                                         *)
(* loadMethodLock is recursive and held by the outermost load_images from  *)
(* beginning to end, so one thread is enough.  dyld is external: an image  *)
(* is mapped and told to load_images after the images it depends on, and   *)
(* is unmapped when no mapped image depends on it.                         *)
(***************************************************************************)
EXTENDS Naturals, Sequences, SequencesExt

CONSTANTS
  Images, Classes, Categories,
  imageOf,            \* the image of each class and category
  superclass,
  classOf,            \* the class each category extends
  nonlazyClasses,     \* per image: the classes with +load, in the linker's order
  nonlazyCategories,  \* per image: the categories with +load
  dependsOn,          \* per image: the images it links against
  Nil,
  UnmapDetached,      \* may an image go while its +loads are being worked off?
  MaxUnmaps

ASSUME LoadMethodsAssumption ==
  /\ imageOf \in [Classes \cup Categories -> Images]
  /\ superclass \in [Classes -> Classes \cup {Nil}]
  /\ classOf \in [Categories -> Classes]
  /\ dependsOn \in [Images -> SUBSET Images]
  /\ Nil \notin Classes \cup Categories
  /\ UnmapDetached \in BOOLEAN
  /\ MaxUnmaps \in Nat

VARIABLES
  mapped,               \* images dyld has mapped
  ready,                \* those load_images has been called for
  RW_LOADED,            \* classes with that flag
  loadable_classes, loadable_categories,
  loading,              \* what call_load_methods is doing, or "no"
  detached,             \* rest of the list that is being called
  running,              \* whose +load executes, or Nil
  done,                 \* whose +load has returned
  unmaps

lists == <<loadable_classes, loadable_categories>>
calls == <<loading, detached, running, done>>
vars == <<mapped, ready, RW_LOADED, lists, calls, unmaps>>

Init ==
  /\ mapped = {} /\ ready = {} /\ RW_LOADED = {}
  /\ loadable_classes = <<>> /\ loadable_categories = <<>>
  /\ loading = "no" /\ detached = <<>> /\ running = Nil
  /\ done = {}
  /\ unmaps = 0

getLoadMethod(c) == c \in Range(nonlazyClasses[imageOf[c]])

\* The client runs when the runtime does not, or inside a +load method.
ClientRuns == loading = "no" \/ running # Nil
-----------------------------------------------------------------------------
\* schedule_class_load: c and its superclasses up to one that has RW_LOADED,
\* superclasses first.
Unscheduled(c, flags) ==
  LET up[k \in Classes] ==
        IF k \in flags THEN <<>>
        ELSE IF superclass[k] = Nil THEN <<k>> ELSE Append(up[superclass[k]], k)
  IN up[c]

\* ... all get the flag, those that implement +load go to the list.
schedule_class_load(s, c) ==
  [list  |-> s.list \o SelectSeq(Unscheduled(c, s.flags), getLoadMethod),
   flags |-> s.flags \cup Range(Unscheduled(c, s.flags))]

prepare_load_methods(i) ==
  LET s == FoldLeft(schedule_class_load,
                    [list |-> loadable_classes, flags |-> RW_LOADED], nonlazyClasses[i])
  IN /\ loadable_classes' = s.list
     /\ RW_LOADED' = s.flags
     /\ loadable_categories' = loadable_categories \o nonlazyCategories[i]

hasLoadMethods(i) == nonlazyClasses[i] # <<>> \/ nonlazyCategories[i] # <<>>

\* dlopen, and map_images.
map_images(i) ==
  /\ ClientRuns
  /\ i \notin mapped
  /\ dependsOn[i] \subseteq mapped
  /\ mapped' = mapped \cup {i}
  /\ UNCHANGED <<ready, RW_LOADED, lists, calls, unmaps>>

\* "Re-entrant calls do nothing; the outermost call will finish the job."
load_images(i) ==
  /\ ClientRuns
  /\ i \in mapped \ ready
  /\ dependsOn[i] \subseteq ready
  /\ ready' = ready \cup {i}
  /\ IF hasLoadMethods(i)
     THEN prepare_load_methods(i) /\ loading' = (IF loading = "no" THEN "classes" ELSE loading)
     ELSE UNCHANGED <<RW_LOADED, lists, loading>>
  /\ UNCHANGED <<mapped, detached, running, done, unmaps>>

\* Mutant of Unlisted: forgets the entries of the image in the list.
Unlisted_Not(list, i) == list

\* remove_class_from_loadable_list, remove_category_from_loadable_list.
Unlisted(list, i) ==
  [k \in DOMAIN list |->
     IF list[k] # Nil /\ imageOf[list[k]] = i THEN Nil ELSE list[k]]

\* unmap_image and _unload_image, by dlclose.  The code of a running +load
\* method stays mapped.
unmap_image(i) ==
  /\ ClientRuns
  /\ unmaps < MaxUnmaps
  /\ i \in mapped
  /\ \A j \in mapped : i \notin dependsOn[j]
  /\ running # Nil => imageOf[running] # i
  /\ UnmapDetached \/ Unlisted(detached, i) = detached
  /\ unmaps' = unmaps + 1
  /\ mapped' = mapped \ {i}
  /\ ready' = ready \ {i}
  /\ RW_LOADED' = {c \in RW_LOADED : imageOf[c] # i}
  /\ loadable_classes' = Unlisted(loadable_classes, i)
  /\ loadable_categories' = Unlisted(loadable_categories, i)
  /\ done' = {e \in done : imageOf[e] # i}
  /\ UNCHANGED <<loading, detached, running>>
-----------------------------------------------------------------------------
(* call_load_methods *)

\* call_class_loads: "Detach current loadable list."
DetachClasses ==
  /\ loading = "classes" /\ running = Nil /\ detached = <<>>
  /\ loadable_classes # <<>>
  /\ detached' = loadable_classes
  /\ loadable_classes' = <<>>
  /\ UNCHANGED <<mapped, ready, RW_LOADED, loadable_categories, loading, running, done,
                 unmaps>>

\* Mutant of NoClassesLeft: goes through the list of classes once only.
NoClassesLeft_Once == TRUE

\* while (loadable_classes_used > 0)
NoClassesLeft == loadable_classes = <<>>

\* No classes are left: call_category_loads detaches the other list.
DetachCategories ==
  /\ loading = "classes" /\ running = Nil /\ detached = <<>>
  /\ NoClassesLeft
  /\ loading' = "categories"
  /\ detached' = loadable_categories
  /\ loadable_categories' = <<>>
  /\ UNCHANGED <<mapped, ready, RW_LOADED, loadable_classes, running, done, unmaps>>

\* "if (!cls) continue"
SkipNil ==
  /\ running = Nil /\ detached # <<>> /\ Head(detached) = Nil
  /\ detached' = Tail(detached)
  /\ UNCHANGED <<mapped, ready, RW_LOADED, lists, loading, running, done, unmaps>>

\* (*load_method)(cls, SEL_load).  A category's class isLoadable, always.
CallLoad ==
  /\ running = Nil /\ detached # <<>> /\ Head(detached) # Nil
  /\ running' = Head(detached)
  /\ detached' = Tail(detached)
  /\ UNCHANGED <<mapped, ready, RW_LOADED, lists, loading, done, unmaps>>

LoadReturns ==
  /\ running # Nil
  /\ running' = Nil
  /\ done' = done \cup {running}
  /\ UNCHANGED <<mapped, ready, RW_LOADED, lists, loading, detached, unmaps>>

\* Mutant of MoreLoads: does not try new categories.
MoreLoads_Classes == loadable_classes # <<>>

\* loadable_classes_used > 0  ||  more_categories
MoreLoads == loadable_classes # <<>> \/ loadable_categories # <<>>

\* The end of call_category_loads: every entry of the detached list was called
\* or nil, so the list that is reattached is the new one.
CategoriesDone ==
  /\ loading = "categories" /\ running = Nil /\ detached = <<>>
  /\ loading' = (IF MoreLoads THEN "classes" ELSE "no")
  /\ UNCHANGED <<mapped, ready, RW_LOADED, lists, detached, running, done, unmaps>>

call_load_methods ==
  DetachClasses \/ DetachCategories \/ SkipNil \/ CallLoad \/ LoadReturns \/ CategoriesDone
-----------------------------------------------------------------------------
Next == \/ \E i \in Images : map_images(i) \/ load_images(i) \/ unmap_image(i)
        \/ call_load_methods

Spec == Init /\ [][Next]_vars

-----------------------------------------------------------------------------
(* Properties *)

\* The +load methods that must have returned before e's is called.
Before(e) ==
  IF e \in Categories THEN {classOf[e]} ELSE Range(Unscheduled(e, {})) \ {e}

\* "Class +load methods are called superclass-first.  Category +load methods
\* are not called until after the parent class's +load", also when +load
\* methods map images whose classes and categories depend on pending ones.
ParentsFirst ==
  running # Nil => \A c \in Before(running) : getLoadMethod(c) => c \in done

\* No +load is called a second time, nor for an entry scheduled twice.
CalledOnce == running # Nil => running \notin done

\* "no +load method is forgotten because it was added during a +load call":
\* when the outermost call_load_methods has returned, all were called.
NothingForgotten ==
  loading = "no" =>
    \A e \in Classes \cup Categories :
      (imageOf[e] \in ready /\ (e \in Classes => getLoadMethod(e))) => e \in done

\* Every +load is called once, whoever scheduled it.
ExactlyOnce == CalledOnce /\ NothingForgotten

\* "now no longer loadable (because its image is being unmapped)": +load of an
\* unmapped image is never called.
NoStaleCall == running # Nil => imageOf[running] \in mapped

=============================================================================
