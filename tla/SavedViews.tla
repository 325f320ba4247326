----------------------------- MODULE SavedViews -----------------------------
(***************************************************************************)
(* The saved views of one user and view type:                              *)
(* backend/app/saved_views_service.py and its handlers in main.py.  A      *)
(* session that makes a view the default clears the others it can see.     *)
(* Names and filters are left out.                                         *)
(***************************************************************************)
EXTENDS UnitOfWork, Naturals, FiniteSets

CONSTANTS
    Views,         \* ids that rows of saved_views may get
    ViewThreads    \* threads of the pool that runs the handlers

ASSUME ViewsAssumption == IsFiniteSet(Views) /\ IsFiniteSet(ViewThreads)

VARIABLES
    view,       \* is_default of each view, "none" if there is no such row
    viewJob     \* per thread, the session of the request it is serving

viewsVars == <<view, viewJob>>

-----------------------------------------------------------------------------

ViewStates == {"none", "plain", "default"}

\* adds, deletes: the row that a session inserts or deletes; touches: the row
\* it updates whatever its default; seen, image: the rows as loaded, and its
\* copies.
NoView == [v \in Views |-> "none"]
IdleView == [busy |-> FALSE, adds |-> {}, deletes |-> {}, touches |-> {},
             seen |-> NoView, image |-> NoView]
ViewJob == [busy: BOOLEAN, adds: SUBSET Views, deletes: SUBSET Views,
            touches: SUBSET Views, seen: [Views -> ViewStates],
            image: [Views -> ViewStates]]

SavedRows == {v \in Views : view[v] # "none"}
FreeViews == {v \in Views : view[v] = "none"
                            /\ \A t \in ViewThreads : v \notin viewJob[t].adds}
Flag(isDefault) == IF isDefault THEN "default" ELSE "plain"

ViewsInit ==
    /\ view = NoView
    /\ viewJob = [t \in ViewThreads |-> IdleView]

BeginView(t, request) ==
    /\ viewJob[t] = IdleView
    /\ viewJob' = [viewJob EXCEPT ![t] = request]
    /\ UNCHANGED view

\* A defect: the view at hand replaces no other.
BadCleared == view

\* clear_default_views: the copies of all rows the session sees.
Cleared == [v \in Views |-> IF view[v] = "default" THEN "plain" ELSE view[v]]

\* create_saved_view; what else is cleared is in image.
CreateView(t, v, isDefault) ==
    /\ v \in FreeViews
    /\ BeginView(t, [IdleView EXCEPT
           !.busy = TRUE, !.adds = {v},
           !.seen = [view EXCEPT ![v] = "none"],
           !.image = [(IF isDefault THEN Cleared ELSE view)
                         EXCEPT ![v] = Flag(isDefault)]])

\* update_saved_view, with is_default given: a copy that is cleared and set
\* again is as it was loaded.  updated_at is always written.
UpdateView(t, v, isDefault) ==
    /\ v \in SavedRows
    /\ BeginView(t, [IdleView EXCEPT
           !.busy = TRUE, !.touches = {v}, !.seen = view,
           !.image = [(IF isDefault THEN Cleared ELSE view)
                         EXCEPT ![v] = Flag(isDefault)]])

\* delete_saved_view.
DeleteView(t, v) ==
    /\ v \in SavedRows
    /\ BeginView(t, [IdleView EXCEPT !.busy = TRUE, !.deletes = {v},
                                     !.seen = view, !.image = view])

\* The rows that a session updates.
Updated(j) == {v \in Views \ j.adds : j.image[v] # j.seen[v]} \cup j.touches

\* The commit; an update of a row that is no longer there fails.
CommitView(t) ==
    LET j == viewJob[t] IN
    /\ j.busy /\ Updated(j) \subseteq SavedRows
    /\ view' = [v \in Views |->
                   IF v \in j.deletes THEN "none"
                   ELSE Written(view[v], j.seen[v], j.image[v])]
    /\ viewJob' = [viewJob EXCEPT ![t] = IdleView]

\* A failed update, an exception, a restart: the session is rolled back.
AbortView(t) ==
    /\ viewJob[t].busy
    /\ viewJob' = [viewJob EXCEPT ![t] = IdleView]
    /\ UNCHANGED view

ViewsNext ==
    \E t \in ViewThreads :
        \/ CommitView(t) \/ AbortView(t)
        \/ \E v \in Views :
              \/ DeleteView(t, v)
              \/ \E isDefault \in BOOLEAN :
                    CreateView(t, v, isDefault) \/ UpdateView(t, v, isDefault)

ViewsSpec == ViewsInit /\ [][ViewsNext]_viewsVars

-----------------------------------------------------------------------------
(* Properties.                                                             *)

\* The rows and the sessions hold what the code may write.
ViewsTypeOK ==
    /\ view \in [Views -> ViewStates]
    /\ viewJob \in [ViewThreads -> ViewJob]

\* Sessions clear the defaults they can see, not those under way, and nothing
\* in the database forbids a second one: there are no more defaults than
\* sessions at a time (clear_default_views).
DefaultsAreFew ==
    Cardinality({v \in Views : view[v] = "default"}) <= Cardinality(ViewThreads)

-----------------------------------------------------------------------------
(* The inductive invariant of the proofs.                                  *)

Defaults == {v \in Views : view[v] = "default"}

\* The view that a session makes the default, if any.
Makes(j, v) == j.image[v] = "default" /\ j.seen[v] # "default"

\* Who makes a view the default clears every other one that it saw.
ClearsOthers(j) ==
    \A v, other \in Views :
        Makes(j, v) /\ other # v => j.image[other] # "default"

\* by: each default goes back to the session that made it; no other default
\* does, because a session sees, and clears, the one it made before.
MadeBy(by) ==
    /\ \A v, other \in Defaults : by[v] = by[other] => v = other
    /\ \A v \in Defaults :
           viewJob[by[v]].busy => viewJob[by[v]].seen[v] = "default"

ViewsInv ==
    /\ ViewsTypeOK
    /\ \A t \in ViewThreads : /\ ClearsOthers(viewJob[t])
                              /\ ~viewJob[t].busy => viewJob[t] = IdleView
    /\ \E by \in [Defaults -> ViewThreads] : MadeBy(by)
=============================================================================
