----------------------------- MODULE TaskFinder -----------------------------
(***************************************************************************)
(* The guided task finder of src/src/task-finder.ts: pages of tasks that   *)
(* the Runtime finds for a search, filters, a view and a project, browsed  *)
(* and refined by a user while other clients edit the tasks, until a row   *)
(* is chosen and verified.                                                 *)
(*                                                                         *)
(* The filters' text always is the search and is left out, as are the      *)
(* filters that no other choice depends on: priorities and due dates.      *)
(***************************************************************************)
EXTENDS Naturals, Sequences

CONSTANTS
  StatusesOf,  \* the catalog: the statuses of each pipeline with an exact identity
  Purpose,     \* "read" or "mutation-target"
  Checks,      \* checkbox states: "open", "done", "cancelled"
  Kinds,       \* representations: "all", "inline", "file"
  Scopes,      \* views: "normal", "overdue", "happens-today", "recent"
  Modes,       \* project modes: "direct", "tree"
  PageLimit,   \* FINDER_PAGE_LIMIT; 5 in the code
  MaxEdits,    \* bound on what other clients change
  NoMode

ASSUME FinderAssumption ==
  /\ "open" \in Checks /\ "all" \in Kinds /\ "normal" \in Scopes
  /\ "direct" \in Modes /\ NoMode \notin Modes
  /\ PageLimit \in Nat \ {0} /\ MaxEdits \in Nat

VARIABLES
  criteria,   \* query, filters, representations, scope and project of FinderStateV1
  pages,      \* each with the criteria it was asked for by, and the version it shows
  index,      \* pageIndex + 1
  restarted,  \* staleCursorRestarted
  place,      \* where the finder is
  before,     \* editFilters: the filters it began with
  result,     \* how the finder has ended
  version     \* the live identity and place of the task, as a number

finderVars == <<criteria, pages, index, restarted, place, before, result, version>>

Pipelines == DOMAIN StatusesOf
AllStatuses == UNION {StatusesOf[p] : p \in Pipelines}
Checkboxes == SUBSET Checks

\* An empty set is a filter that is not set.
Filters == [checkbox : Checkboxes, pipelines : SUBSET Pipelines, statuses : SUBSET AllStatuses]
Projects == [mode : Modes \cup {NoMode}, root : BOOLEAN]
Criteria == [query : BOOLEAN, filters : Filters, representations : Kinds,
             scope : Scopes, project : Projects]

\* filtersFor
Open == [checkbox |-> {"open"}, pipelines |-> {}, statuses |-> {}]

FinderInit ==
  /\ \E query \in BOOLEAN :
       criteria = [query |-> query, filters |-> Open, representations |-> "all",
                   scope |-> "normal", project |-> [mode |-> NoMode, root |-> FALSE]]
  /\ pages = <<>> /\ index = 1 /\ restarted = FALSE
  /\ place = "browse" /\ before = Open /\ result = "none" /\ version = 0

InMenu(where) == result = "none" /\ place = where
Browsing == InMenu("browse") /\ pages # <<>>
Page == pages[index]

ResetPages == pages' = <<>> /\ index' = 1 /\ restarted' = FALSE

Quiet == UNCHANGED <<place, before, result, version>>

(***************************************************************************)
(* Pages                                                                   *)
(***************************************************************************)

\* loadPage: a page, a failure, or a stale cursor, after which the results
\* start again from the first page, once.
LoadPage(cursor) ==
  \/ /\ pages' = Append(pages, [criteria |-> criteria, version |-> version])
     /\ index' = Len(pages) + 1
     /\ UNCHANGED <<restarted, result>>
  \/ /\ cursor /\ ~restarted
     /\ pages' = <<>> /\ index' = 1 /\ restarted' = TRUE
     /\ UNCHANGED result
  \/ /\ result' = "failed"
     /\ UNCHANGED <<pages, index, restarted>>

FirstPage ==
  /\ InMenu("browse") /\ pages = <<>>
  /\ LoadPage(FALSE)
  /\ UNCHANGED <<criteria, place, before, version>>

\* The page after this one, as long as the Runtime has named one.
NextPage ==
  /\ Browsing
  /\ \/ /\ index < Len(pages)
        /\ index' = index + 1 /\ UNCHANGED <<pages, restarted, result>>
     \/ /\ index = Len(pages) /\ Len(pages) < PageLimit
        /\ LoadPage(TRUE)
  /\ UNCHANGED <<criteria, place, before, version>>

PreviousPage ==
  /\ Browsing /\ index > 1
  /\ index' = index - 1
  /\ UNCHANGED <<criteria, pages, restarted>> /\ Quiet

(***************************************************************************)
(* Refining the search                                                     *)
(***************************************************************************)

Refine(changed) == Browsing /\ criteria' = changed /\ ResetPages /\ Quiet

\* A new search looks at all of the tasks again.
Search ==
  \E query \in BOOLEAN :
    Refine([criteria EXCEPT !.query = query, !.scope = IF query THEN "normal" ELSE @])

OpenOnly(scope) == scope \in {"overdue", "happens-today"}

\* "a": the overdue and today's tasks are open tasks.
ToggleOpen ==
  Refine([criteria EXCEPT !.filters.checkbox = IF @ = {} THEN {"open"} ELSE {},
                          !.scope = IF OpenOnly(@) /\ criteria.filters.checkbox # {}
                                      THEN "normal" ELSE @])

ChooseRepresentation ==
  \E r \in Kinds : Refine([criteria EXCEPT !.representations = r])

ChooseScope ==
  \E scope \in Scopes :
    Refine([criteria EXCEPT !.scope = scope,
                            !.filters.checkbox = IF OpenOnly(scope) THEN {"open"} ELSE @])

\* Whatever is chosen, also the mode there is, the project's root is dropped.
ChooseProjectMode ==
  \E mode \in Modes \cup {NoMode} :
    Refine([criteria EXCEPT !.project = [mode |-> mode, root |-> FALSE]])

(***************************************************************************)
(* editFilters                                                             *)
(***************************************************************************)

\* Its catalog is asked for when the editor is opened first.
OpenFilters ==
  /\ Browsing
  /\ \/ place' = "filters" /\ before' = criteria.filters /\ UNCHANGED result
     \/ result' = "failed" /\ UNCHANGED <<place, before>>
  /\ UNCHANGED <<criteria, pages, index, restarted, version>>

EditCriteria(changed) == InMenu("filters") /\ criteria' = changed /\ UNCHANGED <<pages, index, restarted>> /\ Quiet

\* chooseCheckboxes; a view of open tasks is left with them.
EditCheckboxes ==
  \E chosen \in Checkboxes :
    EditCriteria([criteria EXCEPT !.filters.checkbox = chosen,
                          !.scope = IF OpenOnly(@) /\ chosen # {"open"} THEN "normal" ELSE @])

\* resolvedPipelines
StatusesWithin(pipelines) ==
  UNION {StatusesOf[p] : p \in IF pipelines = {} THEN Pipelines ELSE pipelines}

EditPipelines ==
  \E chosen \in SUBSET Pipelines :
    EditCriteria([criteria EXCEPT !.filters.pipelines = chosen,
                          !.filters.statuses = @ \cap StatusesWithin(chosen)])

EditStatuses ==
  \E chosen \in SUBSET StatusesWithin(criteria.filters.pipelines) :
    EditCriteria([criteria EXCEPT !.filters.statuses = chosen])

ResetFilters == EditCriteria([criteria EXCEPT !.filters = Open])

\* Mutant of ApplyFilters: the pages stay.
ApplyFiltersOnly ==
  /\ InMenu("filters") /\ place' = "browse" /\ before' = Open
  /\ UNCHANGED <<criteria, pages, index, restarted, result, version>>

\* "b": the pages are asked for again if the filters differ.
ApplyFilters ==
  /\ InMenu("filters") /\ place' = "browse" /\ before' = Open
  /\ IF criteria.filters = before THEN UNCHANGED <<pages, index, restarted>> ELSE ResetPages
  /\ UNCHANGED <<criteria, result, version>>

(***************************************************************************)
(* Choosing a row                                                          *)
(***************************************************************************)

\* A project row narrows the search to its tasks.
PickProject ==
  Refine([criteria EXCEPT !.project = [mode |-> IF @.mode = NoMode THEN "direct" ELSE @.mode,
                                       root |-> TRUE]])

\* A task row is read again: a task that has moved or gone since it was shown,
\* or is no target for a mutation any more, is not selected, and the list is
\* refreshed.
PickTask ==
  /\ Browsing
  /\ \/ \E mutable \in BOOLEAN :
          /\ result' = IF Page.version = version /\ (Purpose = "mutation-target" => mutable)
                         THEN "selected" ELSE "none"
          /\ IF result' = "none" THEN ResetPages ELSE UNCHANGED <<pages, index, restarted>>
     \/ result' = "failed" /\ UNCHANGED <<pages, index, restarted>>
  /\ UNCHANGED <<criteria, place, before, version>>

\* "q" or the end of the input, at any question.
CancelFinder ==
  /\ result = "none" /\ pages # <<>>
  /\ result' = "cancelled"
  /\ UNCHANGED <<criteria, pages, index, restarted, place, before, version>>

\* Another client moves or replaces the task that is shown.
EditElsewhere ==
  /\ result = "none" /\ version < MaxEdits
  /\ version' = version + 1
  /\ UNCHANGED <<criteria, pages, index, restarted, place, before, result>>

FinderNext ==
  \/ FirstPage \/ NextPage \/ PreviousPage
  \/ Search \/ ToggleOpen \/ ChooseRepresentation \/ ChooseScope \/ ChooseProjectMode
  \/ OpenFilters \/ EditCheckboxes \/ EditPipelines \/ EditStatuses
  \/ ResetFilters \/ ApplyFilters
  \/ PickProject \/ PickTask \/ CancelFinder \/ EditElsewhere

FinderSpec == FinderInit /\ [][FinderNext]_finderVars

(***************************************************************************)
(* Properties                                                              *)
(***************************************************************************)

\* The variables keep their types.
FinderTypeOK ==
  /\ criteria \in Criteria /\ before \in Filters
  /\ \A i \in DOMAIN pages :
       pages[i] \in [criteria : Criteria, version : 0 .. MaxEdits]
  /\ Len(pages) <= PageLimit /\ index \in 1 .. (IF pages = <<>> THEN 1 ELSE Len(pages))
  /\ result \in {"none", "selected", "failed", "cancelled"}
  /\ criteria.project.root => criteria.project.mode # NoMode

\* The rows a user chooses from are those of the search, filters, view and
\* project the header names.  (A view that the filter editor has left while
\* its filters end as they began is the exception: the pages stay.)
PagesMatch ==
  place = "browse" => \A i \in DOMAIN pages :
    LET asked == pages[i].criteria IN
    \/ asked = criteria
    \/ /\ OpenOnly(asked.scope) /\ criteria = [asked EXCEPT !.scope = "normal"]

\* The Runtime is never asked for overdue or today's tasks that are not open,
\* whichever of the three menus has changed one or the other.
OpenViewsAreOpen == OpenOnly(criteria.scope) => criteria.filters.checkbox = {"open"}

\* No status of a pipeline that is filtered out stays among the filters, where
\* it would match no task and could not be seen to be removed.
StatusesFit == criteria.filters.statuses \subseteq StatusesWithin(criteria.filters.pipelines)

\* The task a command goes on with is the one the user was shown, at the place
\* it was shown at, although others move tasks between the page and the choice;
\* what the task says may have changed.
SelectedAsShown == result' = "selected" => Page.version = version

\* The finder asks for what its header says, and the user gets what it shows.
SearchIsShown ==
  [][SelectedAsShown /\ (PagesMatch /\ OpenViewsAreOpen /\ StatusesFit)']_finderVars
=============================================================================
