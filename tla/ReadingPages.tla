---------------------------- MODULE ReadingPages -----------------------------
(***************************************************************************)
(* The dashboard (Home.razor) over the collection pipeline: it asks for    *)
(* the newest inventory row and then, in a second query, for the rows of   *)
(* that row's run, while the collectors go on.                             *)
(***************************************************************************)
EXTENDS CollectionPipeline, SequencesExt

VARIABLES finished,   \* the runs in the order of their CompletedAtUtc
          last        \* the run the dashboard has chosen, 0 when it is not loading

PagesInit == Init /\ finished = <<>> /\ last = 0

\* A step of the pipeline; a run that it finishes is the newest one.
Collect ==
    /\ Next
    /\ finished' = finished \o SetToSeq({r \in RunIds : runs'[r].done /\ ~runs[r].done})
    /\ UNCHANGED last

\* The run of the newest row: InventoryDateUtc orders runs as their completion
\* does, since one collector dates the rows just before it saves them.  With no
\* rows at all the page stays empty.
ChooseRun ==
    /\ last = 0
    /\ \E i \in DOMAIN finished :
        /\ InventoryOf(finished[i]) # {}
        /\ \A j \in DOMAIN finished : j > i => InventoryOf(finished[j]) = {}
        /\ last' = finished[i]
    /\ UNCHANGED <<vars, finished>>

\* The rows shown with the run that was chosen.
ShownRows == Sockets(InventoryOf(last))

LoadRows ==
    /\ last # 0
    /\ last' = 0
    /\ UNCHANGED <<vars, finished>>

PagesNext == Collect \/ ChooseRun \/ LoadRows

pagesVars == <<vars, finished, last>>

PagesSpec == PagesInit /\ [][PagesNext]_pagesVars

\* The collectors' fairness; nothing is assumed of the circuits.
FairPagesSpec == PagesSpec /\ Fairness

-----------------------------------------------------------------------------
\* With one SQL collector the two queries of the page belong together, although
\* runs are finished and inventory is deleted between them: the run it has
\* chosen has rows, and a completed one as many as were matched
\* (Home.razor:78 to 89, SqlCollector/Worker.cs:117).
HomeShowsWholeRun ==
    last # 0 =>
        /\ ShownRows # {}
        /\ runs[last].status = "Completed" => Cardinality(ShownRows) = runs[last].matched

\* CODEX_HANDOFF.md:398: the default screen shows the result of the last
\* successful collection, as the label of Home.razor:13 says.
HomeShowsLastSuccess == last # 0 => runs[last].status = "Completed"
=============================================================================
