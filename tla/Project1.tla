------------------------------ MODULE Project1 ------------------------------
(***************************************************************************)
(* The two solutions of Project1 side by side: an input names the solution *)
(* that reads it, "Project1" (FarthestHouses) or "project1_TA"             *)
(* (MeetingSearch).  The variables of the other one have no value.         *)
(***************************************************************************)
EXTENDS FarthestHouses

VARIABLES g_vertex_flag, g_visit_info

ownVars == <<met, shared, results, start_num>>
meetVars == <<g_vertex_flag, g_visit_info>>
allVars == <<vars, meetVars>>

Meeting == INSTANCE MeetingSearch

Own == input.solution = "Project1"

ASSUME OwnAssumption == \A x \in Inputs : x.solution = "Project1" => Presupposed(x)
ASSUME MeetingAssumption ==
    \A x \in Inputs : x.solution # "Project1" => Meeting!Presupposed(x)

EitherInit ==
    \/ Init /\ Own /\ g_vertex_flag = <<>> /\ g_visit_info = <<>>
    \/ /\ Meeting!Init /\ ~Own
       /\ met = <<>> /\ start_num = <<>>
       /\ g_cnt_global = <<>> /\ g_total_max = <<>> /\ g_i_max = <<>>
       /\ g_house_distance_i_to_all = <<>>
       /\ house_distance_least = <<>> /\ house_distance_most = <<>>

EitherNext ==
    \/ Own /\ Next /\ UNCHANGED meetVars
    \/ ~Own /\ Meeting!Next /\ UNCHANGED ownVars

\* As long as a thread can go on, one does.
EitherSpec == EitherInit /\ [][EitherNext]_allVars /\ WF_allVars(EitherNext)

----------------------------------------------------------------------------
(* Properties: those of the two modules, for the solution that runs.       *)

\* What the threads of Project1.cpp tell each other without a lock is true:
\* distances, the greatest distance of a house and g_total_max.
OwnHintsAreTrue == Own => HintsAreTrue

\* Project1.cpp prints the least and the greatest distance, in spite of
\* searches cut short and of the race for g_total_max.
OwnAnswerRight == Own => AnswerRight

\* Threads of Project1.cpp may draw an index beyond the houses to search, all
\* but one of them and no more, although the others go on after the first one
\* is outside of house[].
OwnDrawBound == Own => DrawBound

\* The guarantee in front of MakeResult of project1_TA.cpp: the depths of the
\* first meetings tell the distance, or one more.
MeetingSumTells == ~Own => Meeting!SumTells

\* project1_TA.cpp prints numbers at most one off, the greater never too small.
MeetingAnswerWithinOne == ~Own => Meeting!AnswerWithinOne

\* "finds the maximum shortest path" (in front of MakeResult): the greatest
\* distance that project1_TA.cpp prints is the right one.
MeetingGreatestRight == ~Own => Meeting!GreatestRight

\* The loops of both solutions end: the answer is printed, or main of
\* Project1.cpp waits for a thread that drew an index outside of house[] and
\* all other threads have ended.
EitherEnds == <>(IF Own THEN Over ELSE printed # <<>>)
=============================================================================
