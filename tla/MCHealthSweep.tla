---------------------------- MODULE MCHealthSweep ----------------------------
(* Instances of HealthSweep: every board of three tasks as it stands, the  *)
(* shapes of four, and a supervisor that sweeps over some for several days. *)
EXTENDS HealthSweep

Cell == [status : {"running"}, age : 0 .. 1, beats : {FALSE}]
            \cup [status : {"running"}, age : {2}, beats : {TRUE}]
            \cup [status : {"blocked"}, age : {0, 2}, beats : {FALSE}]
            \cup [status : {"todo", "ready"}, age : {1}, beats : {FALSE}]
            \cup [status : {"review", "failed", "done", "cancelled", "archived"},
                  age : {0}, beats : {FALSE}]

Silence == [fix |-> {}, review |-> {}, changes |-> {}, required |-> {},
            rejected |-> {}, mentions |-> {}]

Recoveries == [Silence EXCEPT !.fix = Tasks, !.mentions = Tasks \X Tasks]

Reviews == [Silence EXCEPT !.review = Tasks, !.required = Tasks,
                           !.rejected = Tasks]

MCBoard(cell, l, words, yes) ==
    [status |-> [t \in Tasks |-> cell[t].status],
     links |-> l,
     age |-> [t \in Tasks |-> cell[t].age],
     beating |-> {t \in Tasks : cell[t].beats},
     approved |-> yes,
     says |-> words,
     completed |-> [t \in Tasks |-> 0],
     changes |-> {},
     supervised |-> FALSE]

\* Every graph over S in which no two tasks are parents of each other.
Graphs(S) ==
    {l \in SUBSET {e \in S \X S : e[1] # e[2]} :
        \A e \in l : <<e[2], e[1]>> \notin l}

Gone == [status |-> "absent", age |-> 0, beats |-> FALSE]

Standing ==
    {MCBoard(Append(cell, Gone), l, Recoveries, {}) :
        cell \in [1 .. 3 -> Cell], l \in Graphs(1 .. 3)}

At(s, a) == [status |-> s, age |-> a, beats |-> FALSE]

\* The shapes of four tasks.
Shapes ==
    {MCBoard([t \in Tasks |-> At("done", 0)], l, Reviews, {}) : l \in Graphs(Tasks)}

To(t, s, a, b) == [task |-> t, status |-> s, age |-> a, beats |-> b]

Watch(cell, l, cs) ==
    [MCBoard(cell, l, Silence, {}) EXCEPT !.changes = cs, !.supervised = TRUE]

\* A silent worker that comes back and overruns its time; a task whose parent
\* is done, that is promoted and put back; a root whose child is cancelled.
Watched ==
    {Watch(<<At("running", 1), Gone, Gone, Gone>>, {},
           {To(1, "running", 2, TRUE)}),
     Watch(<<Gone, At("done", 0), At("todo", 1), Gone>>, {<<2, 3>>},
           {To(3, "ready", 0, FALSE), To(3, "todo", 1, FALSE)}),
     Watch(<<At("blocked", 0), At("running", 0), Gone, Gone>>, {<<1, 2>>},
           {To(2, "cancelled", 0, FALSE)})}

MCStarting == Standing \cup Shapes \cup Watched

=============================================================================
