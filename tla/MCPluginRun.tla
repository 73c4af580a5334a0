------------------------------ MODULE MCPluginRun ------------------------------
(* Instances of PluginRun: every response of up to MaxEntries entries to a     *)
(* directory, from a plugin that answers as it should; pairs of plugins that   *)
(* share a location, the first of them any program; and rows of three.  Pipes  *)
(* hold two units; requests and responses fit or do not, and responses may be  *)
(* empty.                                                                      *)
EXTENDS PluginRun

CONSTANTS x, y, MaxEntries

MCName == {1, 2, 3}
MCFormat == [l \in Location |-> l]

Text == [indent |-> 0, mark |-> NoPoint, from |-> 0]
Mark == [indent |-> 1, mark |-> x, from |-> 0]

Mk(n, pt, d) == [name |-> n, point |-> pt, data |-> d]

\* Plain files with and without the insertion point, insertions that do and do not
\* bring the point again, and entries that continue the one before.
Alphabet == {Mk(1, NoPoint, <<Text, Mark, Text>>), Mk(2, NoPoint, <<Mark>>),
             Mk(1, x, <<Text, Text>>), Mk(1, x, <<Mark>>), Mk(2, x, <<Text>>),
             Mk(NoName, NoPoint, <<Text>>), Mk(NoName, NoPoint, <<Mark>>)}

\* The lines of a response are labelled with the entry they came with.
Label(es) == [k \in DOMAIN es |->
                [es[k] EXCEPT !.data = [i \in DOMAIN @ |-> [@[i] EXCEPT !.from = k]]]]

Answers == {Label(es) : es \in BoundedSeq(Alphabet, MaxEntries)}

Answer(es, l) == [hasOutput |-> TRUE, outcome |-> "response", entries |-> es, location |-> l]

\* Second plugins: to the same place or another, with files of the first or none of them,
\* failing or not asked for output.
Again == Label(<<Mk(1, NoPoint, <<Text>>), Mk(3, NoPoint, <<Text>>)>>)
Apart == Label(<<Mk(2, NoPoint, <<Mark, Text>>)>>)
Seconds == {Answer(es, l) : es \in {Again, Apart}, l \in Location}
           \cup {[Answer(<<>>, "dir") EXCEPT !.outcome = o] : o \in {"error", "unsupported"}}
           \cup {[Answer(<<>>, "dir") EXCEPT !.hasOutput = FALSE]}

\* Text for one point that, within a file, brings another before it.
Moved == Label(<<Mk(1, NoPoint, <<[Mark EXCEPT !.mark = y], Mark>>), Mk(1, x, <<Text>>),
                 Mk(1, y, <<Mark>>), Mk(1, x, <<Text>>)>>)

Firsts == {Label(es) : es \in {<<Mk(1, NoPoint, <<Text, Mark>>), Mk(1, x, <<Text>>)>>,
                               <<Mk(3, NoPoint, <<Text>>), Mk(2, NoPoint, <<Text>>)>>,
                               <<Mk(NoName, NoPoint, <<Text>>)>>,
                               <<Mk(NoName, x, <<Text>>)>>}}

Singles == {[plugins |-> <<Answer(es, "dir")>>, allowEscape |-> e, fatal |-> FALSE] :
              es \in Answers \cup {Moved}, e \in BOOLEAN}

Pairs == {[plugins |-> <<Answer(es, l), s>>, allowEscape |-> FALSE, fatal |-> f] :
              es \in Firsts, l \in Location, s \in Seconds, f \in BOOLEAN}

\* A third plugin, to the place of the first, after one that goes there or elsewhere.
Triples == {[plugins |-> <<Answer(es, l), Answer(Again, m), Answer(Apart, l)>>,
             allowEscape |-> e, fatal |-> FALSE] :
              es \in Firsts, l \in Location, m \in Location, e \in BOOLEAN}

MCRuns == Singles \cup Pairs \cup Triples

RequestLengths == {1, 5}
ResponseLengths == {0, 2, 5}

\* Every program answers the command that has a plugin of each place and outcome.
Varied == {r \in Pairs : Len(r.plugins[1].entries) = 2 /\ r.plugins[1].location = "dir" /\ ~r.fatal}

MCPrograms == [r \in MCRuns |->
    IF r \in Varied THEN Exchange!Program
    ELSE {[kind |-> "reader", request |-> 1, response |-> 0]}]
===============================================================================
